------------------------- MODULE ConversationProofs -------------------------
(***************************************************************************)
(* Proofs about the three conversations of a chat that the models keep     *)
(* apart: Exchange (the player, the characters and what each is told),     *)
(* History (the game master and the model that plays it) and Architect     *)
(* (the helper that edits the world).                                      *)
(***************************************************************************)
EXTENDS Exchange, History, Architect, Integers, FiniteSetTheorems, SequenceTheorems, TLAPS

-----------------------------------------------------------------------------
(***************************************************************************)
(* Exchange.                                                               *)
(***************************************************************************)
-----------------------------------------------------------------------------
(* The shape of a session.                                                 *)

CardMessages == [kind : {"card", "update"}, revision : Nat]
ToldMessages == [kind : {"told"}, beats : SUBSET Nat]
SpokenMessages == [kind : {"spoken"}]
NpcMessages == CardMessages \cup ToldMessages \cup SpokenMessages

Beats == [seq : Nat, actor : Npcs \cup {"player"}, turn : Nat, heard : SUBSET Npcs, note : Venues \cup {Nowhere}]
Drafts == [seq : Nat, loud : BOOLEAN, heard : SUBSET Npcs, told : SUBSET Nat]

Talks ==
  [seq : Nat, turn : Nat, beats : SUBSET Beats, player : Venues, at : [Npcs -> Venues],
   revision : [Npcs -> Nat], injected : [Npcs -> SUBSET Nat], history : [Npcs -> Seq(NpcMessages)],
   delivered : [Npcs -> Nat], shown : [Npcs -> SUBSET Nat], drafts : [Npcs -> Drafts \cup {NoDraft}]]

-----------------------------------------------------------------------------
(* The history of one character.                                           *)

(* What is said last of the card is what was noted as injected.            *)
Tracked(h, injected) ==
  Stated(h) = {} \/ \E i \in Stated(h) : (\A j \in Stated(h) : j <= i) /\ injected = {h[i].revision}

(* The history ends with this revision of the card. *)
States(h, revision) ==
  \E i \in Stated(h) : (\A j \in Stated(h) : j <= i) /\ h[i].revision = revision

Tellings(h) == {i \in DOMAIN h : h[i].kind = "told"}

(* Beats up to last are told, each once, and none of own.                  *)
ToldUpTo(h, last) == \A i \in Tellings(h) : \A s \in h[i].beats : s <= last
ToldOnce(h) == \A i, j \in Tellings(h) : i # j => h[i].beats \cap h[j].beats = {}
NotTold(h, own) == \A i \in Tellings(h) : h[i].beats \cap own = {}

(* It tells beats. *)
LEMMA TellingsTyped ==
  ASSUME NEW h \in Seq(NpcMessages), NEW i \in Tellings(h)
  PROVE  h[i].beats \in SUBSET Nat
<1>1. h[i] \in NpcMessages /\ h[i].kind = "told"
  BY DEF Tellings
<1> QED BY <1>1 DEF NpcMessages, CardMessages, ToldMessages, SpokenMessages

(* What g tells, h tells at a place so far away. *)
TellsNoMore(h, g) ==
  \E away \in Int : \A i \in Tellings(g) : i + away \in Tellings(h) /\ g[i].beats = h[i + away].beats

(* A history that tells no more tells each once. *)
LEMMA ToldLess ==
  ASSUME NEW h, NEW g \in Seq(NpcMessages), TellsNoMore(h, g)
  PROVE  /\ \A last : ToldUpTo(h, last) => ToldUpTo(g, last)
         /\ ToldOnce(h) => ToldOnce(g)
         /\ \A own : NotTold(h, own) => NotTold(g, own)
<1> PICK away \in Int : \A i \in Tellings(g) : i + away \in Tellings(h) /\ g[i].beats = h[i + away].beats
  BY DEF TellsNoMore
<1>1. Tellings(g) \subseteq Int
  BY DEF Tellings
<1>2. \A i, j \in Tellings(g) : i # j => i + away # j + away
  BY <1>1
<1> QED BY <1>1, <1>2 DEF ToldUpTo, ToldOnce, NotTold

(* Its card is stated at the end ... *)
LEMMA UpdateStated ==
  ASSUME NEW h \in Seq(NpcMessages), NEW r \in Nat
  PROVE  LET g == Append(h, CardUpdate(r))
         IN  g \in Seq(NpcMessages) /\ States(g, r) /\ Tracked(g, {r}) /\ TellsNoMore(h, g)
<1> DEFINE g == Append(h, CardUpdate(r))
<1> SUFFICES g \in Seq(NpcMessages) /\ States(g, r) /\ Tracked(g, {r}) /\ TellsNoMore(h, g)
  OBVIOUS
<1>1. CardUpdate(r) \in NpcMessages /\ CardUpdate(r).kind = "update" /\ CardUpdate(r).revision = r
  BY DEF CardUpdate, NpcMessages, CardMessages
<1> HIDE DEF CardUpdate
<1>2. g \in Seq(NpcMessages) /\ Len(g) = Len(h) + 1 /\ g[Len(g)] = CardUpdate(r) /\ \A i \in 1 .. Len(h) : g[i] = h[i]
  BY <1>1
<1> HIDE DEF g
<1>3. Len(g) \in Stated(g) /\ \A j \in Stated(g) : j <= Len(g)
  BY <1>1, <1>2 DEF Stated, IsNpcCardMessage
<1>4. TellsNoMore(h, g)
  <2>1. \A i \in Tellings(g) : i + 0 \in Tellings(h) /\ g[i].beats = h[i + 0].beats
    BY <1>1, <1>2 DEF Tellings
  <2> QED BY <2>1 DEF TellsNoMore
<1>5. States(g, r)
  BY <1>1, <1>2, <1>3 DEF States
<1>6. Tracked(g, {r})
  BY <1>1, <1>2, <1>3 DEF Tracked
<1> QED BY <1>2, <1>4, <1>5, <1>6

(* ... or, when it is not stated, at the beginning. *)
LEMMA CardStated ==
  ASSUME NEW h \in Seq(NpcMessages), NEW r \in Nat, Stated(h) = {}
  PROVE  LET g == <<Card(r)>> \o h
         IN  g \in Seq(NpcMessages) /\ States(g, r) /\ Tracked(g, {r}) /\ TellsNoMore(h, g)
<1> DEFINE g == <<Card(r)>> \o h
<1> SUFFICES g \in Seq(NpcMessages) /\ States(g, r) /\ Tracked(g, {r}) /\ TellsNoMore(h, g)
  OBVIOUS
<1>1. Card(r) \in NpcMessages /\ Card(r).kind = "card" /\ Card(r).revision = r
  BY DEF Card, NpcMessages, CardMessages
<1> HIDE DEF Card
<1>2. g \in Seq(NpcMessages) /\ Len(g) = Len(h) + 1 /\ g[1] = Card(r) /\ \A i \in 2 .. Len(g) : g[i] = h[i - 1]
  BY <1>1
<1> HIDE DEF g
<1>3. Stated(g) = {1}
  BY <1>1, <1>2 DEF Stated, IsNpcCardMessage
<1>4. TellsNoMore(h, g)
  <2>1. \A i \in Tellings(g) : i + (-1) \in Tellings(h) /\ g[i].beats = h[i + (-1)].beats
    BY <1>1, <1>2 DEF Tellings
  <2> QED BY <2>1 DEF TellsNoMore
<1>5. States(g, r)
  BY <1>1, <1>2, <1>3 DEF States
<1>6. Tracked(g, {r})
  BY <1>1, <1>2, <1>3 DEF Tracked
<1> QED BY <1>2, <1>4, <1>5, <1>6

(* What compaction leaves. *)
LEMMA CompactedHistory ==
  ASSUME NEW h \in Seq(NpcMessages), NEW g \in NpcCompacted(h)
  PROVE  /\ g \in Seq(NpcMessages) /\ TellsNoMore(h, g)
         /\ \A injected : Tracked(h, injected) => Tracked(g, injected)
<1>1. CASE g = h
  <2>1. \A i \in Tellings(g) : i + 0 \in Tellings(h) /\ g[i].beats = h[i + 0].beats
    BY <1>1 DEF Tellings
  <2> QED BY <1>1, <2>1 DEF TellsNoMore
<1>2. ASSUME NEW cut \in DOMAIN h, g = SubSeq(h, cut, Len(h))
      PROVE  /\ g \in Seq(NpcMessages) /\ TellsNoMore(h, g)
             /\ \A injected : Tracked(h, injected) => Tracked(g, injected)
  <2>1. g \in Seq(NpcMessages) /\ Len(g) = Len(h) - cut + 1 /\ \A i \in 1 .. Len(g) : g[i] = h[i + (cut - 1)]
    BY <1>2
  <2>2. TellsNoMore(h, g)
    <3>1. \A i \in Tellings(g) : i + (cut - 1) \in Tellings(h) /\ g[i].beats = h[i + (cut - 1)].beats
      BY <2>1 DEF Tellings
    <3> QED BY <3>1 DEF TellsNoMore
  <2>3. ASSUME NEW injected, Tracked(h, injected) PROVE Tracked(g, injected)
    <3>1. \A i \in Stated(g) : i + (cut - 1) \in Stated(h) /\ g[i] = h[i + (cut - 1)]
      BY <2>1 DEF Stated
    <3>2. \A k \in Stated(h) : k >= cut => k - (cut - 1) \in Stated(g) /\ g[k - (cut - 1)] = h[k]
      BY <2>1 DEF Stated
    <3>3. CASE Stated(g) = {}
      BY <3>3 DEF Tracked
    <3>4. CASE Stated(g) # {}
      <4>1. PICK i \in Stated(g) : TRUE
        BY <3>4
      <4>2. i + (cut - 1) \in Stated(h) /\ i + (cut - 1) >= cut /\ Stated(h) \subseteq Int /\ Stated(g) \subseteq Int
        BY <3>1 DEF Stated
      <4>3. PICK k \in Stated(h) : (\A j \in Stated(h) : j <= k) /\ injected = {h[k].revision}
        BY <2>3, <4>2 DEF Tracked
      <4>4. k >= cut
        BY <4>2, <4>3
      <4> DEFINE l == k - (cut - 1)
      <4>5. l \in Stated(g) /\ g[l] = h[k]
        BY <3>2, <4>4
      <4>6. \A j \in Stated(g) : j <= l
        BY <3>1, <4>2, <4>3
      <4> HIDE DEF l
      <4> QED BY <4>3, <4>5, <4>6 DEF Tracked
    <3> QED BY <3>3, <3>4
  <2> QED BY <2>1, <2>2, <2>3
<1> QED BY <1>1, <1>2 DEF NpcCompacted, NpcCut

WithAnswer(h, told) == h \o <<Told(told), Spoken>>

(* A committed answer is told what it was asked with. *)
LEMMA AnswerAppended ==
  ASSUME NEW h \in Seq(NpcMessages), NEW told \in SUBSET Nat, NEW g, g = WithAnswer(h, told)
  PROVE  /\ g \in Seq(NpcMessages)
         /\ \A injected : Tracked(h, injected) => Tracked(g, injected)
         /\ Tellings(g) = Tellings(h) \cup {Len(h) + 1}
         /\ g[Len(h) + 1].beats = told /\ \A i \in Tellings(h) : g[i] = h[i]
<1>1. Told(told) \in NpcMessages /\ Told(told).kind = "told" /\ Told(told).beats = told
  BY DEF Told, NpcMessages, ToldMessages
<1>2. Spoken \in NpcMessages /\ Spoken.kind = "spoken"
  BY DEF Spoken, NpcMessages, SpokenMessages
<1> HIDE DEF Told, Spoken
<1>3. /\ g \in Seq(NpcMessages) /\ Len(g) = Len(h) + 2 /\ \A i \in 1 .. Len(h) : g[i] = h[i]
      /\ g[Len(h) + 1] = Told(told) /\ g[Len(h) + 2] = Spoken
  BY <1>1, <1>2 DEF WithAnswer
<1>4. Stated(g) = Stated(h) /\ \A i \in Stated(h) : g[i] = h[i]
  BY <1>1, <1>2, <1>3 DEF Stated, IsNpcCardMessage
<1>5. Tellings(g) = Tellings(h) \cup {Len(h) + 1} /\ \A i \in Tellings(h) : g[i] = h[i]
  BY <1>1, <1>2, <1>3 DEF Tellings
<1>6. ASSUME NEW injected, Tracked(h, injected) PROVE Tracked(g, injected)
  BY <1>4, <1>6 DEF Tracked
<1> QED BY <1>1, <1>3, <1>5, <1>6

-----------------------------------------------------------------------------
(* The session.                                                            *)

HasDraft(t, n) == t.drafts[n] # NoDraft
Own(t, n) == {b.seq : b \in {c \in t.beats : c.actor = n}}

(* A beat has one actor, and no later number than the last one.            *)
BeatsNumbered(t) ==
  /\ \A b \in t.beats : b.seq <= t.seq
  /\ \A b, c \in t.beats : b.seq = c.seq => b.actor = c.actor

(* A character was told up to delivered, and is told up to shown next.     *)
CursorsInOrder(t) ==
  \A n \in Npcs :
    /\ t.delivered[n] <= t.seq
    /\ t.shown[n] = {} \/ \E s \in t.shown[n] : t.shown[n] = {s} /\ t.delivered[n] <= s /\ s <= t.seq

(* Between these lies what a request tells, none of it its own.            *)
NewFor(t, n, told) ==
  /\ \A s \in told : t.delivered[n] < s /\ \A last \in t.shown[n] : s <= last
  /\ told \cap Own(t, n) = {}
  /\ HasDraft(t, n) => t.drafts[n].seq \notin told

DraftsNumbered(t) ==
  \A n \in Npcs : HasDraft(t, n) =>
    /\ t.delivered[n] < t.drafts[n].seq /\ t.drafts[n].seq <= t.seq
    /\ \A b \in t.beats : b.seq # t.drafts[n].seq
    /\ \A m \in Npcs : HasDraft(t, m) /\ m # n => t.drafts[m].seq # t.drafts[n].seq

DraftsTold(t) ==
  \A n \in Npcs : HasDraft(t, n) => t.shown[n] # {} /\ NewFor(t, n, t.drafts[n].told)

HistoriesTold(t) ==
  \A n \in Npcs : /\ ToldUpTo(t.history[n], t.delivered[n])
                  /\ ToldOnce(t.history[n])
                  /\ NotTold(t.history[n], Own(t, n))

CardsTracked(t) == \A n \in Npcs : Tracked(t.history[n], t.injected[n])

Sound(t) ==
  /\ t \in Talks
  /\ BeatsNumbered(t) /\ CursorsInOrder(t)
  /\ DraftsNumbered(t) /\ DraftsTold(t)
  /\ HistoriesTold(t) /\ CardsTracked(t)

(* The request under way. *)
AskingSound ==
  asking.stage = "asked" =>
    /\ asking.npc \in Npcs /\ asking.loud \in BOOLEAN
    /\ asking.heard \subseteq Npcs /\ asking.told \subseteq Nat
    /\ liveTalk.shown[asking.npc] # {} /\ NewFor(liveTalk, asking.npc, asking.told)
    /\ States(liveTalk.history[asking.npc], liveTalk.revision[asking.npc])

ExchangeInv == Sound(keptTalk) /\ Sound(liveTalk) /\ AskingSound

(* A session that differs from t in these fields.                          *)
TalkFields == {"seq", "turn", "beats", "player", "at", "revision", "injected", "history",
               "delivered", "shown", "drafts"}
Only(t, u, fields) == u \in Talks /\ \A f \in TalkFields \ fields : u[f] = t[f]

(* Who is where, which cards there are and which turn it is matter not.    *)
Elsewhere == {"turn", "player", "at", "revision"}

(* Fields are of their types. *)
LEMMA TalkTypes ==
  ASSUME NEW t \in Talks
  PROVE  /\ t.seq \in Nat /\ t.turn \in Nat /\ t.beats \in SUBSET Beats
         /\ \A b \in t.beats : b \in Beats /\ b.seq \in Nat /\ b.heard \in SUBSET Npcs
         /\ \A n \in Npcs : /\ t.delivered[n] \in Nat /\ t.shown[n] \in SUBSET Nat
                            /\ t.revision[n] \in Nat /\ t.injected[n] \in SUBSET Nat
                            /\ t.history[n] \in Seq(NpcMessages)
                            /\ HasDraft(t, n) => /\ t.drafts[n].seq \in Nat
                                                 /\ t.drafts[n].told \in SUBSET Nat
                                                 /\ t.drafts[n].heard \in SUBSET Npcs
BY DEF Talks, Beats, Drafts, HasDraft

(* Another session so far. *)
LEMMA SameSound ==
  ASSUME NEW t, NEW u, Sound(t), Only(t, u, Elsewhere)
  PROVE  Sound(u)
<1>0. /\ u \in Talks /\ u.seq = t.seq /\ u.beats = t.beats /\ u.delivered = t.delivered
      /\ u.shown = t.shown /\ u.drafts = t.drafts /\ u.history = t.history /\ u.injected = t.injected
  BY DEF Only, Elsewhere, TalkFields
<1>1. BeatsNumbered(u) /\ CursorsInOrder(u)
  BY <1>0 DEF Sound, BeatsNumbered, CursorsInOrder
<1>2. DraftsNumbered(u) /\ DraftsTold(u)
  BY <1>0 DEF Sound, DraftsNumbered, DraftsTold, HasDraft, NewFor, Own
<1>3. HistoriesTold(u) /\ CardsTracked(u)
  BY <1>0 DEF Sound, HistoriesTold, CardsTracked, Own
<1> QED BY <1>0, <1>1, <1>2, <1>3 DEF Sound

(* The beats of u are those of t, with other witnesses, and one more of    *)
(* the player. *)
PlayerBeatsOf(t, u) ==
  /\ Only(t, u, {"seq", "beats"})
  /\ t.seq <= u.seq
  /\ \A b \in u.beats : \/ \E c \in t.beats : b.seq = c.seq /\ b.actor = c.actor
                        \/ b.seq = u.seq /\ b.seq = t.seq + 1 /\ b.actor = "player"

(* PlayerRecorded is such. *)
LEMMA PlayerRecordedDoes ==
  ASSUME NEW t \in Talks, NEW heard \in SUBSET Npcs
  PROVE  PlayerBeatsOf(t, PlayerRecorded(t, heard))
<1> DEFINE u == PlayerRecorded(t, heard)
<1> SUFFICES PlayerBeatsOf(t, u)
  OBVIOUS
<1>0. t.seq \in Nat /\ t.beats \in SUBSET Beats
  BY TalkTypes
<1>1. ASSUME NEW n \in Nat, NEW more \in SUBSET Beats, u = [t EXCEPT !.seq = n, !.beats = more]
      PROVE  Only(t, u, {"seq", "beats"}) /\ u.seq = n /\ u.beats = more
  <2> HIDE DEF u
  <2> QED BY <1>1 DEF Talks, Only, TalkFields
<1>2. CASE PlayerBeat(t) = {}
  <2>1. Beat(t, t.seq + 1, "player", heard) \in Beats
    BY DEF Beat, NoteOf, Beats, Talks
  <2> DEFINE more == t.beats \cup {Beat(t, t.seq + 1, "player", heard)}
             n == t.seq + 1
  <2>2. u = [t EXCEPT !.seq = n, !.beats = more]
    BY <1>2 DEF PlayerRecorded, Talks
  <2>3. more \in SUBSET Beats /\ n \in Nat
    BY <1>0, <2>1
  <2>4. \A b \in more : b \in t.beats \/ (b.seq = n /\ b.actor = "player")
    BY DEF Beat
  <2>5. t.seq <= n /\ n = t.seq + 1
    BY <1>0
  <2> HIDE DEF more, n
  <2>6. Only(t, u, {"seq", "beats"}) /\ u.seq = n /\ u.beats = more
    BY <1>1, <2>2, <2>3
  <2> HIDE DEF u
  <2> QED BY <2>4, <2>5, <2>6 DEF PlayerBeatsOf
<1>3. CASE PlayerBeat(t) # {}
  <2> DEFINE grown == {IF b \in PlayerBeat(t) THEN [b EXCEPT !.heard = @ \cup heard] ELSE b : b \in t.beats}
  <2>1. u = [t EXCEPT !.seq = t.seq, !.beats = grown]
    BY <1>3 DEF PlayerRecorded, Talks
  <2>2. ASSUME NEW c \in Beats
        PROVE  LET d == [c EXCEPT !.heard = @ \cup heard]
               IN  d \in Beats /\ d.seq = c.seq /\ d.actor = c.actor
    BY DEF Beats
  <2>3. \A b \in grown : b \in Beats /\ \E c \in t.beats : b.seq = c.seq /\ b.actor = c.actor
    <3> SUFFICES ASSUME NEW c \in t.beats
                 PROVE  LET b == IF c \in PlayerBeat(t) THEN [c EXCEPT !.heard = @ \cup heard] ELSE c
                        IN  b \in Beats /\ b.seq = c.seq /\ b.actor = c.actor
      OBVIOUS
    <3> QED BY <1>0, <2>2
  <2> HIDE DEF grown
  <2>4. grown \in SUBSET Beats
    BY <2>3
  <2>5. Only(t, u, {"seq", "beats"}) /\ u.seq = t.seq /\ u.beats = grown
    BY <1>0, <1>1, <2>1, <2>4
  <2> HIDE DEF u
  <2> QED BY <1>0, <2>3, <2>5 DEF PlayerBeatsOf
<1> QED BY <1>2, <1>3

(* It keeps a session sound. *)
LEMMA PlayerBeatsSound ==
  ASSUME NEW t, NEW u, Sound(t), PlayerBeatsOf(t, u)
  PROVE  Sound(u)
<1>0. /\ t \in Talks /\ u \in Talks /\ u.delivered = t.delivered /\ u.shown = t.shown
      /\ u.drafts = t.drafts /\ u.history = t.history /\ u.injected = t.injected
  BY DEF Sound, PlayerBeatsOf, Only, TalkFields
<1>1. /\ t.seq \in Nat /\ u.seq \in Nat /\ \A b \in t.beats \cup u.beats : b.seq \in Nat
      /\ \A n \in Npcs : t.delivered[n] \in Nat /\ t.shown[n] \in SUBSET Nat
  BY <1>0, TalkTypes
<1>2. BeatsNumbered(u)
  BY <1>1 DEF Sound, PlayerBeatsOf, BeatsNumbered
<1>3. CursorsInOrder(u)
  <2> SUFFICES ASSUME NEW n \in Npcs
               PROVE  /\ t.delivered[n] <= u.seq
                      /\ t.shown[n] = {} \/ \E s \in t.shown[n] : t.shown[n] = {s} /\ t.delivered[n] <= s /\ s <= u.seq
    BY <1>0 DEF CursorsInOrder
  <2> QED BY <1>1 DEF Sound, PlayerBeatsOf, CursorsInOrder
<1>4. DraftsNumbered(u)
  <2>1. \A n \in Npcs : HasDraft(t, n) => t.drafts[n].seq \in Nat
    BY <1>0, TalkTypes
  <2> QED BY <1>0, <1>1, <2>1 DEF Sound, PlayerBeatsOf, DraftsNumbered, HasDraft
<1>5. ASSUME NEW n \in Npcs, NEW s \in Nat, s <= t.seq, s \notin Own(t, n)
      PROVE  s \notin Own(u, n)
  BY <1>1, <1>5 DEF PlayerBeatsOf, Own
<1>6. DraftsTold(u)
  <2> SUFFICES ASSUME NEW n \in Npcs, HasDraft(t, n)
               PROVE  t.drafts[n].told \cap Own(u, n) = {}
    BY <1>0 DEF Sound, DraftsTold, HasDraft, NewFor
  <2>1. \A s \in t.drafts[n].told : s \in Nat /\ s <= t.seq /\ s \notin Own(t, n)
    <3>1. t.drafts[n].told \in SUBSET Nat /\ NewFor(t, n, t.drafts[n].told) /\ t.shown[n] # {}
      BY <1>0, TalkTypes DEF Sound, DraftsTold, HasDraft
    <3>2. PICK last \in t.shown[n] : last <= t.seq /\ last \in Nat
      BY <1>1, <3>1 DEF Sound, CursorsInOrder
    <3> QED BY <1>1, <3>1, <3>2 DEF NewFor
  <2> QED BY <1>5, <2>1
<1>7. HistoriesTold(u)
  <2> SUFFICES ASSUME NEW n \in Npcs PROVE NotTold(t.history[n], Own(u, n))
    BY <1>0 DEF Sound, HistoriesTold
  <2>1. \A i \in Tellings(t.history[n]) : \A s \in t.history[n][i].beats :
             s \in Nat /\ s <= t.seq /\ s \notin Own(t, n)
    <3>1. \A i \in Tellings(t.history[n]) : t.history[n][i].beats \subseteq Nat
      BY <1>0, TalkTypes, TellingsTyped
    <3> QED BY <1>1, <3>1 DEF Sound, HistoriesTold, CursorsInOrder, ToldUpTo, NotTold
  <2> QED BY <1>5, <2>1 DEF NotTold
<1>8. CardsTracked(u)
  BY <1>0 DEF Sound, CardsTracked
<1> QED BY <1>2, <1>3, <1>4, <1>6, <1>7, <1>8, <1>0 DEF Sound

-----------------------------------------------------------------------------
(* The request to a character.                                             *)

(* Nobody was told yet of what a request tells.                            *)
LEMMA ObservationsNew ==
  ASSUME NEW t, Sound(t), NEW n \in Npcs
  PROVE  /\ Observations(t, n) \in SUBSET Nat
         /\ \A s \in Observations(t, n) : t.delivered[n] < s /\ s <= t.seq
         /\ Observations(t, n) \cap Own(t, n) = {}
         /\ HasDraft(t, n) => t.drafts[n].seq \notin Observations(t, n)
<1> DEFINE notes == {c \in t.beats : /\ c.note = t.at[n] /\ c.seq > t.delivered[n]
                                    /\ c.actor # n /\ n \in c.heard
                                    /\ ~ (c.actor = "player" /\ c.turn = t.turn)}
           others == {k \in Npcs \ {n} : /\ t.drafts[k] # NoDraft
                                         /\ t.drafts[k].seq > t.delivered[n]
                                         /\ n \in t.drafts[k].heard}
<1>0. t \in Talks
  BY DEF Sound
<1>1. Observations(t, n) = {b.seq : b \in notes} \cup {t.drafts[k].seq : k \in others}
  BY DEF Observations
<1>2. ASSUME NEW b \in notes
      PROVE  /\ b.seq \in Nat /\ t.delivered[n] < b.seq /\ b.seq <= t.seq /\ b.seq \notin Own(t, n)
             /\ HasDraft(t, n) => t.drafts[n].seq # b.seq
  <2>1. b \in t.beats /\ b.seq \in Nat /\ t.delivered[n] \in Nat /\ b.seq > t.delivered[n] /\ b.actor # n
    BY <1>0, TalkTypes
  <2> QED BY <2>1 DEF Sound, BeatsNumbered, DraftsNumbered, Own
<1>3. ASSUME NEW k \in others
      PROVE  LET s == t.drafts[k].seq
             IN  /\ s \in Nat /\ t.delivered[n] < s /\ s <= t.seq /\ s \notin Own(t, n)
                 /\ HasDraft(t, n) => t.drafts[n].seq # s
  <2>1. k \in Npcs /\ k # n /\ HasDraft(t, k) /\ t.drafts[k].seq > t.delivered[n]
    BY DEF HasDraft
  <2>2. t.drafts[k].seq \in Nat /\ t.delivered[n] \in Nat
    BY <1>0, <2>1, TalkTypes
  <2> QED BY <2>1, <2>2 DEF Sound, DraftsNumbered, Own
<1> HIDE DEF notes, others
<1> QED BY <1>1, <1>2, <1>3

(* One history and what was injected, of n.                                *)
HistoryOf(t, u, n, h, c) ==
  /\ Only(t, u, {"history", "injected"})
  /\ u.history = [t.history EXCEPT ![n] = h] /\ u.injected = [t.injected EXCEPT ![n] = c]

(* The card that the request needs is stated.                              *)
LEMMA CardInjectedDoes ==
  ASSUME NEW t \in Talks, NEW n \in Npcs, Tracked(t.history[n], t.injected[n])
  PROVE  \E h \in Seq(NpcMessages) :
           /\ HistoryOf(t, CardInjected(t, n), n, h, {t.revision[n]})
           /\ States(h, t.revision[n]) /\ Tracked(h, {t.revision[n]}) /\ TellsNoMore(t.history[n], h)
<1> DEFINE old == t.history[n]
           r == t.revision[n]
           u == CardInjected(t, n)
<1> SUFFICES \E h \in Seq(NpcMessages) :
           /\ HistoryOf(t, u, n, h, {r})
           /\ States(h, r) /\ Tracked(h, {r}) /\ TellsNoMore(old, h)
  OBVIOUS
<1>0. old \in Seq(NpcMessages) /\ r \in Nat /\ t.injected[n] \in SUBSET Nat
  BY TalkTypes
<1>1. ASSUME NEW h \in Seq(NpcMessages), NEW c \in SUBSET Nat,
             u = [t EXCEPT !.history[n] = h, !.injected[n] = c]
      PROVE  HistoryOf(t, u, n, h, c)
  <2> HIDE DEF u
  <2> QED BY <1>1 DEF Talks, Only, TalkFields, HistoryOf
<1>2. (\E i \in DOMAIN old : IsNpcCardMessage(old[i])) <=> Stated(old) # {}
  BY DEF Stated
<1>3. CASE Stated(old) # {} /\ t.injected[n] = {r}
  <2>1. u = t
    BY <1>2, <1>3 DEF CardInjected
  <2>2. t = [t EXCEPT !.history[n] = old, !.injected[n] = {r}]
    BY <1>3 DEF Talks
  <2>3. HistoryOf(t, u, n, old, {r})
    BY <1>0, <1>1, <2>1, <2>2
  <2>4. States(old, r) /\ Tracked(old, {r})
    BY <1>3 DEF Tracked, States
  <2>5. TellsNoMore(old, old)
    <3>1. \A i \in Tellings(old) : i + 0 \in Tellings(old) /\ old[i].beats = old[i + 0].beats
      BY <1>0 DEF Tellings
    <3> QED BY <3>1 DEF TellsNoMore
  <2> HIDE DEF u, old
  <2> QED BY <1>0, <2>3, <2>4, <2>5
<1>4. CASE Stated(old) # {} /\ t.injected[n] # {r}
  <2> DEFINE h == Append(old, CardUpdate(r))
  <2>1. u = [t EXCEPT !.history[n] = h, !.injected[n] = {r}]
    BY <1>2, <1>4 DEF CardInjected, Talks
  <2>2. h \in Seq(NpcMessages) /\ States(h, r) /\ Tracked(h, {r}) /\ TellsNoMore(old, h)
    BY <1>0, UpdateStated
  <2> HIDE DEF u, h, old
  <2> QED BY <1>0, <1>1, <2>1, <2>2
<1>5. CASE Stated(old) = {}
  <2> DEFINE h == <<Card(r)>> \o old
  <2>1. u = [t EXCEPT !.history[n] = h, !.injected[n] = {r}]
    BY <1>2, <1>5 DEF CardInjected, Talks
  <2>2. h \in Seq(NpcMessages) /\ States(h, r) /\ Tracked(h, {r}) /\ TellsNoMore(old, h)
    BY <1>0, <1>5, CardStated
  <2> HIDE DEF u, h, old
  <2> QED BY <1>0, <1>1, <2>1, <2>2
<1> QED BY <1>3, <1>4, <1>5

(* A history that tells no more keeps a session sound.                     *)
LEMMA HistorySound ==
  ASSUME NEW t, NEW u, NEW n \in Npcs, NEW h \in Seq(NpcMessages), NEW c, Sound(t),
         HistoryOf(t, u, n, h, c), Tracked(h, c), TellsNoMore(t.history[n], h)
  PROVE  Sound(u)
<1>0. /\ t \in Talks /\ u \in Talks /\ u.seq = t.seq /\ u.beats = t.beats
      /\ u.delivered = t.delivered /\ u.shown = t.shown /\ u.drafts = t.drafts
  BY DEF Sound, HistoryOf, Only, TalkFields
<1>1. \A m \in Npcs :
           u.history[m] = (IF m = n THEN h ELSE t.history[m]) /\ u.injected[m] = IF m = n THEN c ELSE t.injected[m]
  BY <1>0 DEF HistoryOf, Talks
<1>2. BeatsNumbered(u) /\ CursorsInOrder(u)
  BY <1>0 DEF Sound, BeatsNumbered, CursorsInOrder
<1>3. DraftsNumbered(u) /\ DraftsTold(u)
  BY <1>0 DEF Sound, DraftsNumbered, DraftsTold, HasDraft, NewFor, Own
<1>4. HistoriesTold(u)
  <2>1. /\ ToldUpTo(h, t.delivered[n]) /\ ToldOnce(h) /\ NotTold(h, Own(t, n))
    BY ToldLess DEF Sound, HistoriesTold
  <2>2. \A m \in Npcs : Own(u, m) = Own(t, m)
    BY <1>0 DEF Own
  <2> QED BY <1>0, <1>1, <2>1, <2>2 DEF Sound, HistoriesTold
<1>5. CardsTracked(u)
  BY <1>1 DEF Sound, CardsTracked
<1> QED BY <1>0, <1>2, <1>3, <1>4, <1>5 DEF Sound

(* What is shown to a character moves on.                                  *)
LEMMA ShownSound ==
  ASSUME NEW t, NEW n \in Npcs, Sound(t)
  PROVE  LET u == [t EXCEPT !.shown[n] = {t.seq}]
         IN  /\ Sound(u) /\ Only(t, u, {"shown"}) /\ u.shown[n] = {t.seq}
             /\ NewFor(u, n, Observations(t, n))
<1> DEFINE u == [t EXCEPT !.shown[n] = {t.seq}]
<1>0. t \in Talks /\ t.seq \in Nat
  BY TalkTypes DEF Sound
<1>1. Only(t, u, {"shown"}) /\ u.shown = [t.shown EXCEPT ![n] = {t.seq}]
  BY <1>0 DEF Talks, Only, TalkFields
<1> HIDE DEF u
<1>2. /\ u \in Talks /\ u.seq = t.seq /\ u.beats = t.beats /\ u.delivered = t.delivered
      /\ u.drafts = t.drafts /\ u.history = t.history /\ u.injected = t.injected
  BY <1>1 DEF Only, TalkFields
<1>3. \A m \in Npcs : u.shown[m] = IF m = n THEN {t.seq} ELSE t.shown[m]
  BY <1>0, <1>1 DEF Talks
<1>4. BeatsNumbered(u) /\ DraftsNumbered(u) /\ HistoriesTold(u) /\ CardsTracked(u)
  BY <1>2 DEF Sound, BeatsNumbered, DraftsNumbered, HistoriesTold, CardsTracked, HasDraft, Own
<1>5. CursorsInOrder(u)
  <2> SUFFICES ASSUME NEW m \in Npcs
               PROVE  /\ t.delivered[m] <= t.seq
                      /\ u.shown[m] = {} \/ \E s \in u.shown[m] : u.shown[m] = {s} /\ t.delivered[m] <= s /\ s <= t.seq
    BY <1>2 DEF CursorsInOrder
  <2>1. /\ t.delivered[m] <= t.seq
        /\ t.shown[m] = {} \/ \E s \in t.shown[m] : t.shown[m] = {s} /\ t.delivered[m] <= s /\ s <= t.seq
    BY DEF Sound, CursorsInOrder
  <2>2. CASE m = n
    BY <1>0, <1>3, <2>1, <2>2
  <2>3. CASE m # n
    BY <1>3, <2>1, <2>3
  <2> QED BY <2>2, <2>3
<1>6. DraftsTold(u)
  <2> SUFFICES ASSUME NEW m \in Npcs, HasDraft(t, m)
               PROVE  u.shown[m] # {} /\ NewFor(u, m, t.drafts[m].told)
    BY <1>2 DEF DraftsTold, HasDraft
  <2>1. /\ t.shown[m] # {} /\ NewFor(t, m, t.drafts[m].told) /\ t.drafts[m].told \in SUBSET Nat
        /\ t.shown[m] \in SUBSET Nat
    BY <1>0, TalkTypes DEF Sound, DraftsTold
  <2>2. PICK last \in t.shown[m] : last <= t.seq /\ last \in Nat
    BY <2>1 DEF Sound, CursorsInOrder
  <2>3. \A s \in t.drafts[m].told : \A last_ \in u.shown[m] : s <= last_
    BY <1>0, <1>3, <2>1, <2>2 DEF NewFor
  <2> QED BY <1>2, <1>3, <2>1, <2>3 DEF NewFor, HasDraft, Own
<1>7. NewFor(u, n, Observations(t, n))
  BY <1>2, <1>3, ObservationsNew DEF NewFor, HasDraft, Own
<1> QED BY <1>1, <1>2, <1>3, <1>4, <1>5, <1>6, <1>7 DEF Sound, u

(* The request is sound: compacted, with its card.                         *)
LEMMA BriefedSound ==
  ASSUME NEW t, NEW n \in Npcs, Sound(t), NEW u \in Briefed(t, n)
  PROVE  /\ Sound(u) /\ Only(t, u, {"history", "injected"})
         /\ States(u.history[n], u.revision[n])
<1>1. PICK g \in NpcCompacted(t.history[n]) : u = CardInjected([t EXCEPT !.history[n] = g], n)
  BY DEF Briefed
<1> DEFINE v == [t EXCEPT !.history[n] = g]
<1>2. t \in Talks /\ t.history[n] \in Seq(NpcMessages) /\ Tracked(t.history[n], t.injected[n])
  BY TalkTypes DEF Sound, CardsTracked
<1>3. g \in Seq(NpcMessages) /\ TellsNoMore(t.history[n], g) /\ Tracked(g, t.injected[n])
  BY <1>2, CompactedHistory
<1>4. Only(t, v, {"history", "injected"}) /\ v.history = [t.history EXCEPT ![n] = g] /\ v.injected = t.injected
  BY <1>2, <1>3 DEF Talks, Only, TalkFields
<1>5. t.injected = [t.injected EXCEPT ![n] = t.injected[n]]
  BY <1>2 DEF Talks
<1>6. HistoryOf(t, v, n, g, t.injected[n])
  BY <1>4, <1>5 DEF HistoryOf
<1> HIDE DEF v
<1>7. Sound(v)
  BY <1>3, <1>6, HistorySound
<1>8. v \in Talks /\ Tracked(v.history[n], v.injected[n]) /\ v.revision = t.revision
  BY <1>4, <1>7 DEF Sound, CardsTracked, Only, TalkFields
<1>9. PICK h \in Seq(NpcMessages) :
        /\ HistoryOf(v, CardInjected(v, n), n, h, {v.revision[n]})
        /\ States(h, v.revision[n]) /\ Tracked(h, {v.revision[n]}) /\ TellsNoMore(v.history[n], h)
  BY <1>8, CardInjectedDoes
<1>10. u = CardInjected(v, n)
  BY <1>1 DEF v
<1>11. Sound(u)
  BY <1>7, <1>9, <1>10, HistorySound
<1>12. u.history[n] = h /\ u.revision = v.revision
  BY <1>8, <1>9, <1>10 DEF HistoryOf, Only, TalkFields, Talks
<1>13. Only(t, u, {"history", "injected"})
  BY <1>4, <1>9, <1>10 DEF HistoryOf, Only
<1> QED BY <1>9, <1>11, <1>12, <1>13

(* ask_npc up to the request. *)
LEMMA AskKeeps ==
  ASSUME ExchangeInv, NEW n \in Npcs, NEW loud \in BOOLEAN, NEW correcting \in BOOLEAN, AskNpc(n, loud, correcting)
  PROVE  ExchangeInv'
<1> DEFINE heard == {n} \cup IF loud THEN Hearers(liveTalk) ELSE {}
           t == PlayerRecorded(liveTalk, heard)
           v == [t EXCEPT !.shown[n] = {t.seq}]
<1>1. /\ liveTalk' \in Briefed(v, n) /\ keptTalk' = keptTalk
      /\ asking' = [stage |-> "asked", npc |-> n, loud |-> loud, correcting |-> correcting,
                    heard |-> UNION {b.heard : b \in PlayerBeat(t)}, told |-> Observations(t, n)]
  BY DEF AskNpc
<1>2. heard \in SUBSET Npcs
  BY DEF Hearers
<1> HIDE DEF heard
<1>3. Sound(liveTalk) /\ liveTalk \in Talks /\ Sound(keptTalk)
  BY DEF ExchangeInv, Sound
<1>4. Sound(t)
  BY <1>2, <1>3, PlayerRecordedDoes, PlayerBeatsSound
<1> HIDE DEF t
<1>5. Sound(v) /\ v.shown[n] = {t.seq} /\ NewFor(v, n, Observations(t, n)) /\ v \in Talks
  BY <1>4, ShownSound DEF Sound
<1> HIDE DEF v
<1>6. /\ Sound(liveTalk') /\ Only(v, liveTalk', {"history", "injected"})
      /\ States(liveTalk'.history[n], liveTalk'.revision[n])
  BY <1>1, <1>5, BriefedSound
<1>7. NewFor(liveTalk', n, Observations(t, n)) /\ liveTalk'.shown[n] # {}
  BY <1>5, <1>6 DEF Only, TalkFields, NewFor, HasDraft, Own
<1>8. UNION {b.heard : b \in PlayerBeat(t)} \subseteq Npcs
  BY <1>4, TalkTypes DEF PlayerBeat, Sound
<1>9. Observations(t, n) \in SUBSET Nat
  BY <1>4, ObservationsNew
<1>10. AskingSound'
  BY <1>1, <1>6, <1>7, <1>8, <1>9 DEF AskingSound
<1> QED BY <1>1, <1>3, <1>6, <1>10 DEF ExchangeInv

-----------------------------------------------------------------------------
(* Its answer.                                                             *)

(* The draft of one character becomes d. *)
DraftOf(t, u, n, d) ==
  /\ Only(t, u, {"seq", "drafts"}) /\ t.seq <= u.seq
  /\ u.drafts = [t.drafts EXCEPT ![n] = d]

(* A draft with a number of its own, or none. *)
LEMMA DraftSound ==
  ASSUME NEW t, NEW u, NEW n \in Npcs, NEW d \in Drafts \cup {NoDraft}, Sound(t), DraftOf(t, u, n, d),
         d # NoDraft => /\ t.delivered[n] < d.seq /\ d.seq <= u.seq
                        /\ \A b \in t.beats : b.seq # d.seq
                        /\ \A m \in Npcs : HasDraft(t, m) /\ m # n => t.drafts[m].seq # d.seq
                        /\ t.shown[n] # {} /\ d.seq \notin d.told
                        /\ \A s \in d.told : t.delivered[n] < s /\ \A last \in t.shown[n] : s <= last
                        /\ d.told \cap Own(t, n) = {}
  PROVE  Sound(u)
<1>0. /\ t \in Talks /\ u \in Talks /\ u.beats = t.beats /\ u.delivered = t.delivered
      /\ u.shown = t.shown /\ u.history = t.history /\ u.injected = t.injected
  BY DEF Sound, DraftOf, Only, TalkFields
<1>1. /\ t.seq \in Nat /\ u.seq \in Nat /\ t.seq <= u.seq /\ \A b \in t.beats : b.seq \in Nat
      /\ \A m \in Npcs : t.delivered[m] \in Nat /\ t.shown[m] \in SUBSET Nat
  BY <1>0, TalkTypes DEF DraftOf
<1>2. \A m \in Npcs : u.drafts[m] = IF m = n THEN d ELSE t.drafts[m]
  BY <1>0 DEF DraftOf, Talks
<1>3. BeatsNumbered(u)
  BY <1>0, <1>1 DEF Sound, BeatsNumbered
<1>4. CursorsInOrder(u)
  <2> SUFFICES ASSUME NEW m \in Npcs
               PROVE  /\ t.delivered[m] <= u.seq
                      /\ t.shown[m] = {} \/ \E s \in t.shown[m] : t.shown[m] = {s} /\ t.delivered[m] <= s /\ s <= u.seq
    BY <1>0 DEF CursorsInOrder
  <2> QED BY <1>1 DEF Sound, CursorsInOrder
<1>5. DraftsNumbered(u)
  <2>1. \A m \in Npcs : HasDraft(t, m) => t.drafts[m].seq \in Nat
    BY <1>0, TalkTypes
  <2> QED BY <1>0, <1>1, <1>2, <2>1 DEF Sound, DraftsNumbered, HasDraft
<1>6. DraftsTold(u)
  BY <1>0, <1>2 DEF Sound, DraftsTold, HasDraft, NewFor, Own
<1>7. HistoriesTold(u) /\ CardsTracked(u)
  BY <1>0 DEF Sound, HistoriesTold, CardsTracked, Own
<1> QED BY <1>0, <1>3, <1>4, <1>5, <1>6, <1>7 DEF Sound

(* draft_with_response. *)
LEMMA AnswerKeeps ==
  ASSUME ExchangeInv, NpcAnswers
  PROVE  ExchangeInv'
<1> DEFINE n == asking.npc
           first == liveTalk.drafts[n] = NoDraft
           seq == IF first THEN liveTalk.seq + 1 ELSE liveTalk.drafts[n].seq
           d == [seq |-> seq, loud |-> asking.loud, heard |-> asking.heard, told |-> asking.told]
           total == IF first THEN seq ELSE liveTalk.seq
<1>1. /\ asking.stage = "asked" /\ asking' = Quiet /\ keptTalk' = keptTalk
      /\ liveTalk' = [liveTalk EXCEPT !.seq = total, !.drafts[n] = d]
  BY DEF NpcAnswers, ExchangeInv, Sound, Talks
<1>2. /\ n \in Npcs /\ asking.loud \in BOOLEAN /\ asking.heard \subseteq Npcs /\ asking.told \subseteq Nat
      /\ liveTalk.shown[n] # {} /\ NewFor(liveTalk, n, asking.told)
  BY <1>1 DEF ExchangeInv, AskingSound
<1>3. liveTalk \in Talks /\ Sound(liveTalk)
  BY DEF ExchangeInv, Sound
<1>4. liveTalk.seq \in Nat /\ liveTalk.delivered[n] \in Nat /\ liveTalk.shown[n] \in SUBSET Nat
  BY <1>2, <1>3, TalkTypes
<1>5. first <=> ~ HasDraft(liveTalk, n)
  BY DEF HasDraft
<1>6. seq \in Nat /\ total \in Nat /\ liveTalk.seq <= total
  BY <1>2, <1>3, <1>4, <1>5, TalkTypes
<1>7. d \in Drafts /\ d.seq = seq /\ d.told = asking.told
  BY <1>2, <1>6 DEF Drafts
<1>8. CASE first
  <2>1. seq = liveTalk.seq + 1 /\ total = seq
    BY <1>8
  <2>2. liveTalk.delivered[n] <= liveTalk.seq /\ \A b \in liveTalk.beats : b.seq \in Nat /\ b.seq <= liveTalk.seq
    BY <1>2, <1>3, TalkTypes DEF Sound, CursorsInOrder, BeatsNumbered
  <2>3. \A m \in Npcs :
             HasDraft(liveTalk, m) => liveTalk.drafts[m].seq \in Nat /\ liveTalk.drafts[m].seq <= liveTalk.seq
    BY <1>3, TalkTypes DEF Sound, DraftsNumbered
  <2>4. PICK last \in liveTalk.shown[n] : last <= liveTalk.seq /\ last \in Nat
    BY <1>2, <1>3, <1>4 DEF Sound, CursorsInOrder
  <2>5. \A s \in asking.told : s \in Nat /\ s <= liveTalk.seq
    BY <1>2, <1>4, <2>4 DEF NewFor
  <2>6. /\ liveTalk.delivered[n] < seq /\ seq <= total /\ seq \notin asking.told
        /\ \A b \in liveTalk.beats : b.seq # seq
        /\ \A m \in Npcs : HasDraft(liveTalk, m) /\ m # n => liveTalk.drafts[m].seq # seq
    BY <1>4, <2>1, <2>2, <2>3, <2>5
  <2> HIDE DEF total, seq, d, n
  <2>7. DraftOf(liveTalk, liveTalk', n, d) /\ liveTalk'.seq = total
    BY <1>1, <1>2, <1>3, <1>6, <1>7 DEF DraftOf, Only, TalkFields, Talks
  <2>8. Sound(liveTalk')
    BY <1>2, <1>3, <1>7, <2>6, <2>7, DraftSound DEF NewFor
  <2> QED BY <1>1, <2>8 DEF ExchangeInv, AskingSound, Quiet
<1>9. CASE ~ first
  <2>1. seq = liveTalk.drafts[n].seq /\ total = liveTalk.seq /\ HasDraft(liveTalk, n)
    BY <1>5, <1>9
  <2>6. /\ liveTalk.delivered[n] < seq /\ seq <= total /\ seq \notin asking.told
        /\ \A b \in liveTalk.beats : b.seq # seq
        /\ \A m \in Npcs : HasDraft(liveTalk, m) /\ m # n => liveTalk.drafts[m].seq # seq
    BY <1>2, <1>3, <2>1 DEF Sound, DraftsNumbered, NewFor
  <2> HIDE DEF total, seq, d, n
  <2>7. DraftOf(liveTalk, liveTalk', n, d) /\ liveTalk'.seq = total
    BY <1>1, <1>2, <1>3, <1>6, <1>7 DEF DraftOf, Only, TalkFields, Talks
  <2>8. Sound(liveTalk')
    BY <1>2, <1>3, <1>7, <2>6, <2>7, DraftSound DEF NewFor
  <2> QED BY <1>1, <2>8 DEF ExchangeInv, AskingSound, Quiet
<1> QED BY <1>8, <1>9

(* The draft stays, or is taken back. *)
LEMMA FailKeeps ==
  ASSUME ExchangeInv, NEW empty \in BOOLEAN, NpcFails(empty)
  PROVE  ExchangeInv'
<1> DEFINE n == asking.npc
           d == IF empty \/ asking.correcting THEN NoDraft ELSE liveTalk.drafts[n]
<1>1. /\ asking.stage = "asked" /\ asking' = Quiet /\ keptTalk' = keptTalk
      /\ liveTalk' = [liveTalk EXCEPT !.drafts[n] = d]
  BY DEF NpcFails, ExchangeInv, Sound, Talks
<1>2. n \in Npcs /\ liveTalk \in Talks /\ Sound(liveTalk)
  BY <1>1 DEF ExchangeInv, AskingSound, Sound
<1>3. d \in Drafts \cup {NoDraft} /\ (d = NoDraft \/ d = liveTalk.drafts[n])
  BY <1>2 DEF Talks
<1> HIDE DEF d, n
<1>4. DraftOf(liveTalk, liveTalk', n, d) /\ liveTalk'.seq = liveTalk.seq
  <2>1. Only(liveTalk, liveTalk', {"seq", "drafts"}) /\ liveTalk'.seq = liveTalk.seq
    BY <1>1, <1>2, <1>3 DEF Only, TalkFields, Talks
  <2>2. liveTalk'.drafts = [liveTalk.drafts EXCEPT ![n] = d] /\ liveTalk.seq \in Nat
    BY <1>1, <1>2 DEF Talks
  <2> QED BY <2>1, <2>2 DEF DraftOf
<1>5. d # NoDraft => HasDraft(liveTalk, n) /\ d = liveTalk.drafts[n]
  BY <1>3 DEF HasDraft
<1>6. Sound(liveTalk')
  BY <1>2, <1>3, <1>4, <1>5, DraftSound DEF Sound, DraftsNumbered, DraftsTold, NewFor
<1> QED BY <1>1, <1>6 DEF ExchangeInv, AskingSound, Quiet

-----------------------------------------------------------------------------
(* The end of a turn.                                                      *)

(* commit_turn. *)
LEMMA CommittedSound ==
  ASSUME NEW t, Sound(t)
  PROVE  Sound(Committed(t))
<1> DEFINE voiced == {Beat(t, t.drafts[n].seq, n, t.drafts[n].heard) : n \in Drafted(t)}
           beats == t.beats \cup voiced
           histories == [n \in Npcs |-> IF n \in Drafted(t) THEN t.history[n] \o <<Told(t.drafts[n].told), Spoken>>
                                       ELSE t.history[n]]
           cursors == [n \in Npcs |-> IF n \in Drafted(t) /\ t.shown[n] # {} THEN CHOOSE s \in t.shown[n] : TRUE
                                     ELSE t.delivered[n]]
           none == Each(NoDraft)
           nothing == Each({})
           u == Committed(t)
<1> SUFFICES Sound(u)
  OBVIOUS
<1>0. t \in Talks
  BY DEF Sound
<1>1. u = [t EXCEPT !.beats = beats, !.history = histories, !.delivered = cursors, !.drafts = none, !.shown = nothing]
  BY <1>0 DEF Committed, Talks
<1>2. \A n \in Npcs : n \in Drafted(t) <=> HasDraft(t, n)
  BY DEF Drafted, HasDraft
<1>3. /\ t.seq \in Nat
      /\ \A b \in t.beats : b \in Beats /\ b.seq \in Nat
      /\ \A n \in Npcs : t.delivered[n] \in Nat /\ t.shown[n] \in SUBSET Nat /\ t.history[n] \in Seq(NpcMessages)
      /\ \A n \in Drafted(t) : /\ t.drafts[n].seq \in Nat /\ t.drafts[n].told \in SUBSET Nat
                               /\ t.drafts[n].heard \in SUBSET Npcs
  BY <1>0, <1>2, TalkTypes DEF Drafted
<1>4. \A n \in Drafted(t) : LET b == Beat(t, t.drafts[n].seq, n, t.drafts[n].heard)
                            IN  b \in Beats /\ b.seq = t.drafts[n].seq /\ b.actor = n
  BY <1>0, <1>3 DEF Beat, NoteOf, Beats, Talks, Drafted
<1>5. \A b \in voiced : b \in Beats /\ b.actor \in Drafted(t) /\ b.seq = t.drafts[b.actor].seq
  BY <1>4
<1>6. beats \in SUBSET Beats
  BY <1>3, <1>5
(* The cursor of one who answered is what it was shown. *)
<1>7. ASSUME NEW n \in Npcs
      PROVE  IF n \in Drafted(t)
             THEN t.shown[n] = {cursors[n]} /\ t.delivered[n] <= cursors[n] /\ cursors[n] <= t.seq
             ELSE cursors[n] = t.delivered[n]
  <2>1. CASE n \in Drafted(t)
    <3>1. t.shown[n] # {}
      BY <1>2, <2>1 DEF Sound, DraftsTold
    <3>2. PICK s \in t.shown[n] : t.shown[n] = {s} /\ t.delivered[n] <= s /\ s <= t.seq
      BY <3>1 DEF Sound, CursorsInOrder
    <3> QED BY <2>1, <3>1, <3>2
  <2>2. CASE n \notin Drafted(t)
    BY <2>2
  <2> QED BY <2>1, <2>2
<1>8. cursors \in [Npcs -> Nat] /\ \A n \in Npcs : t.delivered[n] <= cursors[n] /\ cursors[n] <= t.seq
  <2>1. \A n \in Npcs : cursors[n] \in Nat /\ t.delivered[n] <= cursors[n] /\ cursors[n] <= t.seq
    <3> SUFFICES ASSUME NEW n \in Npcs PROVE cursors[n] \in Nat /\ t.delivered[n] <= cursors[n] /\ cursors[n] <= t.seq
      OBVIOUS
    <3>1. t.delivered[n] <= t.seq
      BY DEF Sound, CursorsInOrder
    <3> HIDE DEF cursors
    <3> QED BY <1>3, <1>7, <3>1
  <2> QED BY <2>1
<1>9. ASSUME NEW n \in Drafted(t)
      PROVE  LET h == t.history[n]
                 g == histories[n]
                 told == t.drafts[n].told
             IN  /\ g \in Seq(NpcMessages)
                 /\ \A injected : Tracked(h, injected) => Tracked(g, injected)
                 /\ Tellings(g) = Tellings(h) \cup {Len(h) + 1}
                 /\ g[Len(h) + 1].beats = told /\ \A i \in Tellings(h) : g[i] = h[i]
  <2> DEFINE h == t.history[n]
             g == histories[n]
             told == t.drafts[n].told
  <2> SUFFICES /\ g \in Seq(NpcMessages)
               /\ \A injected : Tracked(h, injected) => Tracked(g, injected)
               /\ Tellings(g) = Tellings(h) \cup {Len(h) + 1}
               /\ g[Len(h) + 1].beats = told /\ \A i \in Tellings(h) : g[i] = h[i]
    OBVIOUS
  <2>1. n \in Npcs
    BY DEF Drafted
  <2>2. h \in Seq(NpcMessages) /\ told \in SUBSET Nat
    BY <1>3, <2>1
  <2>3. g = WithAnswer(h, told)
    BY <2>1 DEF WithAnswer
  <2> HIDE DEF g, h, told
  <2>4. /\ g \in Seq(NpcMessages)
        /\ \A injected : Tracked(h, injected) => Tracked(g, injected)
        /\ Tellings(g) = Tellings(h) \cup {Len(h) + 1}
        /\ g[Len(h) + 1].beats = told /\ \A i \in Tellings(h) : g[i] = h[i]
    BY ONLY <2>2, <2>3, AnswerAppended
  <2> QED BY <2>4
<1>10. none \in [Npcs -> {NoDraft}] /\ nothing \in [Npcs -> {{}}]
  BY DEF Each
<1>11. \A n \in Npcs : n \notin Drafted(t) => histories[n] = t.history[n]
  OBVIOUS
<1>12. histories \in [Npcs -> Seq(NpcMessages)]
  <2>1. \A n \in Npcs : histories[n] \in Seq(NpcMessages)
    <3> SUFFICES ASSUME NEW n \in Npcs PROVE histories[n] \in Seq(NpcMessages)
      OBVIOUS
    <3>1. CASE n \in Drafted(t)
      BY <1>9, <3>1
    <3>2. CASE n \notin Drafted(t)
      BY <1>3, <1>11, <3>2
    <3> QED BY <3>1, <3>2
  <2> QED BY <2>1
<1> HIDE DEF voiced, histories, cursors, none, nothing
<1>13. /\ u \in Talks /\ u.seq = t.seq /\ u.beats = beats /\ u.history = histories /\ u.delivered = cursors
       /\ u.drafts = none /\ u.shown = nothing /\ u.injected = t.injected
  <2>1. none \in [Npcs -> Drafts \cup {NoDraft}] /\ nothing \in [Npcs -> SUBSET Nat]
    BY <1>10
  <2> HIDE DEF u, beats
  <2> QED BY <1>0, <1>1, <1>6, <1>8, <1>12, <2>1 DEF Talks
<1> HIDE DEF u
<1>14. BeatsNumbered(u)
  <2>1. \A b \in beats : b.seq \in Nat /\ b.seq <= t.seq
    BY <1>2, <1>3, <1>5 DEF Sound, BeatsNumbered, DraftsNumbered, Drafted
  <2>2. ASSUME NEW b \in beats, NEW c \in beats, b.seq = c.seq PROVE b.actor = c.actor
    BY <1>2, <1>5, <2>2 DEF Sound, BeatsNumbered, DraftsNumbered, Drafted
  <2> QED BY <1>13, <2>1, <2>2 DEF BeatsNumbered
<1>15. CursorsInOrder(u) /\ DraftsNumbered(u) /\ DraftsTold(u)
  BY <1>8, <1>10, <1>13 DEF CursorsInOrder, DraftsNumbered, DraftsTold, HasDraft
<1>16. CardsTracked(u)
  <2> SUFFICES ASSUME NEW n \in Npcs PROVE Tracked(histories[n], t.injected[n])
    BY <1>13 DEF CardsTracked
  <2>1. Tracked(t.history[n], t.injected[n])
    BY DEF Sound, CardsTracked
  <2>2. CASE n \notin Drafted(t)
    BY <1>11, <2>1, <2>2
  <2>3. CASE n \in Drafted(t)
    BY <1>9, <2>1, <2>3
  <2> QED BY <2>2, <2>3
<1>17. ASSUME NEW n \in Npcs
       PROVE  /\ \A s \in Own(u, n) : s \in Own(t, n) \/ (n \in Drafted(t) /\ s = t.drafts[n].seq)
  BY <1>5, <1>13 DEF Own
<1>18. HistoriesTold(u)
  <2> SUFFICES ASSUME NEW n \in Npcs
               PROVE  ToldUpTo(histories[n], cursors[n]) /\ ToldOnce(histories[n]) /\ NotTold(histories[n], Own(u, n))
    BY <1>13 DEF HistoriesTold
  <2> DEFINE h == t.history[n]
             g == histories[n]
             told == t.drafts[n].told
  <2>1. /\ h \in Seq(NpcMessages) /\ ToldUpTo(h, t.delivered[n]) /\ ToldOnce(h) /\ NotTold(h, Own(t, n))
        /\ \A i \in Tellings(h) : h[i].beats \in SUBSET Nat
        /\ t.delivered[n] \in Nat /\ cursors[n] \in Nat /\ t.delivered[n] <= cursors[n]
    BY <1>3, <1>8, TellingsTyped DEF Sound, HistoriesTold
  <2>2. CASE n \notin Drafted(t)
    <3>1. g = h
      BY <1>11, <2>2
    <3>2. Own(u, n) \subseteq Own(t, n)
      BY <1>17, <2>2
    <3> HIDE DEF g, h
    <3>3. ToldUpTo(h, cursors[n])
      BY <2>1 DEF ToldUpTo
    <3> QED BY <2>1, <3>1, <3>2, <3>3 DEF NotTold, g
  <2>3. CASE n \in Drafted(t)
    <3>1. /\ told \in SUBSET Nat /\ t.shown[n] = {cursors[n]} /\ NewFor(t, n, told)
      BY <1>2, <1>3, <1>7, <2>3 DEF Sound, DraftsTold
    <3>2. /\ \A s \in told : t.delivered[n] < s /\ s <= cursors[n]
          /\ told \cap Own(t, n) = {} /\ t.drafts[n].seq \notin told
      BY <1>2, <2>3, <3>1 DEF NewFor
    <3>3. t.delivered[n] < t.drafts[n].seq /\ t.drafts[n].seq \in Nat
      BY <1>2, <1>3, <2>3 DEF Sound, DraftsNumbered
    <3>4. /\ Tellings(g) = Tellings(h) \cup {Len(h) + 1}
          /\ g[Len(h) + 1].beats = told /\ \A i \in Tellings(h) : g[i] = h[i]
      BY <1>9, <2>3
    <3> DEFINE l == Len(h) + 1
    <3>5. Tellings(g) = Tellings(h) \cup {l} /\ g[l].beats = told /\ \A i \in Tellings(h) : g[i] = h[i]
      BY <3>4
    <3> HIDE DEF g, h, told, l
    <3>6. ToldUpTo(g, cursors[n])
      BY <2>1, <3>2, <3>5 DEF ToldUpTo
    <3>7. \A i \in Tellings(h) : h[i].beats \cap told = {}
      BY <2>1, <3>1, <3>2 DEF ToldUpTo
    <3>8. ToldOnce(g)
      BY <2>1, <3>5, <3>7 DEF ToldOnce
    <3>9. \A i \in Tellings(h) : t.drafts[n].seq \notin h[i].beats
      BY <2>1, <3>3 DEF ToldUpTo
    <3>10. NotTold(g, Own(u, n))
      BY <1>17, <2>1, <3>2, <3>5, <3>9 DEF NotTold
    <3> QED BY <3>6, <3>8, <3>10 DEF g
  <2> QED BY <2>2, <2>3
<1> QED BY <1>13, <1>14, <1>15, <1>16, <1>18 DEF Sound

-----------------------------------------------------------------------------
(* What the other steps do.                                                *)

(* An open turn, and a turn that ends.                                     *)
LEMMA TurnKeeps ==
  ASSUME ExchangeInv, OpenTalk \/ CloseTalk \/ DropTalk
  PROVE  ExchangeInv'
<1>0. Sound(keptTalk) /\ Sound(liveTalk) /\ keptTalk \in Talks /\ liveTalk \in Talks
  BY DEF ExchangeInv, Sound
<1>1. CASE OpenTalk
  <2>1. liveTalk' = [keptTalk EXCEPT !.turn = keptTalk.turn + 1] /\ keptTalk' = keptTalk /\ asking' = Quiet
    BY <1>0, <1>1 DEF OpenTalk, Talks
  <2>2. Only(keptTalk, liveTalk', Elsewhere)
    <3> DEFINE next == keptTalk.turn + 1
    <3>1. next \in Nat /\ liveTalk' = [keptTalk EXCEPT !.turn = next]
      BY <1>0, <2>1, TalkTypes
    <3> HIDE DEF next
    <3> QED BY <1>0, <3>1 DEF Only, Elsewhere, TalkFields, Talks
  <2>3. Sound(liveTalk')
    BY <1>0, <2>2, SameSound
  <2> QED BY <1>0, <2>1, <2>3 DEF ExchangeInv, AskingSound, Quiet
<1>2. CASE CloseTalk
  <2>1. Sound(Recorded(liveTalk))
    <3>1. Hearers(liveTalk) \in SUBSET Npcs
      BY DEF Hearers
    <3>2. Sound(PlayerRecorded(liveTalk, Hearers(liveTalk)))
      BY <1>0, <3>1, PlayerRecordedDoes, PlayerBeatsSound
    <3> QED BY <1>0, <3>2 DEF Recorded
  <2>2. Sound(Committed(Recorded(liveTalk)))
    BY <2>1, CommittedSound
  <2>3. keptTalk' = Committed(Recorded(liveTalk)) /\ liveTalk' = keptTalk' /\ asking' = Rest
    BY <1>2 DEF CloseTalk
  <2> QED BY <2>2, <2>3 DEF ExchangeInv, AskingSound, Rest
<1>3. CASE DropTalk
  BY <1>0, <1>3 DEF DropTalk, ExchangeInv, AskingSound, Rest
<1> QED BY <1>1, <1>2, <1>3

(* Cards and places. *)
LEMMA ChangeKeeps ==
  ASSUME ExchangeInv, NEW t, Only(liveTalk, t, Elsewhere), liveTalk' = t, keptTalk' \in {t, keptTalk},
         asking' = asking, asking \in {Rest, Quiet}
  PROVE  ExchangeInv'
<1>1. Sound(t) /\ Sound(keptTalk)
  BY SameSound DEF ExchangeInv
<1> QED BY <1>1 DEF ExchangeInv, AskingSound, Rest, Quiet

(* Their steps. *)
LEMMA PlacesKeep ==
  ASSUME ExchangeInv, NEW n \in Npcs, UpdateCard(n) \/ (\E p \in Venues : NpcGoes(n, p))
  PROVE  ExchangeInv'
<1>0. liveTalk \in Talks
  BY DEF ExchangeInv, Sound
<1>1. ASSUME NEW t, Only(liveTalk, t, Elsewhere), Changed(t)
      PROVE  ExchangeInv'
  BY <1>1, ChangeKeeps DEF Changed
<1>2. CASE UpdateCard(n)
  <2>1. Changed([liveTalk EXCEPT !.revision[n] = @ + 1])
    BY <1>2 DEF UpdateCard
  <2>2. Only(liveTalk, [liveTalk EXCEPT !.revision[n] = @ + 1], Elsewhere)
    <3> DEFINE next == liveTalk.revision[n] + 1
    <3>1. next \in Nat
      BY <1>0, TalkTypes
    <3> HIDE DEF next
    <3>2. Only(liveTalk, [liveTalk EXCEPT !.revision[n] = next], Elsewhere)
      BY <1>0, <3>1 DEF Only, Elsewhere, TalkFields, Talks
    <3> QED BY <3>2 DEF next
  <2> QED BY <1>1, <2>1, <2>2
<1>3. ASSUME NEW p \in Venues, NpcGoes(n, p) PROVE ExchangeInv'
  <2>1. Changed([liveTalk EXCEPT !.at[n] = p])
    BY <1>3 DEF NpcGoes
  <2>2. Only(liveTalk, [liveTalk EXCEPT !.at[n] = p], Elsewhere)
    BY <1>0 DEF Only, Elsewhere, TalkFields, Talks
  <2> QED BY <1>1, <2>1, <2>2
<1> QED BY <1>2, <1>3

(* The player walks. *)
LEMMA WalkKeeps ==
  ASSUME ExchangeInv, NEW p \in Venues, PlayerGoes(p)
  PROVE  ExchangeInv'
<1>1. liveTalk' = [liveTalk EXCEPT !.player = p] /\ keptTalk' = keptTalk /\ asking' = asking /\ asking = Quiet
  BY DEF PlayerGoes
<1>2. Only(liveTalk, liveTalk', Elsewhere)
  BY <1>1 DEF ExchangeInv, Sound, Only, Elsewhere, TalkFields, Talks
<1> QED BY <1>1, <1>2, ChangeKeeps

(* A memory that is reset. *)
LEMMA ResetKeeps ==
  ASSUME ExchangeInv, NEW n \in Npcs, ResetNpcMemory(n)
  PROVE  ExchangeInv'
<1> DEFINE t == keptTalk
           u == keptTalk'
           here == {t.seq}
<1>0. t \in Talks /\ Sound(t) /\ t.seq \in Nat
  BY TalkTypes DEF ExchangeInv, Sound
<1>1. /\ u = [t EXCEPT !.history[n] = << >>, !.injected[n] = {}, !.drafts[n] = NoDraft,
                       !.delivered[n] = t.seq, !.shown[n] = here]
      /\ liveTalk' = u /\ asking' = Rest
  BY DEF ResetNpcMemory
<1>2. << >> \in Seq(NpcMessages) /\ {} \in SUBSET Nat /\ here \in SUBSET Nat /\ here = {t.seq}
  BY <1>0
<1> HIDE DEF here, t, u
<1>3. /\ u \in Talks /\ u.seq = t.seq /\ u.beats = t.beats
      /\ u.history = [t.history EXCEPT ![n] = << >>] /\ u.injected = [t.injected EXCEPT ![n] = {}]
      /\ u.drafts = [t.drafts EXCEPT ![n] = NoDraft] /\ u.delivered = [t.delivered EXCEPT ![n] = t.seq]
      /\ u.shown = [t.shown EXCEPT ![n] = here]
  BY <1>0, <1>1, <1>2 DEF Talks
<1>4. \A m \in Npcs : /\ u.history[m] = IF m = n THEN << >> ELSE t.history[m]
                      /\ u.injected[m] = IF m = n THEN {} ELSE t.injected[m]
                      /\ u.drafts[m] = IF m = n THEN NoDraft ELSE t.drafts[m]
                      /\ u.delivered[m] = IF m = n THEN t.seq ELSE t.delivered[m]
                      /\ u.shown[m] = IF m = n THEN here ELSE t.shown[m]
  BY <1>0, <1>3 DEF Talks
<1>5. \A m \in Npcs : HasDraft(u, m) <=> (HasDraft(t, m) /\ m # n)
  BY <1>4 DEF HasDraft
<1>6. \A m \in Npcs : Own(u, m) = Own(t, m)
  BY <1>3 DEF Own
<1>7. BeatsNumbered(u)
  BY <1>0, <1>3 DEF Sound, BeatsNumbered
<1>8. CursorsInOrder(u)
  <2> SUFFICES ASSUME NEW m \in Npcs
               PROVE  /\ u.delivered[m] <= t.seq
                      /\ u.shown[m] = {} \/ \E s \in u.shown[m] : u.shown[m] = {s} /\ u.delivered[m] <= s /\ s <= t.seq
    BY <1>3 DEF CursorsInOrder
  <2>1. CASE m = n
    BY <1>0, <1>2, <1>4, <2>1
  <2>2. CASE m # n
    BY <1>0, <1>4, <2>2 DEF Sound, CursorsInOrder
  <2> QED BY <2>1, <2>2
<1>9. DraftsNumbered(u)
  BY <1>0, <1>3, <1>4, <1>5 DEF Sound, DraftsNumbered
<1>10. DraftsTold(u)
  <2> SUFFICES ASSUME NEW m \in Npcs, HasDraft(t, m), m # n
               PROVE  u.shown[m] # {} /\ NewFor(u, m, u.drafts[m].told)
    BY <1>5 DEF DraftsTold
  <2> QED BY <1>0, <1>4, <1>5, <1>6 DEF Sound, DraftsTold, NewFor
<1>11. HistoriesTold(u) /\ CardsTracked(u)
  <2>1. Tellings(<< >>) = {} /\ Stated(<< >>) = {}
    BY DEF Tellings, Stated
  <2>2. \A last : ToldUpTo(<< >>, last) /\ ToldOnce(<< >>) /\ Tracked(<< >>, {})
    BY <2>1 DEF ToldUpTo, ToldOnce, Tracked
  <2>3. \A own : NotTold(<< >>, own)
    BY <2>1 DEF NotTold
  <2>4. HistoriesTold(u)
    BY <1>0, <1>4, <1>6, <2>2, <2>3 DEF Sound, HistoriesTold
  <2>5. CardsTracked(u)
    BY <1>0, <1>4, <2>2 DEF Sound, CardsTracked
  <2> QED BY <2>4, <2>5
<1>12. Sound(u)
  BY <1>3, <1>7, <1>8, <1>9, <1>10, <1>11 DEF Sound
<1> QED BY <1>1, <1>12 DEF ExchangeInv, AskingSound, Rest, u

-----------------------------------------------------------------------------
(* Together.                                                               *)

(* A new chat. *)
LEMMA ExchangeStarts == ExchangeInit => ExchangeInv
<1> SUFFICES ASSUME ExchangeInit PROVE ExchangeInv
  OBVIOUS
<1>1. PICK there \in Venues, old \in {<< >>, <<Told({}), Spoken>>} :
       keptTalk = [seq |-> 0, turn |-> 0, beats |-> {}, player |-> CHOOSE p \in Venues : TRUE,
                   at |-> Each(there), revision |-> Each(0), injected |-> Each({}),
                   history |-> Each(old), delivered |-> Each(0), shown |-> Each({}),
                   drafts |-> Each(NoDraft)]
  BY DEF ExchangeInit
<1> DEFINE t == keptTalk
           player == CHOOSE p \in Venues : TRUE
<1>2. player \in Venues
  OBVIOUS
<1>3. /\ old \in Seq(NpcMessages) /\ Stated(old) = {}
      /\ \A i \in Tellings(old) : old[i].beats = {}
  <2>1. << >> \in Seq(NpcMessages) /\ Tellings(<< >>) = {} /\ Stated(<< >>) = {}
    BY DEF Tellings, Stated
  <2>2. Told({}) \in NpcMessages /\ Told({}).kind = "told" /\ Told({}).beats = {}
    BY DEF Told, NpcMessages, ToldMessages
  <2>3. Spoken \in NpcMessages /\ Spoken.kind = "spoken"
    BY DEF Spoken, NpcMessages, SpokenMessages
  <2> DEFINE m == Told({})
             w == Spoken
             g == <<m, w>>
  <2>4. m \in NpcMessages /\ m.kind = "told" /\ m.beats = {} /\ w \in NpcMessages /\ w.kind = "spoken"
    BY <2>2, <2>3
  <2> HIDE DEF m, w
  <2>5. g \in Seq(NpcMessages) /\ Stated(g) = {} /\ \A i \in Tellings(g) : g[i].beats = {}
    BY <2>4 DEF Stated, Tellings, IsNpcCardMessage
  <2>6. old = << >> \/ old = g
    BY DEF g, m, w
  <2> HIDE DEF g
  <2> QED BY <2>1, <2>5, <2>6
<1> HIDE DEF player
<1>4. /\ Each(there) \in [Npcs -> Venues] /\ Each(0) \in [Npcs -> Nat] /\ Each({}) \in [Npcs -> SUBSET Nat]
      /\ Each(old) \in [Npcs -> Seq(NpcMessages)] /\ Each(NoDraft) \in [Npcs -> Drafts \cup {NoDraft}]
  BY <1>3 DEF Each
<1>5. \A n \in Npcs : Each({})[n] = {} /\ Each(0)[n] = 0 /\ Each(old)[n] = old /\ Each(NoDraft)[n] = NoDraft
  BY DEF Each
<1> DEFINE at == Each(there)
           zero == Each(0)
           nothing == Each({})
           histories == Each(old)
           none == Each(NoDraft)
<1>6. t = [seq |-> 0, turn |-> 0, beats |-> {}, player |-> player, at |-> at, revision |-> zero, injected |-> nothing,
           history |-> histories, delivered |-> zero, shown |-> nothing, drafts |-> none]
  BY <1>1 DEF player
<1>7. /\ at \in [Npcs -> Venues] /\ zero \in [Npcs -> Nat] /\ nothing \in [Npcs -> SUBSET Nat]
      /\ histories \in [Npcs -> Seq(NpcMessages)] /\ none \in [Npcs -> Drafts \cup {NoDraft}]
  BY <1>4
<1>8. \A n \in Npcs : nothing[n] = {} /\ zero[n] = 0 /\ histories[n] = old /\ none[n] = NoDraft
  BY <1>5
<1> HIDE DEF at, zero, nothing, histories, none, t
<1>9. /\ t.seq = 0 /\ t.beats = {} /\ t.delivered = zero /\ t.shown = nothing /\ t.history = histories
      /\ t.injected = nothing /\ t.drafts = none
  BY <1>6
<1>10. t \in Talks
  <2>1. 0 \in Nat /\ {} \in SUBSET Beats
    OBVIOUS
  <2> QED BY <1>2, <1>6, <1>7, <2>1 DEF Talks
<1>11. BeatsNumbered(t) /\ CursorsInOrder(t) /\ DraftsNumbered(t) /\ DraftsTold(t)
  BY <1>8, <1>9 DEF BeatsNumbered, CursorsInOrder, DraftsNumbered, DraftsTold, HasDraft
<1>12. HistoriesTold(t)
  <2>1. \A n \in Npcs : Own(t, n) = {}
    BY <1>9 DEF Own
  <2>2. ToldUpTo(old, 0) /\ ToldOnce(old) /\ NotTold(old, {})
    BY <1>3 DEF ToldUpTo, ToldOnce, NotTold
  <2> QED BY <1>8, <1>9, <2>1, <2>2 DEF HistoriesTold
<1>13. CardsTracked(t)
  BY <1>3, <1>8, <1>9 DEF CardsTracked, Tracked
<1>14. Sound(t)
  BY <1>10, <1>11, <1>12, <1>13 DEF Sound
<1> QED BY <1>14 DEF t, ExchangeInit, ExchangeInv, AskingSound, Rest

(* Every step keeps it. *)
LEMMA ExchangeStepKeeps == ExchangeInv /\ [ExchangeNext]_exchangeVars => ExchangeInv'
<1> SUFFICES ASSUME ExchangeInv, [ExchangeNext]_exchangeVars PROVE ExchangeInv'
  OBVIOUS
<1>1. CASE OpenTalk \/ CloseTalk \/ DropTalk
  BY <1>1, TurnKeeps
<1>2. CASE NpcAnswers
  BY <1>2, AnswerKeeps
<1>3. ASSUME NEW empty \in BOOLEAN, NpcFails(empty) PROVE ExchangeInv'
  BY <1>3, FailKeeps
<1>4. ASSUME NEW p \in Venues, PlayerGoes(p) PROVE ExchangeInv'
  BY <1>4, WalkKeeps
<1>5. ASSUME NEW n \in Npcs, NEW loud \in BOOLEAN, NEW correcting \in BOOLEAN, AskNpc(n, loud, correcting)
      PROVE  ExchangeInv'
  BY <1>5, AskKeeps
<1>6. ASSUME NEW n \in Npcs, NEW p \in Venues, NpcGoes(n, p) PROVE ExchangeInv'
  BY <1>6, PlacesKeep
<1>7. ASSUME NEW n \in Npcs, UpdateCard(n) PROVE ExchangeInv'
  BY <1>7, PlacesKeep
<1>8. ASSUME NEW n \in Npcs, ResetNpcMemory(n) PROVE ExchangeInv'
  BY <1>8, ResetKeeps
<1>9. CASE UNCHANGED exchangeVars
  BY <1>9 DEF exchangeVars, ExchangeInv, Sound, AskingSound, BeatsNumbered, CursorsInOrder, DraftsNumbered,
      DraftsTold,
              HistoriesTold, CardsTracked, HasDraft, NewFor, Own
<1> QED BY <1>1, <1>2, <1>3, <1>4, <1>5, <1>6, <1>7, <1>8, <1>9 DEF ExchangeNext

(* Sessions stay sound: cursors, drafts, beats and histories agree. *)
THEOREM ExchangeHolds == ExchangeSpec => []ExchangeInv
<1> QED BY ExchangeStarts, ExchangeStepKeeps, PTL DEF ExchangeSpec

(* ensure_npc_card_injected: a request ends with the card as it is now.    *)
THEOREM CardStaysCurrent == ExchangeSpec => []CardCurrent
<1>1. ExchangeInv => CardCurrent
  BY DEF ExchangeInv, AskingSound, States, CardCurrent
<1> QED BY <1>1, ExchangeHolds, PTL

(* snapshot_shown and commit_turn: what is committed tells a beat once.    *)
THEOREM BeatsStayToldOnce == ExchangeSpec => []BeatsToldOnce
<1>1. ExchangeInv => BeatsToldOnce
  <2> SUFFICES ASSUME ExchangeInv, NEW n \in Npcs
               PROVE  LET h == keptTalk.history[n]
                          tellings == {i \in DOMAIN h : h[i].kind = "told"}
                      IN  /\ \A i, j \in tellings : i # j => h[i].beats \cap h[j].beats = {}
                          /\ \A i \in tellings : \A b \in keptTalk.beats : b.actor = n => b.seq \notin h[i].beats
    BY DEF BeatsToldOnce
  <2>1. ToldOnce(keptTalk.history[n]) /\ NotTold(keptTalk.history[n], Own(keptTalk, n))
    BY DEF ExchangeInv, Sound, HistoriesTold
  <2> QED BY <2>1 DEF ToldOnce, NotTold, Own, Tellings
<1> QED BY <1>1, ExchangeHolds, PTL

-----------------------------------------------------------------------------
(* The bounds of the exchange.                                             *)

(* Beats are numbered from 1. *)
FromOne(t) == \A b \in t.beats : 1 <= b.seq

(* How often cards were changed. *)
RevisedIn(t) == \A n \in Npcs : t.revision[n] + left.changes <= MaxChanges

(* A request makes a beat of the player, when the turn has none, and an    *)
(* answer makes another; a turn without a request makes one.               *)
SeqBound == 2 * (MaxAsks - left.asks) + keptTalk.turn

ExchangeCounted ==
  /\ left \in [asks : 0 .. MaxAsks, changes : 0 .. MaxChanges]
  /\ FromOne(keptTalk) /\ FromOne(liveTalk)
  /\ RevisedIn(keptTalk) /\ RevisedIn(liveTalk)
  /\ keptTalk.turn <= MaxTalks /\ keptTalk.seq <= SeqBound
  /\ asking \in {Rest, Quiet} \/ asking.stage = "asked"
  /\ IF asking = Rest THEN liveTalk = keptTalk
     ELSE liveTalk.turn = keptTalk.turn + 1 /\ liveTalk.turn <= MaxTalks
  /\ asking = Quiet => liveTalk.seq <= SeqBound
  /\ asking.stage = "asked" => liveTalk.seq + 1 <= SeqBound

(* What the player does makes at most one beat. *)
LEMMA RecordedCounts ==
  ASSUME NEW t \in Talks, NEW heard \in SUBSET Npcs, FromOne(t)
  PROVE  LET u == PlayerRecorded(t, heard)
         IN  u.seq <= t.seq + 1 /\ u.turn = t.turn /\ u.revision = t.revision /\ FromOne(u) /\ u \in Talks
<1> DEFINE u == PlayerRecorded(t, heard)
<1> SUFFICES u.seq <= t.seq + 1 /\ u.turn = t.turn /\ u.revision = t.revision /\ FromOne(u) /\ u \in Talks
  OBVIOUS
<1>1. PlayerBeatsOf(t, u)
  BY PlayerRecordedDoes
<1>2. u.seq <= t.seq + 1
  <2>1. t.seq \in Nat /\ "seq" \in DOMAIN t
    BY TalkTypes DEF Talks
  <2> DEFINE n == t.seq + 1
  <2>2. CASE PlayerBeat(t) = {}
    <3>1. u.seq = n
      <4>1. u = [t EXCEPT !.seq = n, !.beats = t.beats \cup {Beat(t, n, "player", heard)}]
        BY <2>2 DEF PlayerRecorded, Talks
      <4> HIDE DEF u, n
      <4> QED BY <4>1 DEF Talks
    <3> QED BY <2>1, <3>1
  <2>3. CASE PlayerBeat(t) # {}
    <3>1. u.seq = t.seq
      <4>1. \E bs : u = [t EXCEPT !.beats = bs]
        BY <2>3 DEF PlayerRecorded
      <4> HIDE DEF u
      <4> QED BY <4>1 DEF Talks
    <3> QED BY <2>1, <3>1
  <2> QED BY <2>2, <2>3
<1> HIDE DEF u
<1>3. u \in Talks /\ u.turn = t.turn /\ u.revision = t.revision
  BY <1>1 DEF PlayerBeatsOf, Only, TalkFields
<1>4. FromOne(u)
  BY <1>1, <1>3, TalkTypes DEF PlayerBeatsOf, FromOne
<1> QED BY <1>2, <1>3, <1>4

(* A turn that is committed makes beats of its drafts, and no new numbers. *)
LEMMA CommittedCounts ==
  ASSUME NEW t, Sound(t), FromOne(t)
  PROVE  LET u == Committed(t) IN u.seq = t.seq /\ u.turn = t.turn /\ u.revision = t.revision /\ FromOne(u)
<1> DEFINE voiced == {Beat(t, t.drafts[n].seq, n, t.drafts[n].heard) : n \in Drafted(t)}
           beats == t.beats \cup voiced
           u == Committed(t)
<1> SUFFICES u.seq = t.seq /\ u.turn = t.turn /\ u.revision = t.revision /\ FromOne(u)
  OBVIOUS
<1>1. t \in Talks
  BY DEF Sound
<1>2. \A b \in voiced : 1 <= b.seq
  <2> SUFFICES ASSUME NEW n \in Drafted(t) PROVE 1 <= t.drafts[n].seq
    BY DEF Beat
  <2>1. n \in Npcs /\ HasDraft(t, n)
    BY DEF Drafted, HasDraft
  <2> QED BY <1>1, <2>1, TalkTypes DEF Sound, DraftsNumbered
<1>3. \E h, d, e, s : u = [t EXCEPT !.beats = beats, !.history = h, !.delivered = d, !.drafts = e, !.shown = s]
  BY <1>1 DEF Committed, Talks
<1> HIDE DEF u, beats
<1>4. u.seq = t.seq /\ u.turn = t.turn /\ u.revision = t.revision /\ u.beats = beats
  BY <1>1, <1>3 DEF Talks
<1> QED BY <1>2, <1>4 DEF FromOne, beats

(* No step goes over a bound. *)
LEMMA ExchangeCounts ==
  ASSUME ExchangeInv, ExchangeInv', ExchangeCounted, [ExchangeNext]_exchangeVars
  PROVE  ExchangeCounted'
<1>0. /\ Sound(keptTalk) /\ Sound(liveTalk) /\ keptTalk \in Talks /\ liveTalk \in Talks
      /\ keptTalk.seq \in Nat /\ keptTalk.turn \in Nat /\ liveTalk.seq \in Nat /\ liveTalk.turn \in Nat
      /\ left.asks \in 0 .. MaxAsks /\ left.changes \in 0 .. MaxChanges
      /\ left = [asks |-> left.asks, changes |-> left.changes]
      /\ \A n \in Npcs : keptTalk.revision[n] \in Nat /\ liveTalk.revision[n] \in Nat
  BY TalkTypes DEF ExchangeInv, Sound, ExchangeCounted
<1>1. Rest # Quiet /\ Rest.stage = "rest" /\ Quiet.stage = "quiet"
  BY DEF Rest, Quiet
<1>2. CASE OpenTalk
  <2>1. /\ asking = Rest /\ keptTalk.turn < MaxTalks /\ keptTalk' = keptTalk /\ left' = left /\ asking' = Quiet
        /\ liveTalk' = [keptTalk EXCEPT !.turn = keptTalk.turn + 1]
    BY <1>0, <1>2 DEF OpenTalk, Talks
  <2>2. /\ liveTalk'.turn = keptTalk.turn + 1 /\ liveTalk'.seq = keptTalk.seq
        /\ liveTalk'.beats = keptTalk.beats /\ liveTalk'.revision = keptTalk.revision
    <3> DEFINE n == keptTalk.turn + 1
    <3>1. liveTalk' = [keptTalk EXCEPT !.turn = n]
      BY <2>1
    <3> HIDE DEF n
    <3>2. /\ liveTalk'.turn = n /\ liveTalk'.seq = keptTalk.seq
          /\ liveTalk'.beats = keptTalk.beats /\ liveTalk'.revision = keptTalk.revision
      BY <1>0, <3>1 DEF Talks
    <3> QED BY <3>2 DEF n
  <2> QED BY <1>0, <1>1, <2>1, <2>2, ExchangeBounds DEF ExchangeCounted, FromOne, RevisedIn, SeqBound
<1>3. CASE NpcAnswers
  <2> DEFINE first == liveTalk.drafts[asking.npc] = NoDraft
             total == IF first THEN liveTalk.seq + 1 ELSE liveTalk.seq
  <2>1. /\ asking.stage = "asked" /\ asking' = Quiet /\ keptTalk' = keptTalk /\ left' = left
        /\ \E ds : liveTalk' = [liveTalk EXCEPT !.seq = total, !.drafts = ds]
    BY <1>0, <1>3 DEF NpcAnswers, Talks
  <2>2. total <= liveTalk.seq + 1
    BY <1>0
  <2> HIDE DEF total
  <2>3. /\ liveTalk'.turn = liveTalk.turn /\ liveTalk'.seq = total
        /\ liveTalk'.beats = liveTalk.beats /\ liveTalk'.revision = liveTalk.revision
    BY <1>0, <2>1 DEF Talks
  <2>4. total \in Nat
    BY <2>3, TalkTypes DEF ExchangeInv, Sound
  <2>5. liveTalk.seq + 1 <= SeqBound /\ SeqBound' = SeqBound /\ SeqBound \in Int
    BY <1>0, <2>1, ExchangeBounds DEF ExchangeCounted, SeqBound
  <2>6. asking # Rest
    BY <1>1, <2>1
  <2>7. liveTalk'.seq <= SeqBound'
    BY <1>0, <2>2, <2>3, <2>4, <2>5
  <2> QED BY <1>1, <2>1, <2>3, <2>5, <2>6, <2>7 DEF ExchangeCounted, FromOne, RevisedIn
<1>4. ASSUME NEW empty \in BOOLEAN, NpcFails(empty) PROVE ExchangeCounted'
  <2>1. /\ asking.stage = "asked" /\ asking' = Quiet /\ keptTalk' = keptTalk /\ left' = left
        /\ \E ds : liveTalk' = [liveTalk EXCEPT !.drafts = ds]
    BY <1>0, <1>4 DEF NpcFails, Talks
  <2>2. /\ liveTalk'.turn = liveTalk.turn /\ liveTalk'.seq = liveTalk.seq
        /\ liveTalk'.beats = liveTalk.beats /\ liveTalk'.revision = liveTalk.revision
    BY <1>0, <2>1 DEF Talks
  <2>3. liveTalk.seq + 1 <= SeqBound /\ SeqBound' = SeqBound /\ SeqBound \in Int
    BY <1>0, <2>1, ExchangeBounds DEF ExchangeCounted, SeqBound
  <2>4. asking # Rest
    BY <1>1, <2>1
  <2>5. liveTalk'.seq <= SeqBound'
    BY <1>0, <2>2, <2>3
  <2> QED BY <1>1, <2>1, <2>2, <2>3, <2>4, <2>5 DEF ExchangeCounted, FromOne, RevisedIn
<1>5. CASE CloseTalk
  <2> DEFINE t == Recorded(liveTalk)
  <2>1. asking = Quiet /\ keptTalk' = Committed(t) /\ liveTalk' = keptTalk' /\ asking' = Rest /\ left' = left
    BY <1>5 DEF CloseTalk
  <2>2. FromOne(liveTalk) /\ RevisedIn(liveTalk)
    BY DEF ExchangeCounted
  <2>3. /\ Sound(t) /\ FromOne(t) /\ t.turn = liveTalk.turn /\ t.revision = liveTalk.revision
        /\ t.seq <= liveTalk.seq + 1
    <3>1. Hearers(liveTalk) \in SUBSET Npcs
      BY DEF Hearers
    <3>2. CASE t = liveTalk
      BY <1>0, <2>2, <3>2
    <3>3. CASE t = PlayerRecorded(liveTalk, Hearers(liveTalk))
      BY <1>0, <2>2, <3>1, <3>3, RecordedCounts, PlayerRecordedDoes, PlayerBeatsSound
    <3> QED BY <3>2, <3>3 DEF Recorded
  <2> HIDE DEF t
  <2>4. /\ keptTalk'.seq = t.seq /\ keptTalk'.turn = liveTalk.turn /\ keptTalk'.revision = liveTalk.revision
        /\ FromOne(keptTalk')
    BY <2>1, <2>3, CommittedCounts
  <2>5. t.seq \in Nat
    BY <2>3, TalkTypes DEF Sound
  <2>6. /\ liveTalk.seq <= SeqBound /\ liveTalk.turn = keptTalk.turn + 1 /\ liveTalk.turn <= MaxTalks
    BY <1>1, <2>1 DEF ExchangeCounted
  <2>7. keptTalk'.seq <= SeqBound'
    BY <1>0, <2>1, <2>3, <2>4, <2>5, <2>6, ExchangeBounds DEF SeqBound
  <2> QED BY <1>1, <2>1, <2>2, <2>4, <2>6, <2>7 DEF ExchangeCounted, RevisedIn, FromOne
<1>6. CASE DropTalk
  <2>1. liveTalk' = keptTalk /\ keptTalk' = keptTalk /\ asking' = Rest /\ left' = left
    BY <1>6 DEF DropTalk
  <2> QED BY <1>1, <2>1 DEF ExchangeCounted, RevisedIn, FromOne, SeqBound
<1>7. ASSUME NEW p \in Venues, PlayerGoes(p) PROVE ExchangeCounted'
  <2>1. /\ liveTalk' = [liveTalk EXCEPT !.player = p] /\ keptTalk' = keptTalk /\ asking' = asking /\ asking = Quiet
        /\ left.changes > 0 /\ left' = [left EXCEPT !.changes = left.changes - 1]
    BY <1>0, <1>7 DEF PlayerGoes
  <2>2. /\ liveTalk'.turn = liveTalk.turn /\ liveTalk'.seq = liveTalk.seq
        /\ liveTalk'.beats = liveTalk.beats /\ liveTalk'.revision = liveTalk.revision
    BY <1>0, <2>1 DEF Talks
  <2>3. left' = [asks |-> left.asks, changes |-> left.changes - 1]
    BY <1>0, <2>1
  <2>4. left'.asks = left.asks /\ left'.changes = left.changes - 1 /\ left' \in [asks : 0 .. MaxAsks, changes : 0 .. MaxChanges]
    BY <1>0, <2>1, <2>3, ExchangeBounds
  <2>5. RevisedIn(keptTalk)' /\ RevisedIn(liveTalk)'
    BY <1>0, <2>1, <2>2, <2>4, ExchangeBounds DEF RevisedIn, ExchangeCounted
  <2>6. SeqBound' = SeqBound
    BY <2>1, <2>4 DEF SeqBound
  <2> QED BY <1>1, <2>1, <2>2, <2>4, <2>5, <2>6 DEF ExchangeCounted, FromOne
<1>8. ASSUME NEW n \in Npcs, NEW loud \in BOOLEAN, NEW correcting \in BOOLEAN, AskNpc(n, loud, correcting)
      PROVE  ExchangeCounted'
  <2> DEFINE heard == {n} \cup IF loud THEN Hearers(liveTalk) ELSE {}
             t == PlayerRecorded(liveTalk, heard)
             v == [t EXCEPT !.shown[n] = {t.seq}]
  <2>1. /\ liveTalk' \in Briefed(v, n) /\ keptTalk' = keptTalk /\ asking = Quiet
        /\ asking'.stage = "asked" /\ left.asks > 0 /\ left' = [left EXCEPT !.asks = left.asks - 1]
    BY <1>0, <1>8 DEF AskNpc
  <2>2. heard \in SUBSET Npcs
    BY DEF Hearers
  <2> HIDE DEF heard
  <2>3. /\ t.seq <= liveTalk.seq + 1 /\ t.turn = liveTalk.turn /\ t.revision = liveTalk.revision
        /\ FromOne(t) /\ t \in Talks /\ Sound(t)
    BY <1>0, <2>2, RecordedCounts, PlayerRecordedDoes, PlayerBeatsSound DEF ExchangeCounted
  <2> HIDE DEF t
  <2>4. Sound(v) /\ v.seq = t.seq /\ v.turn = t.turn /\ v.revision = t.revision /\ v.beats = t.beats
    <3>1. Sound(v)
      BY <2>3, ShownSound DEF Sound
    <3> QED BY <2>3, <3>1 DEF Talks
  <2> HIDE DEF v
  <2>5. Only(v, liveTalk', {"history", "injected"})
    BY <2>1, <2>4, BriefedSound
  <2>6. /\ liveTalk'.seq = t.seq /\ liveTalk'.turn = liveTalk.turn /\ liveTalk'.revision = liveTalk.revision
        /\ liveTalk'.beats = t.beats /\ liveTalk'.seq \in Nat
    BY <2>3, <2>4, <2>5, TalkTypes DEF Only, TalkFields
  <2>7. left' = [asks |-> left.asks - 1, changes |-> left.changes]
    BY <1>0, <2>1
  <2>8. left'.asks = left.asks - 1 /\ left'.changes = left.changes /\ left' \in [asks : 0 .. MaxAsks, changes : 0 .. MaxChanges]
    BY <1>0, <2>1, <2>7, ExchangeBounds
  <2>9. liveTalk.seq <= SeqBound /\ keptTalk.seq <= SeqBound
    BY <2>1 DEF ExchangeCounted
  <2>10. SeqBound' = SeqBound + 2 /\ SeqBound \in Int
    BY <1>0, <2>1, <2>8, ExchangeBounds DEF SeqBound
  <2>11. liveTalk'.seq + 1 <= SeqBound' /\ keptTalk'.seq <= SeqBound'
    BY <1>0, <2>1, <2>3, <2>6, <2>9, <2>10
  <2>12. asking' # Rest /\ asking' # Quiet
    BY <1>1, <2>1
  <2> QED BY <1>1, <2>1, <2>3, <2>6, <2>8, <2>11, <2>12 DEF ExchangeCounted, FromOne, RevisedIn
<1>9. ASSUME NEW n \in Npcs, NEW p \in Venues, NpcGoes(n, p) PROVE ExchangeCounted'
  <2>1. /\ liveTalk' = [liveTalk EXCEPT !.at[n] = p] /\ asking' = asking /\ asking \in {Rest, Quiet}
        /\ keptTalk' = IF asking = Rest THEN liveTalk' ELSE keptTalk
        /\ left.changes > 0 /\ left' = [left EXCEPT !.changes = left.changes - 1]
    BY <1>0, <1>9 DEF NpcGoes, Changed
  <2>2. /\ liveTalk'.turn = liveTalk.turn /\ liveTalk'.seq = liveTalk.seq
        /\ liveTalk'.beats = liveTalk.beats /\ liveTalk'.revision = liveTalk.revision
    BY <1>0, <2>1 DEF Talks
  <2>3. left' = [asks |-> left.asks, changes |-> left.changes - 1]
    BY <1>0, <2>1
  <2>4. left'.asks = left.asks /\ left'.changes = left.changes - 1 /\ left' \in [asks : 0 .. MaxAsks, changes : 0 .. MaxChanges]
    BY <1>0, <2>1, <2>3, ExchangeBounds
  <2>5. /\ keptTalk'.turn = keptTalk.turn /\ keptTalk'.seq = keptTalk.seq
        /\ keptTalk'.beats = keptTalk.beats /\ keptTalk'.revision = keptTalk.revision
    BY <2>1, <2>2 DEF ExchangeCounted
  <2>6. RevisedIn(keptTalk)' /\ RevisedIn(liveTalk)'
    BY <1>0, <2>2, <2>4, <2>5, ExchangeBounds DEF RevisedIn, ExchangeCounted
  <2>7. SeqBound' = SeqBound
    BY <2>4, <2>5 DEF SeqBound
  <2> QED BY <1>1, <2>1, <2>2, <2>4, <2>5, <2>6, <2>7 DEF ExchangeCounted, FromOne
<1>10. ASSUME NEW n \in Npcs, UpdateCard(n) PROVE ExchangeCounted'
  <2> DEFINE next == liveTalk.revision[n] + 1
  <2>1. /\ liveTalk' = [liveTalk EXCEPT !.revision[n] = next] /\ asking' = asking /\ asking \in {Rest, Quiet}
        /\ keptTalk' = IF asking = Rest THEN liveTalk' ELSE keptTalk
        /\ left.changes > 0 /\ left' = [left EXCEPT !.changes = left.changes - 1]
    BY <1>0, <1>10 DEF UpdateCard, Changed
  <2> HIDE DEF next
  <2>2. /\ liveTalk'.turn = liveTalk.turn /\ liveTalk'.seq = liveTalk.seq
        /\ liveTalk'.beats = liveTalk.beats /\ liveTalk'.revision = [liveTalk.revision EXCEPT ![n] = next]
    BY <1>0, <2>1 DEF Talks
  <2>3. left' = [asks |-> left.asks, changes |-> left.changes - 1]
    BY <1>0, <2>1
  <2>4. left'.asks = left.asks /\ left'.changes = left.changes - 1 /\ left' \in [asks : 0 .. MaxAsks, changes : 0 .. MaxChanges]
    BY <1>0, <2>1, <2>3, ExchangeBounds
  <2>5. /\ keptTalk'.turn = keptTalk.turn /\ keptTalk'.seq = keptTalk.seq
        /\ keptTalk'.beats = keptTalk.beats
        /\ keptTalk'.revision = liveTalk'.revision \/ keptTalk'.revision = keptTalk.revision
    BY <2>1, <2>2 DEF ExchangeCounted
  <2>6. \A m \in Npcs : liveTalk'.revision[m] = IF m = n THEN next ELSE liveTalk.revision[m]
    BY <1>0, <2>2 DEF Talks
  <2>7. RevisedIn(liveTalk)'
    BY <1>0, <2>4, <2>6, ExchangeBounds DEF RevisedIn, ExchangeCounted, next
  <2>8. RevisedIn(keptTalk)'
    BY <1>0, <2>4, <2>5, <2>7, ExchangeBounds DEF RevisedIn, ExchangeCounted
  <2>9. SeqBound' = SeqBound
    BY <2>4, <2>5 DEF SeqBound
  <2> QED BY <1>1, <2>1, <2>2, <2>4, <2>5, <2>7, <2>8, <2>9 DEF ExchangeCounted, FromOne
<1>11. ASSUME NEW n \in Npcs, ResetNpcMemory(n) PROVE ExchangeCounted'
  <2> DEFINE here == {keptTalk.seq}
  <2>1. /\ keptTalk' = [keptTalk EXCEPT !.history[n] = << >>, !.injected[n] = {}, !.drafts[n] = NoDraft,
                                  !.delivered[n] = keptTalk.seq, !.shown[n] = here]
        /\ liveTalk' = keptTalk' /\ asking' = asking /\ asking = Rest
        /\ left.changes > 0 /\ left' = [left EXCEPT !.changes = left.changes - 1]
    BY <1>0, <1>11 DEF ResetNpcMemory
  <2> HIDE DEF here
  <2>2. /\ keptTalk'.turn = keptTalk.turn /\ keptTalk'.seq = keptTalk.seq
        /\ keptTalk'.beats = keptTalk.beats /\ keptTalk'.revision = keptTalk.revision
    BY <1>0, <2>1 DEF Talks
  <2>3. left' = [asks |-> left.asks, changes |-> left.changes - 1]
    BY <1>0, <2>1
  <2>4. left'.asks = left.asks /\ left'.changes = left.changes - 1 /\ left' \in [asks : 0 .. MaxAsks, changes : 0 .. MaxChanges]
    BY <1>0, <2>1, <2>3, ExchangeBounds
  <2>5. RevisedIn(keptTalk)'
    BY <1>0, <2>2, <2>4, ExchangeBounds DEF RevisedIn, ExchangeCounted
  <2>6. RevisedIn(liveTalk)'
    BY <2>1, <2>5 DEF RevisedIn
  <2>7. SeqBound' = SeqBound
    BY <2>2, <2>4 DEF SeqBound
  <2> QED BY <1>1, <2>1, <2>2, <2>4, <2>5, <2>6, <2>7 DEF ExchangeCounted, FromOne
<1>12. CASE UNCHANGED exchangeVars
  BY <1>12 DEF exchangeVars, ExchangeCounted, FromOne, RevisedIn, SeqBound
<1> QED BY <1>2, <1>3, <1>4, <1>5, <1>6, <1>7, <1>8, <1>9, <1>10, <1>11, <1>12 DEF ExchangeNext

(* A chat begins within the bounds. *)
LEMMA ExchangeCountedFirst == ExchangeInit => ExchangeCounted
BY ExchangeBounds DEF ExchangeInit, ExchangeCounted, FromOne, RevisedIn, SeqBound, Rest, Quiet, Each

(* Sessions keep their type: no beat is numbered beyond the counter of its *)
(* session, and no cursor points past it.                                  *)
THEOREM ExchangeStaysTyped == ExchangeSpec => []ExchangeTypeOK
<1>1. ExchangeInv /\ ExchangeCounted => ExchangeTypeOK
  <2> SUFFICES ASSUME ExchangeInv, ExchangeCounted PROVE ExchangeTypeOK
    OBVIOUS
  <2>1. left.asks \in 0 .. MaxAsks /\ left.changes \in 0 .. MaxChanges
    BY DEF ExchangeCounted
  <2>2. ASSUME NEW t \in {keptTalk, liveTalk}
        PROVE  /\ t.seq \in 0 .. (2 * MaxAsks + MaxTalks) /\ t.turn \in 0 .. MaxTalks
               /\ \A b \in t.beats : b.seq \in 1 .. t.seq /\ b.heard \subseteq Npcs /\ b.note \in Venues \cup {Nowhere}
               /\ \A n \in Npcs : t.delivered[n] \in 0 .. t.seq /\ t.revision[n] \in 0 .. MaxChanges
    <3>1. Sound(t) /\ t \in Talks /\ FromOne(t) /\ RevisedIn(t)
      BY DEF ExchangeInv, ExchangeCounted, Sound
    <3>2. keptTalk \in Talks /\ keptTalk.turn \in Nat /\ t.seq \in Nat /\ t.turn \in Nat
      BY <3>1, TalkTypes DEF ExchangeInv, Sound
    <3>3. t.turn <= MaxTalks /\ keptTalk.turn <= MaxTalks
      BY DEF ExchangeCounted
    <3>4. t.seq <= SeqBound
      <4>1. SeqBound \in Int
        BY <2>1, <3>2, ExchangeBounds DEF SeqBound
      <4>2. liveTalk.seq \in Nat
        BY TalkTypes DEF ExchangeInv, Sound
      <4> QED BY <4>1, <4>2 DEF ExchangeCounted
    <3>5. t.seq \in 0 .. (2 * MaxAsks + MaxTalks) /\ t.turn \in 0 .. MaxTalks
      BY <2>1, <3>2, <3>3, <3>4, ExchangeBounds DEF SeqBound
    <3>6. ASSUME NEW b \in t.beats PROVE b.seq \in 1 .. t.seq /\ b.heard \subseteq Npcs /\ b.note \in Venues \cup {Nowhere}
      <4>1. b \in Beats /\ b.seq \in Nat /\ b.seq <= t.seq /\ 1 <= b.seq
        BY <3>1, TalkTypes DEF Sound, BeatsNumbered, FromOne
      <4> QED BY <3>2, <4>1 DEF Beats
    <3>7. ASSUME NEW n \in Npcs PROVE t.delivered[n] \in 0 .. t.seq /\ t.revision[n] \in 0 .. MaxChanges
      <4>1. t.delivered[n] \in Nat /\ t.revision[n] \in Nat /\ t.delivered[n] <= t.seq
        BY <3>1, TalkTypes DEF Sound, CursorsInOrder
      <4>2. t.revision[n] <= MaxChanges
        BY <2>1, <3>1, <4>1, ExchangeBounds DEF RevisedIn
      <4> QED BY <3>2, <4>1, <4>2, ExchangeBounds
    <3> QED BY <3>5, <3>6, <3>7
  <2>3. asking \in {Rest, Quiet} \/ (asking.stage = "asked" /\ asking.npc \in Npcs)
    BY DEF ExchangeInv, AskingSound, ExchangeCounted
  <2> QED BY <2>2, <2>3 DEF ExchangeTypeOK
<1>2. ExchangeInv /\ [ExchangeNext]_exchangeVars => ExchangeInv'
  BY ExchangeStepKeeps
<1>3. ExchangeInv /\ ExchangeInv' /\ ExchangeCounted /\ [ExchangeNext]_exchangeVars => ExchangeCounted'
  BY ExchangeCounts
<1>4. ExchangeSpec => []ExchangeCounted
  BY <1>3, ExchangeHolds, ExchangeCountedFirst, PTL DEF ExchangeSpec
<1> QED BY <1>1, <1>4, ExchangeHolds, PTL

-----------------------------------------------------------------------------
(***************************************************************************)
(* History.                                                                *)
(***************************************************************************)
-----------------------------------------------------------------------------
(* The messages of the game master's history.                              *)

CallIds == Nat \X Nat \X Nat
GmCalls == [tool : Tools, id : CallIds]
GmMessages ==
  [kind : {"snapshot", "notice"}, options : Options] \cup [kind : {"action"}, turn : Nat]
  \cup [kind : {"calls"}, calls : Seq(GmCalls)] \cup [kind : {"reply"}, call : CallIds, facts : SUBSET Knowledge]
  \cup [kind : {"answer"}]

Said == {"snapshot", "notice"}

(* They have the fields of their kind. *)
LEMMA MessageTypes ==
  ASSUME NEW m \in GmMessages
  PROVE  /\ m.kind \in {"snapshot", "notice", "action", "calls", "reply", "answer"}
         /\ m.kind \in Said => m.options \in Options
         /\ m.kind = "calls" => m.calls \in Seq(GmCalls)
         /\ m.kind = "reply" => m.facts \subseteq Knowledge
BY DEF GmMessages, Said

(* What is added to the history is a message. *)
LEMMA MessagesAdded ==
  /\ \A o \in Options : Snapshot(o) \in GmMessages /\ Snapshot(o).kind = "snapshot" /\ Snapshot(o).options = o
  /\ \A o \in Options : Notice(o) \in GmMessages /\ Notice(o).kind = "notice" /\ Notice(o).options = o
  /\ \A n \in Nat : Action(n) \in GmMessages /\ Action(n).kind = "action"
  /\ \A calls \in Seq(GmCalls) :
       Decision(calls) \in GmMessages /\ Decision(calls).kind = "calls" /\ Decision(calls).calls = calls
  /\ \A id \in CallIds, facts \in SUBSET Knowledge :
       LET m == ToolReply(id, facts)
       IN  m \in GmMessages /\ m.kind = "reply" /\ m.call = id /\ m.facts = facts
  /\ Narration \in GmMessages /\ Narration.kind = "answer"
<1>1. \A o \in Options : Snapshot(o) \in GmMessages /\ Snapshot(o).kind = "snapshot" /\ Snapshot(o).options = o
  BY DEF Snapshot, GmMessages
<1>2. \A o \in Options : Notice(o) \in GmMessages /\ Notice(o).kind = "notice" /\ Notice(o).options = o
  BY DEF Notice, GmMessages
<1>3. \A n \in Nat : Action(n) \in GmMessages /\ Action(n).kind = "action"
  BY DEF Action, GmMessages
<1>4. \A calls \in Seq(GmCalls) :
       Decision(calls) \in GmMessages /\ Decision(calls).kind = "calls" /\ Decision(calls).calls = calls
  BY DEF Decision, GmMessages
<1>5. \A id \in CallIds, facts \in SUBSET Knowledge :
       LET m == ToolReply(id, facts)
       IN  m \in GmMessages /\ m.kind = "reply" /\ m.call = id /\ m.facts = facts
  BY DEF ToolReply, GmMessages
<1>6. Narration \in GmMessages /\ Narration.kind = "answer"
  BY DEF Narration, GmMessages
<1> QED BY <1>1, <1>2, <1>3, <1>4, <1>5, <1>6

-----------------------------------------------------------------------------
(* The parts of the inductive invariant.                                   *)

(* The last statement about the player options. *)
SaidLast(h, o) ==
  \E i \in Kinds(h, Said) : h[i].options = o /\ \A j \in Kinds(h, Said) : j <= i

(* One snapshot, notices after it, and the last of them says options. *)
PictureOK(h, o) ==
  /\ \A i, j \in Kinds(h, {"snapshot"}) : i = j
  /\ \A i \in Kinds(h, {"notice"}) : \E j \in Kinds(h, {"snapshot"}) : j < i
  /\ o = "unset" \/ SaidLast(h, o)

(* The n-th call at k is answered. *)
AnsweredAt(h, k, n) ==
  /\ k + n <= Len(h)
  /\ h[k + n].kind = "reply" /\ h[k + n].call = h[k].calls[n].id

RepliesAsked(h) ==
  \A i \in Kinds(h, {"reply"}) : \E k \in Kinds(h, {"calls"}) : k < i /\ i <= k + Len(h[k].calls)

AllAnswered(h) ==
  /\ \A k \in Kinds(h, {"calls"}) : \A n \in DOMAIN h[k].calls : AnsweredAt(h, k, n)
  /\ RepliesAsked(h)

(* All calls are answered but those still to do, the last of the last decision. *)
CallsPending(h, todo) ==
  \E d \in Kinds(h, {"calls"}), done \in Nat :
    /\ Len(h) = d + done /\ done < Len(h[d].calls)
    /\ todo = SubSeq(h[d].calls, done + 1, Len(h[d].calls))
    /\ \A k \in Kinds(h, {"calls"}) : \A n \in DOMAIN h[k].calls : (k = d => n <= done) => AnsweredAt(h, k, n)
    /\ RepliesAsked(h)

(* Each piece of knowledge in seen is in a reply. *)
HeldIn(h, seen) == \A fact \in seen : \E i \in Kinds(h, {"reply"}) : fact \in h[i].facts

ActionIn(h, n) == \E i \in DOMAIN h : h[i] = Action(n)

GmSessions == [messages : Seq(GmMessages), turn : Nat, options : Options \cup {"unset"}, seen : SUBSET Knowledge]

SessionOK(s) ==
  /\ s \in GmSessions
  /\ PictureOK(s.messages, s.options)
  /\ HeldIn(s.messages, s.seen)

GmRuns == [stage : {"idle", "hop", "calls", "over"}, entry : {"fresh", "resume"}, include : Options, hops : Nat,
           todo : Seq(GmCalls), shown : BOOLEAN]

HistoryInv ==
  /\ SessionOK(keptGm) /\ SessionOK(liveGm)
  /\ AllAnswered(keptGm.messages)
  /\ gmRun \in GmRuns
  /\ gmRun.stage = "idle" => liveGm = keptGm
  /\ gmRun.stage = "hop" => AllAnswered(liveGm.messages)
  /\ gmRun.stage = "calls" => CallsPending(liveGm.messages, gmRun.todo)
  /\ gmRun.stage \in {"hop", "calls"} => ActionIn(liveGm.messages, liveGm.turn)
  /\ gmRun.entry = "fresh" /\ gmRun.stage \in {"hop", "calls"} => liveGm.options = gmRun.include

(* CallsAnswered says the same. *)
LEMMA AnsweredIs ==
  ASSUME NEW h
  PROVE  CallsAnswered(h) <=> AllAnswered(h)
BY DEF CallsAnswered, AllAnswered, AnsweredAt, RepliesAsked

-----------------------------------------------------------------------------
(* A message is added.                                                     *)

(* The old ones stay where they are. *)
LEMMA Added ==
  ASSUME NEW h \in Seq(GmMessages), NEW m \in GmMessages
  PROVE  LET g == Append(h, m)
         IN  /\ g \in Seq(GmMessages) /\ Len(g) = Len(h) + 1 /\ g[Len(h) + 1] = m
             /\ \A i \in DOMAIN h : i \in DOMAIN g /\ g[i] = h[i]
             /\ DOMAIN g = DOMAIN h \cup {Len(h) + 1}
             /\ \A kinds : /\ m.kind \in kinds => Kinds(g, kinds) = Kinds(h, kinds) \cup {Len(h) + 1}
                           /\ m.kind \notin kinds => Kinds(g, kinds) = Kinds(h, kinds)
<1> DEFINE g == Append(h, m)
<1>1. /\ g \in Seq(GmMessages) /\ Len(g) = Len(h) + 1 /\ g[Len(h) + 1] = m
      /\ \A i \in DOMAIN h : i \in DOMAIN g /\ g[i] = h[i]
  OBVIOUS
<1>2. DOMAIN g = DOMAIN h \cup {Len(h) + 1} /\ Len(h) + 1 \notin DOMAIN h
  OBVIOUS
<1> HIDE DEF g
<1>3. \A kinds : /\ m.kind \in kinds => Kinds(g, kinds) = Kinds(h, kinds) \cup {Len(h) + 1}
                 /\ m.kind \notin kinds => Kinds(g, kinds) = Kinds(h, kinds)
  BY <1>1, <1>2 DEF Kinds
<1> QED BY <1>1, <1>2, <1>3 DEF g

(* Nothing that was held is lost, nor an action. *)
LEMMA AddedHolds ==
  ASSUME NEW h \in Seq(GmMessages), NEW m \in GmMessages
  PROVE  LET g == Append(h, m)
         IN  /\ \A seen : HeldIn(h, seen) => HeldIn(g, seen)
             /\ \A n : ActionIn(h, n) => ActionIn(g, n)
             /\ m.kind = "reply" => \A seen : HeldIn(h, seen) => HeldIn(g, seen \cup m.facts)
<1> DEFINE g == Append(h, m)
<1>1. /\ Len(h) \in Nat /\ g[Len(h) + 1] = m /\ \A i \in DOMAIN h : i \in DOMAIN g /\ g[i] = h[i]
      /\ m.kind = "reply" => Kinds(g, {"reply"}) = Kinds(h, {"reply"}) \cup {Len(h) + 1}
      /\ m.kind # "reply" => Kinds(g, {"reply"}) = Kinds(h, {"reply"})
  BY Added
<1> HIDE DEF g
<1>2. \A seen : HeldIn(h, seen) => HeldIn(g, seen)
  BY <1>1 DEF HeldIn, Kinds
<1>3. \A n : ActionIn(h, n) => ActionIn(g, n)
  BY <1>1 DEF ActionIn
<1>4. m.kind = "reply" => \A seen : HeldIn(h, seen) => HeldIn(g, seen \cup m.facts)
  <2> SUFFICES ASSUME m.kind = "reply", NEW seen, HeldIn(h, seen) PROVE HeldIn(g, seen \cup m.facts)
    OBVIOUS
  <2>1. Len(h) + 1 \in Kinds(g, {"reply"})
    BY <1>1
  <2>2. HeldIn(g, seen)
    BY <1>2
  <2> QED BY <1>1, <2>1, <2>2 DEF HeldIn
<1> QED BY <1>2, <1>3, <1>4 DEF g

(* A message that says nothing of the options. *)
LEMMA AddedUnsaid ==
  ASSUME NEW h \in Seq(GmMessages), NEW m \in GmMessages, m.kind \notin Said
  PROVE  \A o : PictureOK(h, o) => PictureOK(Append(h, m), o)
<1> DEFINE g == Append(h, m)
<1>1. /\ \A i \in DOMAIN h : g[i] = h[i]
      /\ Kinds(g, Said) = Kinds(h, Said) /\ Kinds(g, {"snapshot"}) = Kinds(h, {"snapshot"})
      /\ Kinds(g, {"notice"}) = Kinds(h, {"notice"})
  BY Added DEF Said
<1> HIDE DEF g
<1>2. \A o : PictureOK(h, o) => PictureOK(g, o)
  BY <1>1 DEF PictureOK, SaidLast, Kinds
<1> QED BY <1>2 DEF g

(* A message that neither calls nor answers. *)
LEMMA AddedAnswered ==
  ASSUME NEW h \in Seq(GmMessages), NEW m \in GmMessages, m.kind \notin {"calls", "reply"}, AllAnswered(h)
  PROVE  AllAnswered(Append(h, m))
<1> DEFINE g == Append(h, m)
<1>1. /\ Len(h) \in Nat /\ Len(g) = Len(h) + 1 /\ \A i \in DOMAIN h : g[i] = h[i]
      /\ Kinds(g, {"calls"}) = Kinds(h, {"calls"}) /\ Kinds(g, {"reply"}) = Kinds(h, {"reply"})
  BY Added
<1> HIDE DEF g
<1>2. \A k \in Kinds(h, {"calls"}) : k \in DOMAIN h /\ h[k].calls \in Seq(GmCalls)
  BY MessageTypes DEF Kinds
<1>3. ASSUME NEW k \in Kinds(g, {"calls"}), NEW n \in DOMAIN g[k].calls PROVE AnsweredAt(g, k, n)
  <2>1. k \in DOMAIN h /\ g[k] = h[k] /\ n \in Nat \ {0} /\ AnsweredAt(h, k, n)
    BY <1>1, <1>2 DEF AllAnswered
  <2>2. k + n \in DOMAIN h
    BY <2>1 DEF AnsweredAt
  <2> QED BY <1>1, <2>1, <2>2 DEF AnsweredAt
<1>4. RepliesAsked(g)
  BY <1>1, <1>2 DEF AllAnswered, RepliesAsked
<1> QED BY <1>3, <1>4 DEF AllAnswered, g

(* What is joined one by one is appended. *)
LEMMA JoinedOne ==
  ASSUME NEW h \in Seq(GmMessages), NEW a \in GmMessages
  PROVE  /\ h \o << >> \o <<a>> = Append(h, a)
         /\ \A m \in GmMessages : h \o <<m>> \o <<a>> = Append(Append(h, m), a)
<1>1. \A f \in Seq(GmMessages), m \in GmMessages : f \o <<m>> = Append(f, m) /\ Append(f, m) \in Seq(GmMessages)
  OBVIOUS
<1>2. h \o << >> = h
  OBVIOUS
<1> QED BY <1>1, <1>2

(* The turn's beginning. *)
LEMMA PreparedOK ==
  ASSUME NEW s, SessionOK(s), AllAnswered(s.messages), NEW o \in Options
  PROVE  LET u == Prepared(s, o)
         IN  /\ SessionOK(u) /\ AllAnswered(u.messages) /\ u.options = o /\ u.turn = s.turn + 1
             /\ u.messages # << >> /\ u.messages[Len(u.messages)] = Action(u.turn)
<1> DEFINE h == s.messages
           n == s.turn + 1
           told == IF \E i \in DOMAIN h : IsSnapshot(h[i])
                   THEN IF s.options = o THEN << >> ELSE <<Notice(o)>>
                   ELSE <<Snapshot(o)>>
           g == h \o told \o <<Action(n)>>
           u == Prepared(s, o)
<1> SUFFICES /\ SessionOK(u) /\ AllAnswered(u.messages) /\ u.options = o /\ u.turn = n
             /\ u.messages # << >> /\ u.messages[Len(u.messages)] = Action(u.turn)
  OBVIOUS
<1>0. s \in GmSessions /\ h \in Seq(GmMessages) /\ n \in Nat
  BY DEF SessionOK, GmSessions
<1>1. u = [s EXCEPT !.turn = n, !.options = o, !.messages = g]
  BY <1>0 DEF Prepared, GmSessions
(* The history that says it, before the action. *)
<1>2. \E f \in Seq(GmMessages) :
        /\ g = Append(f, Action(n)) /\ PictureOK(f, o) /\ HeldIn(f, s.seen) /\ AllAnswered(f)
  <2>0. Action(n) \in GmMessages /\ PictureOK(h, s.options) /\ HeldIn(h, s.seen) /\ AllAnswered(h)
    BY <1>0, MessagesAdded DEF SessionOK
  <2> DEFINE a == Action(n)
  <2>1. CASE told = << >>
    <3>1. g = Append(h, a)
      BY <1>0, <2>0, <2>1, JoinedOne
    <3>2. s.options = o
      BY <2>1
    <3> QED BY <1>0, <2>0, <3>1, <3>2
  <2>2. ASSUME NEW m \in GmMessages, m.kind \in Said, m.options = o, told = <<m>>,
               m.kind = "snapshot" => Kinds(h, {"snapshot"}) = {},
               m.kind = "notice" => Kinds(h, {"snapshot"}) # {}
        PROVE  \E f \in Seq(GmMessages) :
                 /\ g = Append(f, a) /\ PictureOK(f, o) /\ HeldIn(f, s.seen) /\ AllAnswered(f)
    <3> DEFINE f == Append(h, m)
    <3>1. g = Append(f, a)
      <4>1. g = h \o <<m>> \o <<a>>
        BY <2>2
      <4> HIDE DEF g, h, a
      <4> QED BY <1>0, <2>0, <2>2, <4>1, JoinedOne
    <3>2. HeldIn(f, s.seen) /\ AllAnswered(f)
      BY <1>0, <2>0, <2>2, AddedHolds, AddedAnswered DEF Said
    <3>3. /\ f \in Seq(GmMessages) /\ Len(h) \in Nat /\ f[Len(h) + 1] = m
          /\ \A i \in DOMAIN h : f[i] = h[i] /\ i <= Len(h)
          /\ \A kinds : /\ m.kind \in kinds => Kinds(f, kinds) = Kinds(h, kinds) \cup {Len(h) + 1}
                        /\ m.kind \notin kinds => Kinds(f, kinds) = Kinds(h, kinds)
      BY <1>0, <2>2, Added
    <3> DEFINE l == Len(h) + 1
    <3>4. \A kinds : \A i \in Kinds(h, kinds) : i \in DOMAIN h /\ i < l
      BY <3>3 DEF Kinds
    <3>5. l \in Kinds(f, Said) /\ f[l].options = o /\ \A j \in Kinds(f, Said) : j <= l
      BY <2>2, <3>3, <3>4
    <3> HIDE DEF f, g, h
    <3>6. SaidLast(f, o)
      BY <3>5 DEF SaidLast
    <3>7. \A i, j \in Kinds(f, {"snapshot"}) : i = j
      BY <2>0, <2>2, <3>3 DEF PictureOK
    <3>8. \A i \in Kinds(f, {"notice"}) : \E j \in Kinds(f, {"snapshot"}) : j < i
      BY <2>0, <2>2, <3>3, <3>4 DEF PictureOK, Said
    <3> QED BY <3>1, <3>2, <3>3, <3>6, <3>7, <3>8 DEF PictureOK
  <2>3. CASE told = <<Notice(o)>> /\ \E i \in DOMAIN h : IsSnapshot(h[i])
    <3>1. Kinds(h, {"snapshot"}) # {}
      BY <2>3 DEF Kinds, IsSnapshot
    <3>2. Notice(o) \in GmMessages /\ Notice(o).kind = "notice" /\ Notice(o).options = o /\ Notice(o).kind \in Said
      BY MessagesAdded DEF Said
    <3> HIDE DEF told, g, h
    <3> QED BY <2>2, <2>3, <3>1, <3>2
  <2>4. CASE told = <<Snapshot(o)>> /\ ~ \E i \in DOMAIN h : IsSnapshot(h[i])
    <3>1. Kinds(h, {"snapshot"}) = {}
      BY <2>4 DEF Kinds, IsSnapshot
    <3>2. /\ Snapshot(o) \in GmMessages /\ Snapshot(o).kind = "snapshot"
          /\ Snapshot(o).options = o /\ Snapshot(o).kind \in Said
      BY MessagesAdded DEF Said
    <3> HIDE DEF told, g, h
    <3> QED BY <2>2, <2>4, <3>1, <3>2
  <2> QED BY <2>1, <2>3, <2>4
<1> HIDE DEF told, g, h
<1>3. PICK f \in Seq(GmMessages) :
        /\ g = Append(f, Action(n)) /\ PictureOK(f, o) /\ HeldIn(f, s.seen) /\ AllAnswered(f)
  BY <1>2
<1>4. Action(n) \in GmMessages /\ Action(n).kind = "action" /\ Action(n).kind \notin Said
  BY <1>0, MessagesAdded DEF Said
<1>5. /\ g \in Seq(GmMessages) /\ g # << >> /\ g[Len(g)] = Action(n)
      /\ PictureOK(g, o) /\ HeldIn(g, s.seen) /\ AllAnswered(g)
  <2>1. PictureOK(g, o)
    BY <1>3, <1>4, AddedUnsaid
  <2>2. HeldIn(g, s.seen)
    BY <1>3, <1>4, AddedHolds
  <2>3. AllAnswered(g)
    BY <1>3, <1>4, AddedAnswered
  <2>4. g \in Seq(GmMessages) /\ Len(g) = Len(f) + 1 /\ g[Len(f) + 1] = Action(n)
    BY <1>3, <1>4, Added
  <2> QED BY <2>1, <2>2, <2>3, <2>4
<1> HIDE DEF n
<1>6. u \in GmSessions /\ u.messages = g /\ u.options = o /\ u.turn = n /\ u.seen = s.seen
  <2> HIDE DEF u
  <2> QED BY <1>0, <1>1, <1>5 DEF GmSessions
<1> QED BY <1>5, <1>6 DEF SessionOK

-----------------------------------------------------------------------------
(* Compaction.                                                             *)

(* Where the k-th message of what is kept was, when the one at p is        *)
(* stripped.                                                               *)
Place(cut, p, k) == IF cut + k - 1 < p THEN cut + k - 1 ELSE cut + k

(* What is kept, when there is one snapshot in it or none. *)
LEMMA RetainedIs ==
  ASSUME NEW h \in Seq(GmMessages), NEW cut \in DOMAIN h, \A i, j \in Kinds(h, {"snapshot"}) : i = j
  PROVE  LET g == Retained(h, cut)
         IN  \E p \in cut .. (Len(h) + 1) :
               /\ p \in DOMAIN h => h[p].kind = "snapshot"
               /\ \A i \in cut .. Len(h) : i # p => h[i].kind # "snapshot"
               /\ g \in Seq(GmMessages)
               /\ Len(g) = IF p = Len(h) + 1 THEN Len(h) + 1 - cut ELSE Len(h) - cut
               /\ \A k \in DOMAIN g : g[k] = h[Place(cut, p, k)]
<1> DEFINE g == Retained(h, cut)
           kept == {i \in cut .. Len(h) : ~ IsSnapshot(h[i])}
           Rank(i) == Cardinality({j \in kept : j <= i})
<1>0. /\ Len(h) \in Nat /\ cut \in 1 .. Len(h) /\ DOMAIN h = 1 .. Len(h)
      /\ g = [k \in 1 .. Cardinality(kept) |-> h[CHOOSE i \in kept : Rank(i) = k]]
  BY DEF Retained
<1>1. PICK p \in cut .. (Len(h) + 1) :
        /\ p \in DOMAIN h => h[p].kind = "snapshot"
        /\ \A i \in cut .. Len(h) : i # p => h[i].kind # "snapshot"
  <2>1. CASE \E i \in cut .. Len(h) : h[i].kind = "snapshot"
    <3>1. PICK i \in cut .. Len(h) : h[i].kind = "snapshot"
      BY <2>1
    <3>2. \A j \in cut .. Len(h) : h[j].kind = "snapshot" => j = i
      BY <1>0, <3>1 DEF Kinds
    <3>3. i \in cut .. (Len(h) + 1)
      BY <1>0
    <3> QED BY <3>1, <3>2, <3>3
  <2>2. CASE ~ \E i \in cut .. Len(h) : h[i].kind = "snapshot"
    <3>1. Len(h) + 1 \in cut .. (Len(h) + 1) /\ Len(h) + 1 \notin DOMAIN h
      BY <1>0
    <3> QED BY <2>2, <3>1
  <2> QED BY <2>1, <2>2
<1>2. kept = (cut .. Len(h)) \ {p}
  BY <1>0, <1>1 DEF IsSnapshot
<1>3. Cardinality(kept) = IF p = Len(h) + 1 THEN Len(h) + 1 - cut ELSE Len(h) - cut
  <2>1. IsFiniteSet(cut .. Len(h)) /\ Cardinality(cut .. Len(h)) = Len(h) + 1 - cut
    BY <1>0, FS_Interval
  <2>2. p \in cut .. Len(h) <=> p # Len(h) + 1
    BY <1>0
  <2> DEFINE S == cut .. Len(h)
  <2>4. IsFiniteSet(S) /\ Cardinality(S) = Len(h) + 1 - cut /\ kept = S \ {p}
    BY <1>2, <2>1
  <2> HIDE DEF S, kept
  <2>5. Cardinality(S \ {p}) = IF p \in S THEN Cardinality(S) - 1 ELSE Cardinality(S)
    BY <2>4, FS_RemoveElement
  <2>3. Cardinality(kept) = IF p \in cut .. Len(h) THEN Len(h) + 1 - cut - 1 ELSE Len(h) + 1 - cut
    BY <2>4, <2>5 DEF S
  <2> QED BY <1>0, <2>2, <2>3
<1>4. ASSUME NEW i \in kept
      PROVE  Rank(i) = IF i < p THEN i + 1 - cut ELSE i - cut
  <2>1. i \in cut .. Len(h) /\ i # p /\ i \in Int /\ cut \in Int /\ cut <= i
    BY <1>0, <1>2
  <2>2. {j \in kept : j <= i} = (cut .. i) \ {p}
    BY <1>0, <1>2, <2>1
  <2>3. IsFiniteSet(cut .. i) /\ Cardinality(cut .. i) = i + 1 - cut
    <3> HIDE DEF Rank, kept
    <3>1. IsFiniteSet(cut .. i) /\ Cardinality(cut .. i) = IF cut > i THEN 0 ELSE i - cut + 1
      BY <2>1, FS_Interval
    <3>2. ~ (cut > i) /\ i - cut + 1 = i + 1 - cut
      BY <2>1
    <3> QED BY <3>1, <3>2
  <2>4. p \in cut .. i <=> ~ (i < p)
    BY <1>0, <2>1
  <2> DEFINE S == cut .. i
  <2>6. IsFiniteSet(S) /\ Cardinality(S) = i + 1 - cut /\ Rank(i) = Cardinality(S \ {p})
    BY <2>2, <2>3
  <2> HIDE DEF S, Rank
  <2>7. Cardinality(S \ {p}) = IF p \in S THEN Cardinality(S) - 1 ELSE Cardinality(S)
    BY <2>6, FS_RemoveElement
  <2>5. Rank(i) = IF p \in cut .. i THEN i + 1 - cut - 1 ELSE i + 1 - cut
    BY <2>6, <2>7 DEF S
  <2> QED BY <2>1, <2>4, <2>5
<1> DEFINE size == Cardinality(kept)
<1>5. size \in Nat
  BY <1>0, <1>1, <1>3
<1>6. ASSUME NEW k \in 1 .. size
      PROVE  Place(cut, p, k) \in kept /\ (CHOOSE i \in kept : Rank(i) = k) = Place(cut, p, k)
  <2> DEFINE q == Place(cut, p, k)
  <2>1. q \in cut .. Len(h) /\ q # p /\ q \in Int
    BY <1>0, <1>1, <1>3, <1>6 DEF Place
  <2>2. q \in kept
    BY <1>2, <2>1
  <2>3. Rank(q) = k
    <3>1. Rank(q) = IF q < p THEN q + 1 - cut ELSE q - cut
      BY <1>4, <2>2
    <3>2. (IF q < p THEN q + 1 - cut ELSE q - cut) = k
      BY <1>0, <1>1, <1>5, <1>6 DEF Place
    <3> QED BY <3>1, <3>2
  <2>4. ASSUME NEW i \in kept, Rank(i) = k PROVE i = q
    <3>1. Rank(i) = IF i < p THEN i + 1 - cut ELSE i - cut
      BY <1>4
    <3>2. i \in cut .. Len(h) /\ i # p
      BY <1>2
    <3> HIDE DEF Rank, kept
    <3> QED BY <1>0, <1>1, <2>4, <3>1, <3>2 DEF Place
  <2> HIDE DEF Rank, kept, q
  <2> QED BY <2>2, <2>3, <2>4 DEF q
<1>7. \A k \in 1 .. size : g[k] = h[Place(cut, p, k)] /\ h[Place(cut, p, k)] \in GmMessages
  <2> SUFFICES ASSUME NEW k \in 1 .. size PROVE g[k] = h[Place(cut, p, k)] /\ h[Place(cut, p, k)] \in GmMessages
    OBVIOUS
  <2>1. kept \subseteq DOMAIN h
    BY <1>0, <1>2
  <2> DEFINE c == CHOOSE i \in kept : Rank(i) = k
  <2>2. g[k] = h[c]
    BY <1>0
  <2>3. Place(cut, p, k) \in kept /\ c = Place(cut, p, k)
    BY <1>6
  <2> HIDE DEF g, kept, c, size
  <2> QED BY <2>1, <2>2, <2>3
<1>8. g \in Seq(GmMessages) /\ Len(g) = size /\ DOMAIN g = 1 .. size
  <2>1. DOMAIN g = 1 .. size /\ g = [k \in 1 .. size |-> g[k]]
    BY <1>0
  <2> HIDE DEF g, size
  <2>2. g \in [1 .. size -> GmMessages]
    BY <1>7, <2>1
  <2> QED BY <1>5, <2>1, <2>2
<1> HIDE DEF g, kept, Rank
<1> QED BY <1>1, <1>3, <1>7, <1>8 DEF g, size

(* The history after a compaction: g begins anew, and its k-th message was *)
(* at Place(cut, p, k - 1). *)
CutDown(h, g, cut, p, o) ==
  /\ h \in Seq(GmMessages) /\ g \in Seq(GmMessages)
  /\ cut \in DOMAIN h /\ HasRoleUser(h[cut]) /\ p \in cut .. (Len(h) + 1)
  /\ p \in DOMAIN h => h[p].kind = "snapshot"
  /\ \A i \in cut .. Len(h) : i # p => h[i].kind # "snapshot"
  /\ Len(g) = IF p = Len(h) + 1 THEN Len(h) + 2 - cut ELSE Len(h) + 1 - cut
  /\ g[1] = Snapshot(o)
  /\ \A k \in 2 .. Len(g) : g[k] = h[Place(cut, p, k - 1)]

(* Each place is in what is kept, and everything kept has a place. *)
LEMMA PlacesKept ==
  ASSUME NEW h, NEW g, NEW cut, NEW p, NEW o, CutDown(h, g, cut, p, o)
  PROVE  /\ \A k \in 2 .. Len(g) : Place(cut, p, k - 1) \in cut .. Len(h) /\ Place(cut, p, k - 1) # p
         /\ \A i \in cut .. Len(h) : i # p =>
              \E k \in 2 .. Len(g) : Place(cut, p, k - 1) = i
         /\ \A k, l \in 2 .. Len(g) : k < l <=> Place(cut, p, k - 1) < Place(cut, p, l - 1)
         /\ \A k, l \in 2 .. Len(g) : (p < Place(cut, p, k - 1) <=> p < Place(cut, p, l - 1)) =>
              Place(cut, p, l - 1) - Place(cut, p, k - 1) = l - k
<1>0. /\ Len(h) \in Nat /\ cut \in 1 .. Len(h) /\ p \in cut .. (Len(h) + 1) /\ p \in Int
      /\ Len(g) = IF p = Len(h) + 1 THEN Len(h) + 2 - cut ELSE Len(h) + 1 - cut
  BY DEF CutDown
<1>1. \A k \in 2 .. Len(g) : Place(cut, p, k - 1) \in cut .. Len(h) /\ Place(cut, p, k - 1) # p
  BY <1>0 DEF Place
<1>2. ASSUME NEW i \in cut .. Len(h), i # p PROVE \E k \in 2 .. Len(g) : Place(cut, p, k - 1) = i
  <2> DEFINE k == IF i < p THEN i - cut + 2 ELSE i - cut + 1
  <2>1. k \in 2 .. Len(g) /\ Place(cut, p, k - 1) = i
    BY <1>0, <1>2 DEF Place
  <2> QED BY <2>1
<1>3. \A k, l \in 2 .. Len(g) : k < l <=> Place(cut, p, k - 1) < Place(cut, p, l - 1)
  BY <1>0 DEF Place
<1>4. \A k, l \in 2 .. Len(g) : (p < Place(cut, p, k - 1) <=> p < Place(cut, p, l - 1)) =>
              Place(cut, p, l - 1) - Place(cut, p, k - 1) = l - k
  BY <1>0 DEF Place
<1> QED BY <1>1, <1>2, <1>3, <1>4

(* Calls stay answered. *)
LEMMA CutAnswered ==
  ASSUME NEW h, NEW g, NEW cut, NEW p, NEW o \in Options, CutDown(h, g, cut, p, o), AllAnswered(h)
  PROVE  AllAnswered(g)
<1> DEFINE at(k) == Place(cut, p, k - 1)
<1>0. /\ h \in Seq(GmMessages) /\ g \in Seq(GmMessages) /\ Len(h) \in Nat /\ Len(g) \in Nat /\ cut \in 1 .. Len(h)
      /\ DOMAIN h = 1 .. Len(h) /\ DOMAIN g = 1 .. Len(g) /\ p \in Int
      /\ h[cut].kind \in {"snapshot", "notice", "action"}
      /\ p \in DOMAIN h => h[p].kind = "snapshot"
      /\ g[1].kind = "snapshot"
      /\ \A k \in 2 .. Len(g) : g[k] = h[at(k)]
  BY MessagesAdded DEF CutDown, HasRoleUser
<1>1. /\ \A k \in 2 .. Len(g) : at(k) \in cut .. Len(h) /\ at(k) # p
      /\ \A i \in cut .. Len(h) : i # p => \E k \in 2 .. Len(g) : at(k) = i
      /\ \A k, l \in 2 .. Len(g) : k < l <=> at(k) < at(l)
      /\ \A k, l \in 2 .. Len(g) : (p < at(k) <=> p < at(l)) => at(l) - at(k) = l - k
  BY PlacesKept
<1> HIDE DEF at
(* Answers follow their call without a gap, and are not cut from it. *)
<1>2. ASSUME NEW k \in Kinds(h, {"calls"}), NEW n \in DOMAIN h[k].calls
      PROVE  /\ k \in Int /\ n \in Int /\ k >= 1 /\ n >= 1 /\ k + n <= Len(h) /\ h[k].kind = "calls"
             /\ \A j \in (k + 1) .. (k + n) : h[j].kind = "reply" /\ j # p /\ j # cut
             /\ k # p /\ k # cut
  <2>1. h[k].calls \in Seq(GmCalls) /\ k \in DOMAIN h /\ h[k].kind = "calls"
    BY <1>0, MessageTypes DEF Kinds
  <2>2. n \in Nat /\ n >= 1 /\ \A l \in 1 .. n : l \in DOMAIN h[k].calls
    BY <2>1
  <2>3. \A l \in 1 .. n : k + l <= Len(h) /\ h[k + l].kind = "reply"
    BY <2>2 DEF AllAnswered, AnsweredAt
  <2>6. k \in Int /\ n \in Int
    BY <1>0, <2>1, <2>2
  <2>4. \A j \in (k + 1) .. (k + n) : h[j].kind = "reply" /\ j \in DOMAIN h
    <3> SUFFICES ASSUME NEW j \in (k + 1) .. (k + n) PROVE h[j].kind = "reply" /\ j \in DOMAIN h
      OBVIOUS
    <3> DEFINE l == j - k
    <3>1. l \in 1 .. n /\ k + l = j
      BY <2>6
    <3> HIDE DEF l
    <3>2. h[k + l].kind = "reply" /\ k + l <= Len(h)
      BY <2>3, <3>1
    <3> QED BY <1>0, <2>1, <3>1, <3>2
  <2>5. k + n <= Len(h)
    BY <2>2, <2>3
  <2> QED BY <1>0, <2>1, <2>2, <2>4, <2>5
<1>3. ASSUME NEW k \in Kinds(g, {"calls"}), NEW n \in DOMAIN g[k].calls PROVE AnsweredAt(g, k, n)
  <2>1. k \in 2 .. Len(g) /\ g[k] = h[at(k)] /\ at(k) \in Kinds(h, {"calls"})
    <3>1. k \in DOMAIN g /\ g[k].kind = "calls" /\ k # 1
      BY <1>0 DEF Kinds
    <3>2. k \in 2 .. Len(g)
      BY <1>0, <3>1
    <3> QED BY <1>0, <1>1, <3>1, <3>2 DEF Kinds
  <2>2. n \in DOMAIN h[at(k)].calls
    BY <2>1
  <2> DEFINE i == at(k)
             j == i + n
  <2>3. /\ i \in Int /\ n \in Int /\ n >= 1 /\ j <= Len(h) /\ i >= cut
        /\ \A l \in (i + 1) .. j : h[l].kind = "reply" /\ l # p
        /\ i # p /\ h[j].kind = "reply" /\ h[j].call = h[i].calls[n].id /\ j # p
    <3>1. AnsweredAt(h, i, n)
      BY <2>1, <2>2 DEF AllAnswered
    <3>2. i >= cut
      BY <1>0, <1>1, <2>1
    <3>3. /\ i \in Int /\ n \in Int /\ n >= 1 /\ j <= Len(h) /\ i # p
          /\ \A l \in (i + 1) .. j : h[l].kind = "reply" /\ l # p
      BY <1>2, <2>1, <2>2
    <3>4. j \in (i + 1) .. j
      BY <3>3
    <3> QED BY <3>1, <3>2, <3>3, <3>4 DEF AnsweredAt
  <2>4. j \in cut .. Len(h) /\ (p < i <=> p < j)
    <3>1. p \notin i .. j
      BY <2>3
    <3> QED BY <1>0, <2>3, <3>1
  <2>5. PICK l \in 2 .. Len(g) : at(l) = j
    BY <1>1, <2>3, <2>4
  <2>6. l = k + n
    <3>1. at(l) - at(k) = l - k
      BY <1>1, <2>1, <2>4, <2>5
    <3>2. at(l) = at(k) + n /\ at(k) \in Int
      BY <2>3, <2>5
    <3> QED BY <2>1, <2>3, <3>1, <3>2
  <2> QED BY <1>0, <2>1, <2>3, <2>5, <2>6 DEF AnsweredAt
<1>4. ASSUME NEW i \in Kinds(g, {"reply"})
      PROVE  \E k \in Kinds(g, {"calls"}) : k < i /\ i <= k + Len(g[k].calls)
  <2>1. i \in 2 .. Len(g) /\ g[i] = h[at(i)] /\ at(i) \in Kinds(h, {"reply"})
    <3>1. i \in DOMAIN g /\ g[i].kind = "reply" /\ i # 1
      BY <1>0 DEF Kinds
    <3>2. i \in 2 .. Len(g)
      BY <1>0, <3>1
    <3> QED BY <1>0, <1>1, <3>1, <3>2 DEF Kinds
  <2>2. PICK q \in Kinds(h, {"calls"}) : q < at(i) /\ at(i) <= q + Len(h[q].calls)
    BY <2>1 DEF AllAnswered, RepliesAsked
  <2> DEFINE n == at(i) - q
  <2>3. n \in DOMAIN h[q].calls
    <3>1. h[q].calls \in Seq(GmCalls) /\ q \in Int /\ at(i) \in Int
      BY <1>0, <1>1, <2>1, MessageTypes DEF Kinds
    <3> QED BY <2>2, <3>1
  <2>4. /\ q \in Int /\ n \in Int /\ q >= 1 /\ q + n <= Len(h) /\ q + n = at(i)
        /\ \A j \in (q + 1) .. (q + n) : j # p /\ j # cut
        /\ q # p /\ q # cut
    BY <1>2, <1>1, <2>1, <2>3
  <2>5. cut <= q /\ q <= Len(h) /\ (p < q <=> p < at(i))
    <3>1. cut \notin q .. at(i) /\ p \notin q .. at(i)
      BY <2>4
    <3>2. at(i) \in cut .. Len(h) /\ at(i) \in Int /\ q \in Int /\ q < at(i) /\ cut \in Int /\ p \in Int
      BY <1>0, <1>1, <2>1, <2>2, <2>4
    <3> HIDE DEF n
    <3> QED BY <1>0, <3>1, <3>2
  <2>6. PICK k \in 2 .. Len(g) : at(k) = q
    BY <1>0, <1>1, <2>4, <2>5
  <2>7. i - k = n
    BY <1>1, <2>1, <2>4, <2>5, <2>6
  <2>8. k \in Kinds(g, {"calls"}) /\ g[k] = h[q]
    BY <1>0, <2>6 DEF Kinds
  <2>9. h[q].calls \in Seq(GmCalls)
    BY <1>0, MessageTypes DEF Kinds
  <2> DEFINE size == Len(h[q].calls)
  <2>10. size \in Nat /\ size = Len(g[k].calls)
    BY <2>8, <2>9
  <2>11. i \in Int /\ k \in Int /\ q \in Int /\ at(i) \in Int /\ q < at(i) /\ at(i) <= q + size
    BY <1>0, <1>1, <2>1, <2>2, <2>4, <2>6
  <2>12. i - k = at(i) - q
    BY <2>7
  <2> HIDE DEF size
  <2>13. k < i /\ i <= k + size
    BY <2>10, <2>11, <2>12
  <2> QED BY <2>8, <2>10, <2>13
<1> QED BY <1>3, <1>4 DEF AllAnswered, RepliesAsked

(* There is one snapshot, the notices come after it, and the last of them  *)
(* is what was said last.                                                  *)
LEMMA CutPicture ==
  ASSUME NEW h, NEW g, NEW cut, NEW p, NEW o \in Options, CutDown(h, g, cut, p, o), PictureOK(h, o)
  PROVE  PictureOK(g, o)
<1> DEFINE at(k) == Place(cut, p, k - 1)
<1>0. /\ h \in Seq(GmMessages) /\ g \in Seq(GmMessages) /\ Len(h) \in Nat /\ Len(g) \in Nat /\ cut \in 1 .. Len(h)
      /\ DOMAIN h = 1 .. Len(h) /\ DOMAIN g = 1 .. Len(g) /\ Len(g) >= 1
      /\ g[1].kind = "snapshot" /\ g[1].options = o
      /\ \A i \in cut .. Len(h) : i # p => h[i].kind # "snapshot"
      /\ p \in DOMAIN h => h[p].kind = "snapshot"
      /\ \A k \in 2 .. Len(g) : g[k] = h[at(k)]
  BY MessagesAdded DEF CutDown
<1>1. /\ \A k \in 2 .. Len(g) : at(k) \in cut .. Len(h) /\ at(k) # p
      /\ \A i \in cut .. Len(h) : i # p => \E k \in 2 .. Len(g) : at(k) = i
      /\ \A k, l \in 2 .. Len(g) : k < l <=> at(k) < at(l)
  BY PlacesKept
<1> HIDE DEF at
<1>2. Kinds(g, {"snapshot"}) = {1}
  <2>1. \A k \in 2 .. Len(g) : g[k].kind # "snapshot"
    BY <1>0, <1>1
  <2> QED BY <1>0, <2>1 DEF Kinds
<1>3. \A k \in Kinds(g, {"notice"}) : k \in 2 .. Len(g) /\ at(k) \in Kinds(h, {"notice"}) /\ g[k] = h[at(k)]
  BY <1>0, <1>1 DEF Kinds
<1>4. Kinds(g, Said) = {1} \cup Kinds(g, {"notice"})
  BY <1>2 DEF Kinds, Said
<1>5. SaidLast(h, o)
  BY DEF PictureOK, Options
<1>6. SaidLast(g, o)
  <2>1. PICK i \in Kinds(h, Said) : h[i].options = o /\ \A j \in Kinds(h, Said) : j <= i
    BY <1>5 DEF SaidLast
  <2>2. CASE Kinds(g, {"notice"}) = {}
    BY <1>0, <1>4, <2>2 DEF SaidLast
  <2>3. CASE Kinds(g, {"notice"}) # {}
    <3>1. PICK k \in Kinds(g, {"notice"}) : TRUE
      BY <2>3
    <3>2. at(k) \in Kinds(h, {"notice"}) /\ at(k) >= cut /\ at(k) \in Kinds(h, Said) /\ at(k) <= i /\ at(k) \in Int
      BY <1>0, <1>1, <1>3, <2>1, <3>1 DEF Kinds, Said
    <3>3. h[i].kind = "notice"
      <4>1. CASE h[i].kind = "snapshot"
        <5>1. PICK j \in Kinds(h, {"snapshot"}) : j < at(k)
          BY <3>2 DEF PictureOK
        <5>2. i \in Kinds(h, {"snapshot"})
          BY <2>1, <4>1 DEF Kinds
        <5>3. i = j
          BY <5>1, <5>2 DEF PictureOK
        <5> QED BY <1>0, <2>1, <3>2, <5>1, <5>3 DEF Kinds
      <4> QED BY <2>1, <4>1 DEF Kinds, Said
    <3>4. i \in cut .. Len(h) /\ i # p
      BY <1>0, <2>1, <3>2, <3>3 DEF Kinds
    <3>5. PICK l \in 2 .. Len(g) : at(l) = i
      BY <1>1, <3>4
    <3>6. l \in Kinds(g, {"notice"}) /\ g[l].options = o
      BY <1>0, <2>1, <3>3, <3>5 DEF Kinds
    <3>7. \A m \in Kinds(g, {"notice"}) : m <= l
      <4> SUFFICES ASSUME NEW m \in Kinds(g, {"notice"}), l < m PROVE FALSE
        BY <1>3
      <4>1. at(l) < at(m) /\ at(m) \in Kinds(h, Said)
        BY <1>1, <1>3, <3>5 DEF Kinds, Said
      <4> QED BY <1>0, <2>1, <3>5, <4>1 DEF Kinds
    <3> QED BY <1>4, <3>5, <3>6, <3>7 DEF SaidLast
  <2> QED BY <2>2, <2>3
<1>7. \A k \in Kinds(g, {"notice"}) : \E j \in Kinds(g, {"snapshot"}) : j < k
  BY <1>2, <1>3
<1> QED BY <1>2, <1>6, <1>7 DEF PictureOK

(* A compacted session is as good. *)
LEMMA CompactedOK ==
  ASSUME NEW s, SessionOK(s), AllAnswered(s.messages), s.options \in Options,
         s.messages # << >>, s.messages[Len(s.messages)] = Action(s.turn), NEW cut \in CutAt(s.messages)
  PROVE  LET u == Compacted(s, cut)
         IN  /\ SessionOK(u) /\ AllAnswered(u.messages) /\ u.options = s.options /\ u.turn = s.turn
             /\ ActionIn(u.messages, u.turn)
<1> DEFINE h == s.messages
           o == s.options
           kept == Retained(h, cut)
           g == <<Snapshot(o)>> \o kept
           u == Compacted(s, cut)
<1> SUFFICES SessionOK(u) /\ AllAnswered(u.messages) /\ u.options = o /\ u.turn = s.turn /\ ActionIn(u.messages, u.turn)
  OBVIOUS
<1>0. /\ s \in GmSessions /\ h \in Seq(GmMessages) /\ Len(h) \in Nat /\ Len(h) \in DOMAIN h /\ s.turn \in Nat
      /\ cut \in DOMAIN h /\ HasRoleUser(h[cut]) /\ PictureOK(h, o)
  BY DEF SessionOK, GmSessions, CutAt
<1>1. (IF o = "on" THEN "on" ELSE "off") = o
  BY DEF Options
<1>2. u = [s EXCEPT !.messages = g, !.seen = {}]
  BY <1>0, <1>1 DEF Compacted, GmSessions
<1>3. \A i, j \in Kinds(h, {"snapshot"}) : i = j
  BY <1>0 DEF PictureOK
<1>4. PICK p \in cut .. (Len(h) + 1) :
               /\ p \in DOMAIN h => h[p].kind = "snapshot"
               /\ \A i \in cut .. Len(h) : i # p => h[i].kind # "snapshot"
               /\ kept \in Seq(GmMessages)
               /\ Len(kept) = IF p = Len(h) + 1 THEN Len(h) + 1 - cut ELSE Len(h) - cut
               /\ \A k \in DOMAIN kept : kept[k] = h[Place(cut, p, k)]
  BY <1>0, <1>3, RetainedIs
<1> HIDE DEF kept
<1>5. /\ g \in Seq(GmMessages) /\ g[1] = Snapshot(o) /\ Len(g) = Len(kept) + 1
      /\ \A k \in 2 .. Len(g) : g[k] = kept[k - 1] /\ k - 1 \in DOMAIN kept
  <2> DEFINE m == Snapshot(o)
  <2>1. m \in GmMessages
    BY MessagesAdded
  <2> HIDE DEF m
  <2>2. /\ <<m>> \o kept \in Seq(GmMessages) /\ (<<m>> \o kept)[1] = m /\ Len(<<m>> \o kept) = Len(kept) + 1
        /\ \A k \in 2 .. (Len(kept) + 1) : (<<m>> \o kept)[k] = kept[k - 1] /\ k - 1 \in DOMAIN kept
    BY <1>4, <2>1
  <2> QED BY <2>2 DEF m
<1> HIDE DEF g
<1>6. CutDown(h, g, cut, p, o)
  <2>1. Len(g) = IF p = Len(h) + 1 THEN Len(h) + 2 - cut ELSE Len(h) + 1 - cut
    BY <1>0, <1>4, <1>5
  <2>2. \A k \in 2 .. Len(g) : g[k] = h[Place(cut, p, k - 1)]
    BY <1>4, <1>5
  <2> HIDE DEF h, o
  <2> QED BY <1>0, <1>4, <1>5, <2>1, <2>2 DEF CutDown
<1>7. AllAnswered(g) /\ PictureOK(g, o)
  BY <1>0, <1>6, CutAnswered, CutPicture
<1>8. ActionIn(g, s.turn)
  <2>1. h[Len(h)].kind = "action"
    BY <1>0, MessagesAdded
  <2>2. Len(h) \in cut .. Len(h) /\ Len(h) # p
    BY <1>0, <1>4, <2>1
  <2> DEFINE last == Len(h)
  <2> HIDE DEF h, o, last
  <2>6. \A i \in cut .. Len(h) : i # p => \E k \in 2 .. Len(g) : Place(cut, p, k - 1) = i
    BY <1>6, PlacesKept
  <2>7. last \in cut .. Len(h) /\ last # p
    BY <2>2 DEF last
  <2>3. PICK k \in 2 .. Len(g) : Place(cut, p, k - 1) = last
    BY <2>6, <2>7
  <2>8. g[k] = h[last]
    BY <1>6, <2>3 DEF CutDown
  <2>4. g[k] = h[Len(h)] /\ k \in DOMAIN g
    BY <1>5, <2>3, <2>8 DEF last
  <2>9. h[Len(h)] = Action(s.turn)
    BY DEF h
  <2> QED BY <2>4, <2>9 DEF ActionIn
<1>9. u \in GmSessions /\ u.messages = g /\ u.options = o /\ u.turn = s.turn /\ u.seen = {}
  <2> HIDE DEF u
  <2> QED BY <1>0, <1>2, <1>5 DEF GmSessions
<1>10. HeldIn(g, {})
  BY DEF HeldIn
<1> QED BY <1>7, <1>8, <1>9, <1>10 DEF SessionOK

-----------------------------------------------------------------------------
(* Calls and their answers.                                                *)

(* A decision has all of its calls to do. *)
LEMMA DecisionPending ==
  ASSUME NEW h \in Seq(GmMessages), AllAnswered(h), NEW calls \in Seq(GmCalls), calls # << >>
  PROVE  CallsPending(Append(h, Decision(calls)), calls)
<1> DEFINE m == Decision(calls)
           g == Append(h, m)
           d == Len(h) + 1
<1>0. m \in GmMessages /\ m.kind = "calls" /\ m.calls = calls
  BY MessagesAdded
<1> HIDE DEF m
<1>1. /\ Len(h) \in Nat /\ Len(g) = Len(h) + 1 /\ g[d] = m /\ \A i \in DOMAIN h : g[i] = h[i]
      /\ Kinds(g, {"calls"}) = Kinds(h, {"calls"}) \cup {d} /\ Kinds(g, {"reply"}) = Kinds(h, {"reply"})
  BY <1>0, Added
<1> HIDE DEF g
<1>2. \A k \in Kinds(h, {"calls"}) : k \in DOMAIN h /\ h[k].calls \in Seq(GmCalls)
  BY MessageTypes DEF Kinds
<1>3. ASSUME NEW k \in Kinds(h, {"calls"}), NEW n \in DOMAIN g[k].calls PROVE AnsweredAt(g, k, n)
  <2>1. k \in DOMAIN h /\ g[k] = h[k] /\ n \in Nat \ {0} /\ AnsweredAt(h, k, n)
    BY <1>1, <1>2 DEF AllAnswered
  <2>2. k + n \in DOMAIN h
    BY <2>1 DEF AnsweredAt
  <2> QED BY <1>1, <2>1, <2>2 DEF AnsweredAt
<1>4. RepliesAsked(g)
  BY <1>1, <1>2 DEF AllAnswered, RepliesAsked
<1>5. 0 < Len(calls) /\ calls = SubSeq(calls, 1, Len(calls)) /\ Len(calls) \in Nat
  OBVIOUS
<1>6. \A n \in DOMAIN g[d].calls : ~ (n <= 0)
  BY <1>0, <1>1
<1>7. /\ d \in Kinds(g, {"calls"}) /\ 0 \in Nat /\ Len(g) = d + 0 /\ 0 < Len(g[d].calls)
      /\ calls = SubSeq(g[d].calls, 0 + 1, Len(g[d].calls))
      /\ \A k \in Kinds(g, {"calls"}) : \A n \in DOMAIN g[k].calls : (k = d => n <= 0) => AnsweredAt(g, k, n)
  BY <1>0, <1>1, <1>3, <1>5, <1>6
<1> HIDE DEF d
<1>8. CallsPending(g, calls)
  BY <1>4, <1>7 DEF CallsPending
<1> QED BY <1>8 DEF g, m

(* An answer to the first of them leaves the others. *)
LEMMA ReplyPending ==
  ASSUME NEW h \in Seq(GmMessages), NEW todo, CallsPending(h, todo), NEW m \in GmMessages,
         m.kind = "reply", m.call = Head(todo).id
  PROVE  /\ todo \in Seq(GmCalls) /\ todo # << >>
         /\ Tail(todo) = << >> => AllAnswered(Append(h, m))
         /\ Tail(todo) # << >> => CallsPending(Append(h, m), Tail(todo))
<1> DEFINE g == Append(h, m)
<1>1. PICK d \in Kinds(h, {"calls"}), done \in Nat :
    /\ Len(h) = d + done /\ done < Len(h[d].calls)
    /\ todo = SubSeq(h[d].calls, done + 1, Len(h[d].calls))
    /\ \A k \in Kinds(h, {"calls"}) : \A n \in DOMAIN h[k].calls : (k = d => n <= done) => AnsweredAt(h, k, n)
    /\ RepliesAsked(h)
  BY DEF CallsPending
<1> DEFINE calls == h[d].calls
           l == Len(h) + 1
           next == done + 1
<1>2. \A k \in Kinds(h, {"calls"}) : k \in DOMAIN h /\ h[k].calls \in Seq(GmCalls)
  BY MessageTypes DEF Kinds
<1>3. calls \in Seq(GmCalls) /\ Len(calls) \in Nat /\ d \in Nat \ {0}
  BY <1>2
<1>4. /\ Len(h) \in Nat /\ Len(g) = Len(h) + 1 /\ g[l] = m /\ \A i \in DOMAIN h : g[i] = h[i]
      /\ Kinds(g, {"calls"}) = Kinds(h, {"calls"}) /\ Kinds(g, {"reply"}) = Kinds(h, {"reply"}) \cup {l}
  BY Added
<1> HIDE DEF g, calls
<1>5. /\ todo \in Seq(GmCalls) /\ todo # << >> /\ Head(todo) = calls[next]
      /\ Tail(todo) = SubSeq(calls, next + 1, Len(calls))
      /\ Tail(todo) = << >> <=> next = Len(calls)
  <2>0. next \in 1 .. Len(calls) /\ todo = SubSeq(calls, next, Len(calls))
    BY <1>1, <1>3 DEF calls
  <2>10. next \in 1 .. Len(calls) /\ Len(calls) \in next .. Len(calls)
    BY <1>3, <2>0
  <2>11. /\ Head(SubSeq(calls, next, Len(calls))) = calls[next]
         /\ Tail(SubSeq(calls, next, Len(calls))) = SubSeq(calls, next + 1, Len(calls))
    BY <1>3, <2>10, HeadTailOfSubSeq
  <2>1. Head(todo) = calls[next] /\ Tail(todo) = SubSeq(calls, next + 1, Len(calls))
    BY <2>0, <2>11
  <2>2. todo \in Seq(GmCalls) /\ Len(todo) = Len(calls) - next + 1
    BY <1>3, <2>0
  <2>7. next \in Int /\ next >= 1 /\ next <= Len(calls)
    BY <1>3, <2>0
  <2> DEFINE tail == Tail(todo)
  <2> HIDE DEF next, tail
  <2>8. Len(todo) \in Nat /\ Len(todo) >= 1 /\ (Len(todo) - 1 = 0 <=> next = Len(calls))
    BY <1>3, <2>2, <2>7
  <2>9. Len(<< >>) = 0
    OBVIOUS
  <2>4. todo # << >>
    BY <2>8, <2>9
  <2>3. Len(tail) = Len(todo) - 1 /\ tail \in Seq(GmCalls)
    BY <2>2, <2>4, HeadTailProperties DEF tail
  <2>5. tail = << >> <=> Len(tail) = 0
    BY <2>3
  <2>6. Tail(todo) = << >> <=> next = Len(calls)
    BY <2>3, <2>5, <2>8 DEF tail
  <2> QED BY <2>1, <2>2, <2>4, <2>6
<1>6. l = d + next /\ next \in Nat /\ next <= Len(calls) /\ next >= 1
  BY <1>1, <1>3, <1>4 DEF calls
<1>7. AnsweredAt(g, d, next)
  <2>1. g[d] = h[d] /\ h[d].calls = calls
    BY <1>2, <1>4 DEF calls
  <2>2. g[d + next] = m /\ d + next <= Len(g)
    BY <1>4, <1>6
  <2>3. m.call = calls[next].id
    BY <1>5
  <2> HIDE DEF next
  <2> QED BY <2>1, <2>2, <2>3 DEF AnsweredAt
<1>8. ASSUME NEW k \in Kinds(g, {"calls"}), NEW n \in DOMAIN g[k].calls, k = d => n <= next PROVE AnsweredAt(g, k, n)
  <2>1. k \in DOMAIN h /\ g[k] = h[k] /\ n \in Nat \ {0} /\ n \in DOMAIN h[k].calls
    BY <1>2, <1>4
  <2>2. CASE k = d /\ n = next
    BY <1>7, <2>2
  <2>3. CASE ~ (k = d /\ n = next)
    <3>1. k = d => n <= done
      BY <1>6, <1>8, <2>1, <2>3
    <3>2. AnsweredAt(h, k, n)
      BY <1>1, <1>4, <2>1, <3>1
    <3>3. k + n \in DOMAIN h
      BY <2>1, <3>2 DEF AnsweredAt
    <3> QED BY <1>4, <2>1, <3>2, <3>3 DEF AnsweredAt
  <2> QED BY <2>2, <2>3
<1>9. RepliesAsked(g)
  <2>1. d \in Kinds(g, {"calls"}) /\ g[d] = h[d] /\ d < l /\ l <= d + Len(g[d].calls)
    BY <1>2, <1>3, <1>4, <1>6 DEF calls
  <2>2. \A k \in Kinds(h, {"calls"}) : g[k] = h[k] /\ k \in Kinds(g, {"calls"})
    BY <1>2, <1>4
  <2> HIDE DEF l
  <2> QED BY <1>1, <1>4, <2>1, <2>2 DEF RepliesAsked
<1>10. CASE Tail(todo) = << >>
  <2>1. \A k \in Kinds(g, {"calls"}) : \A n \in DOMAIN g[k].calls : AnsweredAt(g, k, n)
    <3> SUFFICES ASSUME NEW k \in Kinds(g, {"calls"}), NEW n \in DOMAIN g[k].calls PROVE AnsweredAt(g, k, n)
      OBVIOUS
    <3>1. k = d => n <= next
      BY <1>2, <1>3, <1>4, <1>5, <1>10 DEF calls
    <3> QED BY <1>8, <3>1
  <2> QED BY <1>5, <1>9, <1>10, <2>1 DEF AllAnswered, g
<1>11. CASE Tail(todo) # << >>
  <2>1. g[d] = h[d] /\ d \in Kinds(g, {"calls"})
    BY <1>2, <1>4
  <2>2. Len(g) = d + next /\ next < Len(calls)
    BY <1>3, <1>4, <1>5, <1>6, <1>11
  <2>3. \A k \in Kinds(g, {"calls"}) : \A n \in DOMAIN g[k].calls : (k = d => n <= next) => AnsweredAt(g, k, n)
    BY <1>8
  <2> HIDE DEF next
  <2>4. CallsPending(g, Tail(todo))
    BY <1>5, <1>6, <1>9, <2>1, <2>2, <2>3 DEF CallsPending, calls
  <2> QED BY <1>5, <1>11, <2>4 DEF g
<1> QED BY <1>10, <1>11

-----------------------------------------------------------------------------
(* The chats that are there to begin with.                                 *)

(* A history that is empty, and one of a snapshot. *)
LEMMA FirstMessages ==
  /\ << >> \in Seq(GmMessages) /\ PictureOK(<< >>, "unset") /\ AllAnswered(<< >>)
  /\ \A o \in Options :
       LET g == Append(<< >>, Snapshot(o))
       IN  g \in Seq(GmMessages) /\ PictureOK(g, "unset") /\ PictureOK(g, o) /\ AllAnswered(g)
<1> DEFINE h == << >>
<1>0. h \in Seq(GmMessages) /\ Len(h) = 0 /\ \A kinds : Kinds(h, kinds) = {}
  BY DEF Kinds
<1> HIDE DEF h
<1>1. PictureOK(h, "unset") /\ AllAnswered(h)
  BY <1>0 DEF PictureOK, AllAnswered, RepliesAsked
<1>2. ASSUME NEW o \in Options
      PROVE  /\ Append(h, Snapshot(o)) \in Seq(GmMessages) /\ AllAnswered(Append(h, Snapshot(o)))
             /\ PictureOK(Append(h, Snapshot(o)), "unset") /\ PictureOK(Append(h, Snapshot(o)), o)
  <2> DEFINE m == Snapshot(o)
             g == Append(h, m)
  <2>1. m \in GmMessages /\ m.kind = "snapshot" /\ m.options = o
    BY MessagesAdded
  <2> HIDE DEF m
  <2>2. /\ g \in Seq(GmMessages) /\ g[1] = m /\ Kinds(g, {"snapshot"}) = {1} /\ Kinds(g, {"notice"}) = {}
        /\ Kinds(g, Said) = {1}
    <3>1. /\ g \in Seq(GmMessages) /\ g[Len(h) + 1] = m
          /\ \A kinds : /\ m.kind \in kinds => Kinds(g, kinds) = Kinds(h, kinds) \cup {Len(h) + 1}
                        /\ m.kind \notin kinds => Kinds(g, kinds) = Kinds(h, kinds)
      BY <1>0, <2>1, Added
    <3>2. Len(h) + 1 = 1
      BY <1>0
    <3> HIDE DEF g
    <3>3. /\ \A kinds : m.kind \in kinds => Kinds(g, kinds) = {1}
          /\ \A kinds : m.kind \notin kinds => Kinds(g, kinds) = {}
      <4>1. ASSUME NEW kinds, m.kind \in kinds PROVE Kinds(g, kinds) = {1}
        BY <1>0, <3>1, <3>2, <4>1
      <4>2. ASSUME NEW kinds, m.kind \notin kinds PROVE Kinds(g, kinds) = {}
        BY <1>0, <3>1, <3>2, <4>2
      <4> QED BY <4>1, <4>2
    <3>4. Kinds(g, {"snapshot"}) = {1} /\ Kinds(g, {"notice"}) = {} /\ Kinds(g, Said) = {1}
      <4>1. m.kind \in {"snapshot"} /\ m.kind \notin {"notice"} /\ m.kind \in Said
        BY <2>1 DEF Said
      <4>2. Kinds(g, {"snapshot"}) = {1}
        BY <3>3, <4>1, Zenon
      <4>3. Kinds(g, {"notice"}) = {}
        BY <3>3, <4>1
      <4>4. Kinds(g, Said) = {1}
        BY <3>3, <4>1, Zenon
      <4> QED BY <4>2, <4>3, <4>4
    <3>5. g \in Seq(GmMessages) /\ g[1] = m
      BY <3>1, <3>2
    <3> QED BY <3>4, <3>5
  <2>3. AllAnswered(g)
    BY <1>0, <1>1, <2>1, AddedAnswered
  <2> HIDE DEF g
  <2>4. PictureOK(g, "unset") /\ PictureOK(g, o)
    BY <2>1, <2>2 DEF PictureOK, SaidLast
  <2> QED BY <2>2, <2>3, <2>4 DEF g, m
<1> QED BY <1>0, <1>1, <1>2 DEF h

(* A player's action, and an answer to it, leave it as it is. *)
LEMMA MoreMessages ==
  ASSUME NEW h \in Seq(GmMessages), NEW o, PictureOK(h, o), AllAnswered(h)
  PROVE  /\ Append(h, Action(1)) \in Seq(GmMessages)
         /\ PictureOK(Append(h, Action(1)), o) /\ AllAnswered(Append(h, Action(1)))
         /\ Append(h, Narration) \in Seq(GmMessages)
         /\ PictureOK(Append(h, Narration), o) /\ AllAnswered(Append(h, Narration))
<1>1. ASSUME NEW m \in GmMessages, m.kind \in {"action", "answer"}
      PROVE  Append(h, m) \in Seq(GmMessages) /\ PictureOK(Append(h, m), o) /\ AllAnswered(Append(h, m))
  <2>1. m.kind \notin Said /\ m.kind \notin {"calls", "reply"}
    BY <1>1 DEF Said
  <2>2. PictureOK(Append(h, m), o)
    BY <2>1, AddedUnsaid
  <2>3. AllAnswered(Append(h, m))
    BY <2>1, AddedAnswered
  <2> QED BY <2>2, <2>3
<1>2. Action(1) \in GmMessages /\ Action(1).kind = "action" /\ Narration \in GmMessages /\ Narration.kind = "answer"
  BY MessagesAdded
<1> QED BY <1>1, <1>2

(* A saved chat of such a history. *)
LEMMA SavedChat ==
  ASSUME NEW h \in Seq(GmMessages), NEW n \in Nat, NEW o \in Options \cup {"unset"}, PictureOK(h, o), AllAnswered(h)
  PROVE  SessionOK(GmSession(h, n, o)) /\ AllAnswered(GmSession(h, n, o).messages)
BY DEF SessionOK, GmSession, GmSessions, HeldIn

(* The invariant holds to begin with. *)
LEMMA HistoryBegins == HistoryInit => HistoryInv
<1> SUFFICES ASSUME HistoryInit PROVE HistoryInv
  OBVIOUS
<1>1. SessionOK(keptGm) /\ AllAnswered(keptGm.messages)
  <2> DEFINE none == << >>
             a == Action(1)
             e == Narration
             off == Snapshot("off")
             on == Snapshot("on")
  <2>1. /\ none \in Seq(GmMessages) /\ PictureOK(none, "unset") /\ AllAnswered(none)
        /\ Append(none, off) \in Seq(GmMessages) /\ PictureOK(Append(none, off), "unset")
        /\ AllAnswered(Append(none, off))
        /\ Append(none, on) \in Seq(GmMessages) /\ PictureOK(Append(none, on), "on") /\ AllAnswered(Append(none, on))
    BY FirstMessages DEF Options
  <2>2. /\ <<a>> = Append(none, a) /\ <<a, e>> = Append(Append(none, a), e)
        /\ <<off, a, e>> = Append(Append(Append(none, off), a), e)
        /\ <<on, a>> = Append(Append(none, on), a)
    <3> HIDE DEF a, e, off, on
    <3>1. <<a>> = Append(none, a)
      OBVIOUS
    <3>2. <<a, e>> = Append(<<a>>, e)
      OBVIOUS
    <3>3. <<off>> = Append(none, off) /\ <<off, a>> = Append(<<off>>, a) /\ <<off, a, e>> = Append(<<off, a>>, e)
      OBVIOUS
    <3>4. <<on>> = Append(none, on) /\ <<on, a>> = Append(<<on>>, a)
      OBVIOUS
    <3> HIDE DEF none
    <3> QED BY <3>1, <3>2, <3>3, <3>4
  <2>3. /\ 0 \in Nat /\ 1 \in Nat /\ "unset" \in Options \cup {"unset"} /\ "on" \in Options \cup {"unset"}
    BY DEF Options
  <2>4. keptGm \in {GmSession(none, 0, "unset"), GmSession(<<a, e>>, 1, "unset"), GmSession(<<off, a, e>>, 1, "unset"),
                    GmSession(<<a>>, 1, "unset"), GmSession(<<on, a>>, 1, "on")}
    BY DEF HistoryInit
  <2>5. ASSUME NEW h \in Seq(GmMessages), NEW o, PictureOK(h, o), AllAnswered(h)
        PROVE  /\ Append(h, a) \in Seq(GmMessages) /\ PictureOK(Append(h, a), o) /\ AllAnswered(Append(h, a))
               /\ Append(h, e) \in Seq(GmMessages) /\ PictureOK(Append(h, e), o) /\ AllAnswered(Append(h, e))
    BY <2>5, MoreMessages
  <2> HIDE DEF none, a, e, off, on
  <2>6. /\ <<a>> \in Seq(GmMessages) /\ PictureOK(<<a>>, "unset") /\ AllAnswered(<<a>>)
        /\ <<a, e>> \in Seq(GmMessages) /\ PictureOK(<<a, e>>, "unset") /\ AllAnswered(<<a, e>>)
    BY <2>1, <2>2, <2>5
  <2>7. /\ <<off, a, e>> \in Seq(GmMessages) /\ PictureOK(<<off, a, e>>, "unset") /\ AllAnswered(<<off, a, e>>)
    <3>1. LET h == Append(Append(none, off), a)
          IN  h \in Seq(GmMessages) /\ PictureOK(h, "unset") /\ AllAnswered(h)
      BY <2>1, <2>5
    <3> QED BY <2>2, <2>5, <3>1
  <2>8. <<on, a>> \in Seq(GmMessages) /\ PictureOK(<<on, a>>, "on") /\ AllAnswered(<<on, a>>)
    BY <2>1, <2>2, <2>5
  <2>9. \A h \in Seq(GmMessages), n \in Nat, o \in Options \cup {"unset"} :
          PictureOK(h, o) /\ AllAnswered(h) => SessionOK(GmSession(h, n, o)) /\ AllAnswered(GmSession(h, n, o).messages)
    BY SavedChat
  <2>10. /\ SessionOK(GmSession(none, 0, "unset")) /\ AllAnswered(GmSession(none, 0, "unset").messages)
         /\ SessionOK(GmSession(<<a, e>>, 1, "unset")) /\ AllAnswered(GmSession(<<a, e>>, 1, "unset").messages)
         /\ SessionOK(GmSession(<<off, a, e>>, 1, "unset"))
         /\ AllAnswered(GmSession(<<off, a, e>>, 1, "unset").messages)
         /\ SessionOK(GmSession(<<a>>, 1, "unset")) /\ AllAnswered(GmSession(<<a>>, 1, "unset").messages)
         /\ SessionOK(GmSession(<<on, a>>, 1, "on")) /\ AllAnswered(GmSession(<<on, a>>, 1, "on").messages)
    BY <2>1, <2>3, <2>6, <2>7, <2>8, <2>9
  <2> QED BY <2>4, <2>10
<1>2. gmRun = NoRun /\ liveGm = keptGm
  BY DEF HistoryInit
<1>3. NoRun \in GmRuns /\ NoRun.stage = "idle"
  BY DEF NoRun, GmRuns, Options
<1> QED BY <1>1, <1>2, <1>3 DEF HistoryInv

-----------------------------------------------------------------------------
(* The actions keep the invariant.                                         *)

(* A new turn, compacted or not. *)
LEMMA BeginTurnKeeps ==
  ASSUME HistoryInv, NEW o \in Options, BeginTurn(o)
  PROVE  HistoryInv'
<1> DEFINE u == Prepared(keptGm, o)
<1>1. SessionOK(keptGm) /\ AllAnswered(keptGm.messages) /\ keptGm' = keptGm
  BY DEF HistoryInv, BeginTurn
<1>2. /\ SessionOK(u) /\ AllAnswered(u.messages) /\ u.options = o /\ u.messages # << >>
      /\ u.messages[Len(u.messages)] = Action(u.turn)
  BY <1>1, PreparedOK
<1>3. liveGm' = u \/ \E cut \in CutAt(u.messages) : liveGm' = Compacted(u, cut)
  BY DEF BeginTurn, MaybeCompacted
<1> HIDE DEF u
<1>4. /\ SessionOK(liveGm') /\ AllAnswered(liveGm'.messages) /\ liveGm'.options = o
      /\ ActionIn(liveGm'.messages, liveGm'.turn)
  <2>1. CASE liveGm' = u
    <3>1. Len(u.messages) \in DOMAIN u.messages
      BY <1>2 DEF SessionOK, GmSessions
    <3> QED BY <1>2, <2>1, <3>1 DEF ActionIn
  <2>2. CASE \E cut \in CutAt(u.messages) : liveGm' = Compacted(u, cut)
    <3>1. PICK cut \in CutAt(u.messages) : liveGm' = Compacted(u, cut)
      BY <2>2
    <3> QED BY <1>2, <3>1, CompactedOK
  <2> QED BY <1>3, <2>1, <2>2
<1>5. /\ gmRun' \in GmRuns /\ gmRun'.stage = "hop" /\ gmRun'.include = o
  <2>1. NoRun \in GmRuns
    BY DEF NoRun, GmRuns, Options
  <2> QED BY <2>1 DEF BeginTurn, GmRuns
<1> QED BY <1>1, <1>4, <1>5 DEF HistoryInv

(* A turn that goes on with the history it finds. *)
LEMMA ResumeTurnKeeps ==
  ASSUME HistoryInv, NEW o \in Options, ResumeTurn(o)
  PROVE  HistoryInv'
<1>1. SessionOK(keptGm) /\ AllAnswered(keptGm.messages) /\ keptGm' = keptGm /\ liveGm' = keptGm
  BY DEF HistoryInv, ResumeTurn
<1>2. ActionIn(keptGm.messages, keptGm.turn)
  <2>1. Len(keptGm.messages) \in DOMAIN keptGm.messages
    BY <1>1 DEF ResumeTurn, SessionOK, GmSessions
  <2> QED BY <2>1 DEF ResumeTurn, ActionIn
<1>3. gmRun' \in GmRuns /\ gmRun'.stage = "hop" /\ gmRun'.entry = "resume"
  <2>1. keptGm.options \in Options \cup {"unset"}
    BY <1>1 DEF SessionOK, GmSessions
  <2>2. NoRun \in GmRuns
    BY DEF NoRun, GmRuns, Options
  <2> DEFINE include == IF keptGm.options = "unset" THEN o ELSE keptGm.options
  <2>3. /\ include \in Options
        /\ gmRun' = [NoRun EXCEPT !.stage = "hop", !.entry = "resume", !.hops = 1, !.include = include]
    BY <2>1 DEF ResumeTurn
  <2> HIDE DEF include
  <2> QED BY <2>2, <2>3 DEF GmRuns
<1> QED BY <1>1, <1>2, <1>3 DEF HistoryInv

(* A decision with calls. *)
LEMMA ModelCallsKeeps ==
  ASSUME HistoryInv, ModelCalls
  PROVE  HistoryInv'
<1>1. /\ SessionOK(keptGm) /\ AllAnswered(keptGm.messages) /\ keptGm' = keptGm /\ SessionOK(liveGm)
      /\ gmRun.stage = "hop" /\ AllAnswered(liveGm.messages) /\ gmRun \in GmRuns /\ liveGm \in GmSessions
      /\ ActionIn(liveGm.messages, liveGm.turn) /\ (gmRun.entry = "fresh" => liveGm.options = gmRun.include)
  BY DEF HistoryInv, ModelCalls, SessionOK
<1>2. PICK n \in 1 .. MaxCalls : \E tools \in [1 .. n -> Tools] :
       LET calls == [i \in 1 .. n |-> [tool |-> tools[i], id |-> <<liveGm.turn, gmRun.hops, i>>]]
       IN  /\ liveGm' = [liveGm EXCEPT !.messages = Append(@, Decision(calls))]
           /\ gmRun' = [gmRun EXCEPT !.stage = "calls", !.todo = calls]
  BY DEF ModelCalls
<1>3. PICK tools \in [1 .. n -> Tools] :
       LET calls == [i \in 1 .. n |-> [tool |-> tools[i], id |-> <<liveGm.turn, gmRun.hops, i>>]]
       IN  /\ liveGm' = [liveGm EXCEPT !.messages = Append(@, Decision(calls))]
           /\ gmRun' = [gmRun EXCEPT !.stage = "calls", !.todo = calls]
  BY <1>2
<1> DEFINE calls == [i \in 1 .. n |-> [tool |-> tools[i], id |-> <<liveGm.turn, gmRun.hops, i>>]]
           h == liveGm.messages
           g == Append(h, Decision(calls))
<1>4. calls \in Seq(GmCalls) /\ calls # << >>
  <2>1. n \in Nat /\ n >= 1
    OBVIOUS
  <2>2. \A i \in 1 .. n : calls[i] \in GmCalls
    BY <1>1, <2>1 DEF GmCalls, CallIds, GmRuns, GmSessions
  <2>3. DOMAIN calls = 1 .. n /\ calls = [i \in 1 .. n |-> calls[i]]
    OBVIOUS
  <2> HIDE DEF calls
  <2>4. calls \in [1 .. n -> GmCalls]
    BY <2>2, <2>3
  <2> QED BY <2>1, <2>4
<1>5. liveGm' = [liveGm EXCEPT !.messages = g] /\ gmRun' = [gmRun EXCEPT !.stage = "calls", !.todo = calls]
  BY <1>1, <1>3 DEF GmSessions
<1> HIDE DEF calls
<1>6. Decision(calls) \in GmMessages /\ Decision(calls).kind = "calls"
  BY <1>4, MessagesAdded
<1>7. h \in Seq(GmMessages) /\ PictureOK(h, liveGm.options) /\ HeldIn(h, liveGm.seen)
  BY <1>1 DEF SessionOK, GmSessions
<1>8. /\ g \in Seq(GmMessages) /\ CallsPending(g, calls) /\ PictureOK(g, liveGm.options) /\ HeldIn(g, liveGm.seen)
      /\ ActionIn(g, liveGm.turn)
  <2>1. g \in Seq(GmMessages)
    BY <1>6, <1>7
  <2>2. CallsPending(g, calls)
    BY <1>1, <1>4, <1>7, DecisionPending
  <2>3. PictureOK(g, liveGm.options)
    BY <1>6, <1>7, AddedUnsaid DEF Said
  <2>4. HeldIn(g, liveGm.seen) /\ ActionIn(g, liveGm.turn)
    BY <1>1, <1>6, <1>7, AddedHolds
  <2> QED BY <2>1, <2>2, <2>3, <2>4
<1> HIDE DEF g
<1>9. /\ liveGm' \in GmSessions /\ liveGm'.messages = g /\ liveGm'.turn = liveGm.turn
      /\ liveGm'.options = liveGm.options /\ liveGm'.seen = liveGm.seen
  BY <1>1, <1>5, <1>8 DEF GmSessions
<1>10. /\ gmRun' \in GmRuns /\ gmRun'.stage = "calls" /\ gmRun'.todo = calls
       /\ gmRun'.entry = gmRun.entry /\ gmRun'.include = gmRun.include
  BY <1>1, <1>4, <1>5 DEF GmRuns
<1> QED BY <1>1, <1>8, <1>9, <1>10 DEF HistoryInv, SessionOK

(* After the last call another hop, or none. *)
LEMMA Advanced ==
  ASSUME NEW run \in GmRuns, run.stage = "calls"
  PROVE  LET r == Advance(run)
         IN  /\ r \in GmRuns /\ r.entry = run.entry /\ r.include = run.include /\ r.stage # "idle"
             /\ r.stage = "calls" => run.todo # << >> /\ r.todo = run.todo
             /\ r.stage = "hop" => run.todo = << >>
<1>1. CASE run.todo # << >>
  BY <1>1 DEF Advance
<1>2. CASE run.todo = << >> /\ run.hops < MaxHops
  <2> DEFINE n == run.hops + 1
  <2>1. n \in Nat /\ Advance(run) = [run EXCEPT !.stage = "hop", !.hops = n]
    BY <1>2 DEF Advance, GmRuns
  <2> HIDE DEF n
  <2> QED BY <1>2, <2>1 DEF GmRuns
<1>3. CASE run.todo = << >> /\ ~ (run.hops < MaxHops)
  <2>1. Advance(run) = [run EXCEPT !.stage = "over"]
    BY <1>3 DEF Advance
  <2> QED BY <1>3, <2>1 DEF GmRuns
<1> QED BY <1>1, <1>2, <1>3

(* A call is answered. *)
LEMMA CallAnswered ==
  ASSUME HistoryInv, gmRun.stage = "calls", NEW facts \in SUBSET Knowledge, NEW b \in BOOLEAN,
         liveGm' = [liveGm EXCEPT !.messages = Append(@, ToolReply(Head(gmRun.todo).id, facts)),
                                  !.seen = @ \cup facts],
         gmRun' = Advance([gmRun EXCEPT !.todo = Tail(@), !.shown = b]), keptGm' = keptGm
  PROVE  HistoryInv'
<1>1. /\ SessionOK(keptGm) /\ AllAnswered(keptGm.messages) /\ SessionOK(liveGm) /\ liveGm \in GmSessions
      /\ gmRun \in GmRuns /\ CallsPending(liveGm.messages, gmRun.todo)
      /\ ActionIn(liveGm.messages, liveGm.turn) /\ (gmRun.entry = "fresh" => liveGm.options = gmRun.include)
  BY DEF HistoryInv, SessionOK
<1> DEFINE todo == gmRun.todo
           h == liveGm.messages
           m == ToolReply(Head(todo).id, facts)
           g == Append(h, m)
           run == [gmRun EXCEPT !.todo = Tail(@), !.shown = b]
<1>2. /\ h \in Seq(GmMessages) /\ PictureOK(h, liveGm.options) /\ HeldIn(h, liveGm.seen)
      /\ liveGm.seen \subseteq Knowledge
  BY <1>1 DEF SessionOK, GmSessions
<1>3. todo \in Seq(GmCalls) /\ todo # << >> /\ Head(todo).id \in CallIds
  <2>1. todo \in Seq(GmCalls)
    BY <1>1 DEF GmRuns
  <2>2. todo # << >>
    <3>1. PICK d \in Kinds(h, {"calls"}), done \in Nat :
            done < Len(h[d].calls) /\ todo = SubSeq(h[d].calls, done + 1, Len(h[d].calls))
      BY <1>1 DEF CallsPending
    <3> DEFINE calls == h[d].calls
    <3>2. calls \in Seq(GmCalls)
      BY <1>2, MessageTypes DEF Kinds
    <3> HIDE DEF calls
    <3>3. todo = SubSeq(calls, done + 1, Len(calls)) /\ done < Len(calls)
      BY <3>1 DEF calls
    <3>4. Len(todo) = Len(calls) - done /\ Len(calls) - done > 0
      BY <3>2, <3>3
    <3> HIDE DEF todo
    <3>5. Len(<< >>) = 0
      OBVIOUS
    <3> QED BY <3>4, <3>5
  <2>3. Head(todo) \in GmCalls
    BY <2>1, <2>2
  <2> QED BY <2>1, <2>2, <2>3 DEF GmCalls
<1>4. m \in GmMessages /\ m.kind = "reply" /\ m.call = Head(todo).id /\ m.facts = facts
  BY <1>3, MessagesAdded
<1>5. liveGm' = [liveGm EXCEPT !.messages = g, !.seen = liveGm.seen \cup facts] /\ gmRun' = Advance(run)
  BY <1>1 DEF GmSessions
<1> HIDE DEF m
<1>6. /\ Tail(todo) = << >> => AllAnswered(g)
      /\ Tail(todo) # << >> => CallsPending(g, Tail(todo))
  BY <1>1, <1>2, <1>4, ReplyPending
<1>7. PictureOK(g, liveGm.options)
  BY <1>2, <1>4, AddedUnsaid DEF Said
<1>8. HeldIn(g, liveGm.seen \cup facts) /\ ActionIn(g, liveGm.turn)
  BY <1>1, <1>2, <1>4, AddedHolds
<1>9. g \in Seq(GmMessages)
  BY <1>2, <1>4
<1> HIDE DEF g
<1>10. /\ liveGm' \in GmSessions /\ liveGm'.messages = g /\ liveGm'.turn = liveGm.turn
       /\ liveGm'.options = liveGm.options /\ liveGm'.seen = liveGm.seen \cup facts
  BY <1>1, <1>2, <1>5, <1>9 DEF GmSessions
<1>11. /\ run \in GmRuns /\ run.stage = "calls" /\ run.todo = Tail(todo)
       /\ run.entry = gmRun.entry /\ run.include = gmRun.include
  <2>1. Tail(todo) \in Seq(GmCalls)
    BY <1>3
  <2>2. run = [gmRun EXCEPT !.todo = Tail(todo), !.shown = b]
    BY <1>1 DEF GmRuns
  <2> HIDE DEF run
  <2>3. \A t : t = Tail(todo) => run = [gmRun EXCEPT !.todo = t, !.shown = b] /\ t \in Seq(GmCalls)
    BY <2>1, <2>2
  <2> DEFINE t == Tail(todo)
  <2>4. run = [gmRun EXCEPT !.todo = t, !.shown = b] /\ t \in Seq(GmCalls)
    BY <2>3
  <2> HIDE DEF t, todo
  <2>5. /\ run \in GmRuns /\ run.stage = "calls" /\ run.todo = t
        /\ run.entry = gmRun.entry /\ run.include = gmRun.include
    BY <1>1, <2>4 DEF GmRuns
  <2> QED BY <2>5 DEF t
<1> HIDE DEF run
<1>12. /\ gmRun' \in GmRuns /\ gmRun'.entry = gmRun.entry /\ gmRun'.include = gmRun.include /\ gmRun'.stage # "idle"
       /\ gmRun'.stage = "calls" => CallsPending(g, gmRun'.todo)
       /\ gmRun'.stage = "hop" => AllAnswered(g)
  BY <1>5, <1>6, <1>11, Advanced
<1> QED BY <1>1, <1>7, <1>8, <1>10, <1>12 DEF HistoryInv, SessionOK

(* A lookup delivers what the cache does not have. *)
LEMMA RunLookupKeeps ==
  ASSUME HistoryInv, RunLookup
  PROVE  HistoryInv'
<1>1. PICK found \in (SUBSET Knowledge) \ {{}} :
       liveGm' = [liveGm EXCEPT
         !.messages = Append(@, ToolReply(Head(gmRun.todo).id, NewFacts(liveGm, found))),
         !.seen = @ \cup found]
  BY DEF RunLookup
<1>2. gmRun.stage = "calls" /\ keptGm' = keptGm /\ gmRun' = Advance([gmRun EXCEPT !.todo = Tail(@)])
  BY DEF RunLookup
<1> DEFINE facts == NewFacts(liveGm, found)
<1>3. liveGm \in GmSessions /\ gmRun \in GmRuns
  BY DEF HistoryInv, SessionOK
<1>4. facts \in SUBSET Knowledge /\ liveGm.seen \cup found = liveGm.seen \cup facts
  BY DEF NewFacts
<1>5. /\ [gmRun EXCEPT !.todo = Tail(@)] = [gmRun EXCEPT !.todo = Tail(@), !.shown = gmRun.shown]
      /\ gmRun.shown \in BOOLEAN
  BY <1>3 DEF GmRuns
<1>6. liveGm' = [liveGm EXCEPT !.messages = Append(@, ToolReply(Head(gmRun.todo).id, facts)), !.seen = @ \cup facts]
  BY <1>1, <1>3, <1>4 DEF GmSessions
<1> HIDE DEF facts
<1> QED BY <1>2, <1>4, <1>5, <1>6, CallAnswered

(* The player's options are shown, or refused. *)
LEMMA RunAskPlayerKeeps ==
  ASSUME HistoryInv, RunAskPlayer
  PROVE  HistoryInv'
<1>1. PICK valid \in BOOLEAN : gmRun' = Advance([gmRun EXCEPT !.todo = Tail(@), !.shown = @ \/ valid])
  BY DEF RunAskPlayer
<1>2. /\ gmRun.stage = "calls" /\ keptGm' = keptGm
      /\ liveGm' = [liveGm EXCEPT !.messages = Append(@, ToolReply(Head(gmRun.todo).id, {}))]
  BY DEF RunAskPlayer
<1>3. liveGm \in GmSessions /\ gmRun \in GmRuns
  BY DEF HistoryInv, SessionOK
<1> DEFINE b == gmRun.shown \/ valid
<1>4. b \in BOOLEAN /\ gmRun' = Advance([gmRun EXCEPT !.todo = Tail(@), !.shown = b])
  BY <1>1, <1>3 DEF GmRuns
<1>5. liveGm' = [liveGm EXCEPT !.messages = Append(@, ToolReply(Head(gmRun.todo).id, {})), !.seen = @ \cup {}]
  BY <1>2, <1>3 DEF GmSessions
<1> HIDE DEF b
<1>6. {} \in SUBSET Knowledge
  OBVIOUS
<1> QED BY <1>2, <1>4, <1>5, <1>6, CallAnswered

(* The turn is complete and saved. *)
LEMMA CompleteTurnKeeps ==
  ASSUME HistoryInv, CompleteTurn
  PROVE  HistoryInv'
<1>1. SessionOK(liveGm) /\ liveGm \in GmSessions /\ AllAnswered(liveGm.messages)
  BY DEF HistoryInv, CompleteTurn, SessionOK
<1> DEFINE h == liveGm.messages
           g == Append(h, Narration)
<1>2. /\ keptGm' = [liveGm EXCEPT !.messages = g] /\ liveGm' = keptGm' /\ gmRun' = NoRun
  BY <1>1 DEF CompleteTurn, GmSessions
<1>3. Narration \in GmMessages /\ Narration.kind = "answer"
  BY MessagesAdded
<1>4. h \in Seq(GmMessages) /\ PictureOK(h, liveGm.options) /\ HeldIn(h, liveGm.seen)
  BY <1>1 DEF SessionOK, GmSessions
<1>5. g \in Seq(GmMessages)
  BY <1>3, <1>4
<1>6. PictureOK(g, liveGm.options)
  BY <1>3, <1>4, AddedUnsaid DEF Said
<1>7. HeldIn(g, liveGm.seen)
  BY <1>3, <1>4, AddedHolds
<1>8. AllAnswered(g)
  BY <1>1, <1>3, <1>4, AddedAnswered
<1> HIDE DEF g
<1>9. /\ keptGm' \in GmSessions /\ keptGm'.messages = g /\ keptGm'.options = liveGm.options
      /\ keptGm'.seen = liveGm.seen
  BY <1>1, <1>2, <1>5 DEF GmSessions
<1>10. SessionOK(keptGm') /\ AllAnswered(keptGm'.messages)
  BY <1>6, <1>7, <1>8, <1>9 DEF SessionOK
<1>11. NoRun \in GmRuns /\ NoRun.stage = "idle"
  BY DEF NoRun, GmRuns, Options
<1> QED BY <1>2, <1>10, <1>11 DEF HistoryInv

(* The staged session is lost. *)
LEMMA DropTurnKeeps ==
  ASSUME HistoryInv, DropTurn
  PROVE  HistoryInv'
<1>1. NoRun \in GmRuns /\ NoRun.stage = "idle"
  BY DEF NoRun, GmRuns, Options
<1> QED BY <1>1 DEF HistoryInv, DropTurn

(* Every step keeps the invariant. *)
LEMMA HistorySteps ==
  ASSUME HistoryInv, [HistoryNext]_historyVars
  PROVE  HistoryInv'
<1>1. CASE \E o \in Options : BeginTurn(o) \/ ResumeTurn(o)
  BY <1>1, BeginTurnKeeps, ResumeTurnKeeps
<1>2. CASE ModelCalls
  BY <1>2, ModelCallsKeeps
<1>3. CASE RunLookup
  BY <1>3, RunLookupKeeps
<1>4. CASE RunAskPlayer
  BY <1>4, RunAskPlayerKeeps
<1>5. CASE CompleteTurn
  BY <1>5, CompleteTurnKeeps
<1>6. CASE DropTurn
  BY <1>6, DropTurnKeeps
<1>7. CASE UNCHANGED historyVars
  BY <1>7 DEF historyVars, HistoryInv
<1> QED BY <1>1, <1>2, <1>3, <1>4, <1>5, <1>6, <1>7 DEF HistoryNext

(* Whatever was compacted, failed or dropped: calls are answered in their  *)
(* order, one snapshot and what was said last of the options are in the    *)
(* history, and so is the reply that delivered what the cache has. *)
THEOREM HistoryHolds == HistorySpec => []HistoryInv
<1>1. HistoryInit => HistoryInv
  BY HistoryBegins
<1>2. HistoryInv /\ [HistoryNext]_historyVars => HistoryInv'
  BY HistorySteps
<1> QED BY <1>1, <1>2, PTL DEF HistorySpec

(* What a turn sends to the model can be answered: each call has its reply *)
(* at its place, the player's action is in it, and of one picture of the   *)
(* world the last word on the options is that of the tools. *)
THEOREM RequestsStayWellFormed == HistorySpec => []RequestWellFormed
<1>1. HistoryInv => RequestWellFormed
  <2> SUFFICES ASSUME HistoryInv, gmRun.stage = "hop"
               PROVE  /\ CallsAnswered(liveGm.messages)
                      /\ \E i \in DOMAIN liveGm.messages : liveGm.messages[i] = Action(liveGm.turn)
                      /\ gmRun.entry = "fresh" => OneSnapshot(liveGm.messages, gmRun.include)
    BY DEF RequestWellFormed
  <2> DEFINE h == liveGm.messages
  <2>1. AllAnswered(h) /\ ActionIn(h, liveGm.turn) /\ SessionOK(liveGm) /\ gmRun \in GmRuns
    BY DEF HistoryInv
  <2>2. CallsAnswered(h)
    BY <2>1, AnsweredIs
  <2>3. ASSUME gmRun.entry = "fresh" PROVE OneSnapshot(h, gmRun.include)
    <3>1. liveGm.options = gmRun.include /\ gmRun.include \in Options /\ PictureOK(h, gmRun.include)
      BY <2>1, <2>3 DEF HistoryInv, SessionOK, GmRuns
    <3>2. PICK i \in Kinds(h, Said) : h[i].options = gmRun.include /\ \A j \in Kinds(h, Said) : j <= i
      BY <3>1 DEF PictureOK, SaidLast, Options
    <3>3. \E k : Kinds(h, {"snapshot"}) = {k}
      <4>1. \E k : k \in Kinds(h, {"snapshot"})
        <5>1. i \in Kinds(h, {"snapshot"}) \/ i \in Kinds(h, {"notice"})
          BY <3>2 DEF Kinds, Said
        <5> QED BY <3>1, <5>1 DEF PictureOK
      <4> QED BY <3>1, <4>1 DEF PictureOK
    <3>4. Cardinality(Kinds(h, {"snapshot"})) = 1
      BY <3>3, FS_Singleton
    <3> QED BY <3>2, <3>4 DEF OneSnapshot, Said
  <2> QED BY <2>1, <2>2, <2>3 DEF ActionIn
<1> QED BY <1>1, HistoryHolds, PTL

(* What the cache has for delivered, the history holds. *)
THEOREM DeliveredStaysHeld == HistorySpec => []DeliveredIsHeld
<1>1. HistoryInv => DeliveredIsHeld
  BY DEF HistoryInv, SessionOK, HeldIn, DeliveredIsHeld
<1> QED BY <1>1, HistoryHolds, PTL

-----------------------------------------------------------------------------
(* The bounds of the history.                                              *)

HistoryCounted == keptGm.turn <= MaxTurns /\ liveGm.turn <= MaxTurns /\ gmRun.hops <= MaxHops

(* A turn is one turn more, compacted or not. *)
LEMMA PreparedCounts ==
  ASSUME NEW s \in GmSessions, NEW o, NEW u \in MaybeCompacted(Prepared(s, o))
  PROVE  u.turn = s.turn + 1
<1> DEFINE v == Prepared(s, o)
<1>1. v.turn = s.turn + 1
  <2> DEFINE n == s.turn + 1
  <2>1. v.turn = n
    <3> DEFINE tail == <<Action(n)>>
    <3> HIDE DEF n
    <3> QED BY DEF Prepared, GmSessions, n
  <2> QED BY <2>1
<1>2. u = v \/ \E cut \in CutAt(v.messages) : u = Compacted(v, cut)
  BY DEF MaybeCompacted
<1>3. \A cut : Compacted(v, cut).turn = v.turn
  <2>1. "turn" \in DOMAIN v
    BY DEF Prepared, GmSessions
  <2> HIDE DEF v
  <2> QED BY <2>1 DEF Compacted
<1> QED BY <1>1, <1>2, <1>3

(* A hop is begun only while one is left. *)
LEMMA AdvanceCounts ==
  ASSUME NEW run \in GmRuns, run.hops <= MaxHops
  PROVE  Advance(run).hops <= MaxHops
BY HistoryBounds DEF Advance, GmRuns

(* No step goes over a bound. *)
LEMMA HistoryCounts ==
  ASSUME HistoryInv, HistoryCounted, [HistoryNext]_historyVars
  PROVE  HistoryCounted'
<1>1. keptGm \in GmSessions /\ liveGm \in GmSessions /\ gmRun \in GmRuns
  BY DEF HistoryInv, SessionOK
<1>2. ASSUME NEW o \in Options, BeginTurn(o) PROVE HistoryCounted'
  <2>1. liveGm'.turn = keptGm.turn + 1 /\ keptGm' = keptGm /\ keptGm.turn < MaxTurns
    BY <1>1, <1>2, PreparedCounts DEF BeginTurn
  <2>2. gmRun'.hops = 1
    BY <1>2 DEF BeginTurn, NoRun
  <2> QED BY <1>1, <2>1, <2>2, HistoryBounds DEF HistoryCounted, GmSessions
<1>3. ASSUME NEW o \in Options, ResumeTurn(o) PROVE HistoryCounted'
  <2>1. gmRun'.hops = 1
    BY <1>3 DEF ResumeTurn, NoRun
  <2> QED BY <1>3, <2>1, HistoryBounds DEF HistoryCounted, ResumeTurn
<1>4. CASE ModelCalls
  <2>1. PICK h, c : liveGm' = [liveGm EXCEPT !.messages = h] /\ gmRun' = [gmRun EXCEPT !.stage = "calls", !.todo = c]
    BY <1>4 DEF ModelCalls
  <2>2. liveGm'.turn = liveGm.turn /\ gmRun'.hops = gmRun.hops /\ keptGm' = keptGm
    BY <1>1, <1>4, <2>1 DEF ModelCalls, GmSessions, GmRuns
  <2> QED BY <2>2 DEF HistoryCounted
<1>5. CASE RunLookup
  <2>1. PICK h, k : liveGm' = [liveGm EXCEPT !.messages = h, !.seen = k]
    BY <1>1, <1>5 DEF RunLookup, GmSessions
  <2>2. liveGm'.turn = liveGm.turn /\ keptGm' = keptGm
    BY <1>1, <1>5, <2>1 DEF RunLookup, GmSessions
  <2>3. gmRun'.hops <= MaxHops
    BY <1>1, <1>5, HistoryBounds DEF RunLookup, Advance, GmRuns, HistoryCounted
  <2> QED BY <2>2, <2>3 DEF HistoryCounted
<1>6. CASE RunAskPlayer
  <2>1. PICK h : liveGm' = [liveGm EXCEPT !.messages = h]
    BY <1>1, <1>6 DEF RunAskPlayer, GmSessions
  <2>2. liveGm'.turn = liveGm.turn /\ keptGm' = keptGm
    BY <1>1, <1>6, <2>1 DEF RunAskPlayer, GmSessions
  <2>3. gmRun'.hops <= MaxHops
    BY <1>1, <1>6, HistoryBounds DEF RunAskPlayer, Advance, GmRuns, HistoryCounted
  <2> QED BY <2>2, <2>3 DEF HistoryCounted
<1>7. CASE CompleteTurn
  <2>1. PICK h : keptGm' = [liveGm EXCEPT !.messages = h] /\ liveGm' = keptGm' /\ gmRun' = NoRun
    BY <1>1, <1>7 DEF CompleteTurn, GmSessions
  <2>2. keptGm'.turn = liveGm.turn /\ liveGm' = keptGm' /\ gmRun'.hops = 0
    BY <1>1, <2>1 DEF NoRun, GmSessions
  <2> QED BY <2>2, HistoryBounds DEF HistoryCounted
<1>8. CASE DropTurn
  BY <1>8, HistoryBounds DEF DropTurn, NoRun, HistoryCounted
<1>9. CASE UNCHANGED historyVars
  BY <1>9 DEF historyVars, HistoryCounted
<1> QED BY <1>2, <1>3, <1>4, <1>5, <1>6, <1>7, <1>8, <1>9 DEF HistoryNext

(* A chat begins within the bounds. *)
LEMMA HistoryCountedFirst == HistoryInit => HistoryCounted
BY HistoryBounds DEF HistoryInit, HistoryCounted, GmSession, NoRun

(* Sessions keep their type: every message of a history is of a kind that  *)
(* the provider knows, and what is cached for it is what lookups found.    *)
THEOREM HistoryStaysTyped == HistorySpec => []HistoryTypeOK
<1>1. HistoryInv /\ HistoryCounted => HistoryTypeOK
  <2> SUFFICES ASSUME HistoryInv, HistoryCounted PROVE HistoryTypeOK
    OBVIOUS
  <2>1. ASSUME NEW s \in {keptGm, liveGm}
        PROVE  /\ s.turn \in 0 .. MaxTurns /\ s.seen \subseteq Knowledge /\ s.options \in Options \cup {"unset"}
               /\ Kinds(s.messages, {"snapshot", "notice", "action", "calls", "reply", "answer"}) = DOMAIN s.messages
    <3>1. s \in GmSessions /\ s.turn <= MaxTurns
      BY DEF HistoryInv, SessionOK, HistoryCounted
    <3>2. \A i \in DOMAIN s.messages : s.messages[i] \in GmMessages
      BY <3>1 DEF GmSessions
    <3>3. \A i \in DOMAIN s.messages : s.messages[i].kind \in {"snapshot", "notice", "action", "calls", "reply", "answer"}
      BY <3>2, MessageTypes
    <3>4. s.turn \in 0 .. MaxTurns
      BY <3>1, HistoryBounds DEF GmSessions
    <3>5. s.seen \subseteq Knowledge /\ s.options \in Options \cup {"unset"}
      BY <3>1 DEF GmSessions
    <3> QED BY <3>3, <3>4, <3>5 DEF Kinds
  <2>2. gmRun.stage \in {"idle", "hop", "calls", "over"} /\ gmRun.hops \in 0 .. MaxHops
    BY HistoryBounds DEF HistoryInv, GmRuns, HistoryCounted
  <2> QED BY <2>1, <2>2 DEF HistoryTypeOK
<1>2. HistorySpec => []HistoryCounted
  BY HistoryHolds, HistoryCountedFirst, HistoryCounts, PTL DEF HistorySpec
<1> QED BY <1>1, <1>2, HistoryHolds, PTL

-----------------------------------------------------------------------------
(***************************************************************************)
(* Architect.                                                              *)
(***************************************************************************)
-----------------------------------------------------------------------------
(* Prefixes.                                                               *)

(* A sequence is a prefix of itself ... *)
LEMMA PrefixItself ==
  ASSUME NEW M, NEW s \in Seq(M)
  PROVE  IsPrefix(s, s)
BY DEF IsPrefix

(* ... of what it is appended to ... *)
LEMMA PrefixAppended ==
  ASSUME NEW M, NEW s \in Seq(M), NEW t \in Seq(M), NEW x \in M, IsPrefix(s, t)
  PROVE  IsPrefix(s, Append(t, x))
<1> DEFINE u == Append(t, x)
<1>1. u \in Seq(M) /\ Len(u) = Len(t) + 1 /\ \A i \in 1 .. Len(t) : u[i] = t[i]
  OBVIOUS
<1> HIDE DEF u
<1>2. Len(s) \in Nat /\ Len(t) \in Nat /\ Len(s) <= Len(t) /\ SubSeq(s, 1, Len(s)) = SubSeq(t, 1, Len(s))
  BY DEF IsPrefix
<1>3. SubSeq(u, 1, Len(s)) = SubSeq(t, 1, Len(s))
  BY <1>1, <1>2
<1> QED BY <1>1, <1>2, <1>3 DEF IsPrefix, u

-----------------------------------------------------------------------------
(* The inductive invariant.                                                *)

Inside == {"load", "ask", "model", "save", "tell"}
Readers == {"made", "load", "ask", "model", "save"}
Tellers == {"ask", "model", "save", "tell"}

(* Who is at work has the lock.                                            *)
TurnInside(t) == turn[t].stage \in Inside \/ (turn[t].stage = "content" /\ package # "unborn")

LockKept ==
  /\ \A t \in Turns : TurnInside(t) => guard = t
  /\ \A e \in Editors : editor[e] = "writes" => guard = e
  /\ \A d \in Removers : remover[d] \in {"writes", "row"} => guard = d

(* Before there is a package one turn may be making it, and no more.       *)
UnbornTurns ==
  package = "unborn" =>
    /\ guard = Nobody
    /\ \A t \in Turns : turn[t].stage \in {"new", "content", "over"}
    /\ \A t, u \in Turns : turn[t].stage = "content" /\ turn[u].stage = "content" => t = u
    /\ \A e \in Editors : editor[e] \in {"new", "over"}
    /\ \A d \in Removers : remover[d] \in {"new", "over"}

(* A turn has read what the content holds, but for what slipped; what it   *)
(* will save of the conversation goes on from what is saved.               *)
ReadStands(t) ==
  /\ turn[t].stage \in Readers => hand \ slipped \subseteq turn[t].read
  /\ turn[t].stage \in Tellers => turn[t].history = talk.history /\ IsPrefix(talk.messages, turn[t].messages)

ArchitectInv ==
  /\ ArchitectTypeOK /\ LockKept /\ UnbornTurns
  /\ \A t \in Turns : turn[t].stage \notin {"new", "open", "over"} => turn[t].text \in Messages
  /\ \A d \in Removers : remover[d] \in {"row", "aloneRow"} => package = "deleted"
  /\ package = "present" => \A t \in Turns : ReadStands(t)

(* What one step keeps.                                                    *)
StepKeeps ==
  package = "present" /\ package' = "present" =>
    /\ hand \ (slipped \cup Unseen) \subseteq hand'
    /\ IsPrefix(talk.history, talk'.history)
    /\ IsPrefix(talk.messages, talk'.messages)

(* A conversation that stays is kept. *)
LEMMA TalkKept ==
  ASSUME ArchitectTypeOK
  PROVE  IsPrefix(talk.history, talk.history) /\ IsPrefix(talk.messages, talk.messages)
<1>1. talk.history \in Seq(Messages) /\ talk.messages \in Seq(TalkItems)
  BY DEF ArchitectTypeOK
<1> QED BY <1>1, PrefixItself

-----------------------------------------------------------------------------
(* Turns.                                                                  *)

(* One turn becomes r. *)
TurnTakes(t, r) == r \in TurnRecords /\ turn' = [turn EXCEPT ![t] = r]

(* The others stay. *)
LEMMA TurnBecomes ==
  ASSUME ArchitectTypeOK, NEW t \in Turns, NEW r, TurnTakes(t, r)
  PROVE  /\ turn' \in [Turns -> TurnRecords]
         /\ \A u \in Turns : turn'[u] = IF u = t THEN r ELSE turn[u]
BY DEF ArchitectTypeOK, TurnTakes

(* It goes to another stage ... *)
LEMMA EnterBecomes ==
  ASSUME ArchitectTypeOK, NEW t \in Turns, NEW s \in TurnStages, Enter(t, s)
  PROVE  \E r : /\ TurnTakes(t, r) /\ r.stage = s /\ r.text = turn[t].text
                /\ r.read = turn[t].read /\ r.messages = turn[t].messages /\ r.history = turn[t].history
<1> DEFINE r == [turn[t] EXCEPT !.stage = s]
<1>1. /\ r \in TurnRecords /\ r.stage = s /\ r.text = turn[t].text
      /\ r.read = turn[t].read /\ r.messages = turn[t].messages /\ r.history = turn[t].history
  BY DEF ArchitectTypeOK, TurnRecords
<1>2. TurnTakes(t, r)
  BY <1>1 DEF TurnTakes, Enter, ArchitectTypeOK, TurnRecords
<1> QED BY <1>1, <1>2

(* ... or ends. *)
LEMMA OverBecomes ==
  ASSUME ArchitectTypeOK, NEW t \in Turns, Over(t)
  PROVE  \E r : TurnTakes(t, r) /\ r.stage = "over"
<1> DEFINE r == [NewTurn EXCEPT !.stage = "over"]
<1>1. /\ "over" \in TurnStages /\ {} \in SUBSET (Turns \cup Editors)
      /\ << >> \in Seq(TalkItems) /\ << >> \in Seq(Messages) /\ Nobody \in Messages \cup {Nobody}
  BY DEF TurnStages
<1>2. r \in TurnRecords /\ r.stage = "over"
  BY <1>1 DEF NewTurn, TurnRecords
<1> QED BY <1>2 DEF TurnTakes, Over

(* A form is opened, posted, and in the queue. *)
LEMMA ArrivingKeeps ==
  ASSUME ArchitectInv, NEW t \in Turns, OpenForm(t) \/ PostTurn(t) \/ LockTurn(t) \/ LockCreated(t)
  PROVE  ArchitectInv' /\ StepKeeps
<1>0. ArchitectTypeOK /\ Nobody \notin Turns \cup Editors \cup Removers
  BY NobodyAssumption DEF ArchitectInv
<1>1. /\ UNCHANGED <<package, hand, talk, editor, remover, slipped>>
      /\ guard' \in {guard, t} /\ (guard' # guard => guard = Nobody)
      /\ form' \in [Turns \cup Editors -> SUBSET (Turns \cup Editors)]
  BY <1>0 DEF OpenForm, PostTurn, LockTurn, LockCreated, Waits, ArchitectTypeOK
<1>2. PICK r : /\ TurnTakes(t, r) /\ (r.text \in Messages \/ r.stage = "open")
               /\ \/ OpenForm(t) /\ guard' = guard /\ r.stage = "open"
                  \/ /\ PostTurn(t) /\ guard' = guard
                     /\ r.stage = IF package = "unborn" THEN "content" ELSE "queue"
                  \/ turn[t].stage = "queue" /\ r.stage = "content" /\ guard' = t
                  \/ turn[t].stage = "made" /\ r.stage = "load" /\ r.read = turn[t].read /\ guard' = t
  <2>1. CASE PostTurn(t)
    <3>1. PICK text \in Messages :
            turn' = [turn EXCEPT ![t].text = text, ![t].stage = IF package = "unborn" THEN "content" ELSE "queue"]
      BY <2>1 DEF PostTurn
    <3> DEFINE s == IF package = "unborn" THEN "content" ELSE "queue"
               r == [turn[t] EXCEPT !.text = text, !.stage = s]
    <3>2. s \in TurnStages
      BY DEF TurnStages
    <3>3. turn' = [turn EXCEPT ![t].text = text, ![t].stage = s]
      BY <3>1
    <3> HIDE DEF s
    <3>4. r \in TurnRecords /\ r.stage = s /\ r.text \in Messages
      <4>1. turn[t] \in TurnRecords
        BY <1>0 DEF ArchitectTypeOK
      <4>2. r \in TurnRecords
        BY <3>2, <4>1 DEF TurnRecords
      <4>3. r.stage = s /\ r.text = text
        BY <4>1 DEF TurnRecords
      <4> QED BY <4>2, <4>3
    <3>5. turn' = [turn EXCEPT ![t] = r]
      BY <1>0, <3>3 DEF ArchitectTypeOK, TurnRecords
    <3> QED BY <2>1, <3>4, <3>5 DEF TurnTakes, PostTurn, s
  <2>2. CASE LockTurn(t)
    BY <1>0, <2>2, EnterBecomes DEF LockTurn, Waits, TurnStages, ArchitectInv
  <2>3. CASE LockCreated(t)
    BY <1>0, <2>3, EnterBecomes DEF LockCreated, Waits, TurnStages, ArchitectInv
  <2>4. CASE OpenForm(t)
    BY <1>0, <2>4, EnterBecomes DEF OpenForm, TurnStages
  <2> QED BY <2>1, <2>2, <2>3, <2>4
<1>3. \A u \in Turns : turn'[u] = IF u = t THEN r ELSE turn[u]
  BY <1>0, <1>2, TurnBecomes
<1>4. ArchitectTypeOK'
  BY <1>0, <1>1, <1>2, TurnBecomes DEF ArchitectTypeOK
<1>12. OpenForm(t) => package = "present"
  BY DEF OpenForm
<1>5. PostTurn(t) => /\ turn[t].stage \in {"new", "open"} /\ package \in {"unborn", "present"}
                     /\ package = "unborn" => \A u \in Turns : turn[u].stage # "content"
  BY DEF PostTurn
<1>6. package = "unborn" => PostTurn(t) /\ guard' = guard
  BY <1>2, <1>12 DEF ArchitectInv, UnbornTurns
<1>7. LockKept'
  BY <1>0, <1>1, <1>2, <1>3, <1>5, <1>12 DEF ArchitectInv, LockKept, TurnInside, Inside
<1>8. UnbornTurns'
  <2>1. SUFFICES ASSUME package = "unborn" PROVE UnbornTurns'
    BY <1>1 DEF UnbornTurns
  <2>2. UnbornTurns /\ guard' = guard
    BY <1>6, <2>1 DEF ArchitectInv
  <2>3. r.stage = "content" /\ \A u \in Turns : turn[u].stage # "content"
    BY <1>2, <1>5, <1>6, <1>12, <2>1
  <2> QED BY <1>1, <1>3, <2>1, <2>2, <2>3 DEF UnbornTurns
<1>9. package = "present" => \A u \in Turns : ReadStands(u)'
  BY <1>1, <1>2, <1>3 DEF ArchitectInv, ReadStands, Readers, Tellers
<1>10. StepKeeps
  BY <1>0, <1>1, TalkKept DEF StepKeeps
<1>11. \A u \in Turns : turn'[u].stage \notin {"new", "open", "over"} => turn'[u].text \in Messages
  BY <1>2, <1>3 DEF ArchitectInv
<1> QED BY <1>1, <1>11, <1>4, <1>7, <1>8, <1>9, <1>10 DEF ArchitectInv

(* Nobody else is inside, and of those who read only a creator. *)
LEMMA Alone ==
  ASSUME ArchitectInv, NEW t \in Turns, guard = t
  PROVE  /\ \A u \in Turns : u # t => ~ TurnInside(u)
         /\ \A e \in Editors : editor[e] # "writes"
         /\ \A d \in Removers : remover[d] \notin {"writes", "row"}
         /\ package # "unborn"
BY NobodyAssumption, HandlersAssumption DEF ArchitectInv, LockKept, UnbornTurns

(* What a form leaves, when it is written. *)
LEMMA MergedHolds ==
  ASSUME ArchitectTypeOK, NEW known, known \subseteq Turns \cup Editors, NEW h \in Merged(known)
  PROVE  known \subseteq h /\ h \subseteq Turns \cup Editors
BY DEF Merged, ArchitectTypeOK

(* The content is made or read. *)
LEMMA ContentKeeps ==
  ASSUME ArchitectInv, NEW t \in Turns, Create(t) \/ TakeContent(t)
  PROVE  ArchitectInv' /\ StepKeeps
<1>0. ArchitectTypeOK /\ Nobody \notin Turns \cup Editors \cup Removers
  BY NobodyAssumption DEF ArchitectInv
<1>1. /\ UNCHANGED <<talk, guard, editor, remover>> /\ turn[t].stage = "content"
      /\ package' = "present" /\ package \in {"unborn", "present"}
      /\ form[t] \subseteq Turns \cup Editors
      /\ form' \in [Turns \cup Editors -> SUBSET (Turns \cup Editors)]
  BY <1>0 DEF Create, TakeContent, ArchitectTypeOK
<1>8. TakeContent(t) => hand' \subseteq Turns \cup Editors /\ (hand' = hand \/ form[t] \subseteq hand')
  <2>1. TakeContent(t) => hand' \in {hand} \cup Merged(form[t]) \cup Merged(form[t] \cup {t})
    BY DEF TakeContent
  <2>2. hand \subseteq Turns \cup Editors /\ form[t] \cup {t} \subseteq Turns \cup Editors
    BY <1>0, <1>1 DEF ArchitectTypeOK
  <2>3. hand' \in Merged(form[t]) => hand' \subseteq Turns \cup Editors /\ form[t] \subseteq hand'
    BY <1>0, <1>1, MergedHolds
  <2>4. hand' \in Merged(form[t] \cup {t}) => hand' \subseteq Turns \cup Editors /\ form[t] \cup {t} \subseteq hand'
    BY <1>0, <2>2, MergedHolds
  <2> QED BY <2>1, <2>2, <2>3, <2>4
<1>9. hand' \subseteq Turns \cup Editors
  BY <1>8 DEF Create
<1>2. PICK r : /\ TurnTakes(t, r) /\ r.read = hand' /\ r.text = turn[t].text
               /\ \/ Create(t) /\ r.stage = "made"
                  \/ TakeContent(t) /\ r.stage = "load"
  <2>1. ASSUME NEW s \in TurnStages, turn' = [turn EXCEPT ![t].stage = s, ![t].read = hand']
        PROVE  \E r : TurnTakes(t, r) /\ r.read = hand' /\ r.text = turn[t].text /\ r.stage = s
    <3> DEFINE r == [turn[t] EXCEPT !.stage = s, !.read = hand']
    <3>1. r \in TurnRecords /\ r.stage = s /\ r.read = hand' /\ r.text = turn[t].text
      <4>1. turn[t] \in TurnRecords
        BY <1>0 DEF ArchitectTypeOK
      <4>2. r \in TurnRecords
        BY <1>9, <4>1 DEF TurnRecords
      <4>3. r.stage = s /\ r.read = hand' /\ r.text = turn[t].text
        BY <4>1 DEF TurnRecords
      <4> QED BY <4>2, <4>3
    <3>2. turn' = [turn EXCEPT ![t] = r]
      BY <1>0, <2>1 DEF ArchitectTypeOK, TurnRecords
    <3> QED BY <3>1, <3>2 DEF TurnTakes
  <2>2. CASE Create(t)
    BY <2>1, <2>2 DEF Create, TurnStages
  <2>3. CASE TakeContent(t)
    BY <2>1, <2>3 DEF TakeContent, TurnStages
  <2> QED BY <2>2, <2>3
<1>3. \A u \in Turns : turn'[u] = IF u = t THEN r ELSE turn[u]
  BY <1>0, <1>2, TurnBecomes
<1>4. ArchitectTypeOK'
  <2>1. slipped' \subseteq Turns \cup Editors
    BY <1>0, <1>9 DEF Create, TakeContent, Slips, ArchitectTypeOK
  <2> QED BY <1>0, <1>1, <1>2, <1>9, <2>1, TurnBecomes DEF ArchitectTypeOK
<1>7. \A u \in Turns : turn'[u].stage \notin {"new", "open", "over"} => turn'[u].text \in Messages
  BY <1>1, <1>2, <1>3 DEF ArchitectInv
<1>5. CASE Create(t)
  <2>1. package = "unborn" /\ slipped' = slipped
    BY <1>5 DEF Create
  <2>2. \A u \in Turns : turn'[u].stage \in {"new", "over"} \/ u = t
    BY <1>1, <1>3, <2>1 DEF ArchitectInv, UnbornTurns
  <2>3. r.stage = "made"
    BY <1>2, <1>5, <2>1 DEF TakeContent
  <2>4. LockKept' /\ UnbornTurns' /\ \A d \in Removers : remover[d] \notin {"row", "aloneRow"}
    BY <1>1, <1>3, <2>1, <2>2, <2>3 DEF ArchitectInv, LockKept, UnbornTurns, TurnInside, Inside
  <2>5. \A u \in Turns : ReadStands(u)'
    BY <1>2, <1>3, <2>2, <2>3 DEF ReadStands, Readers, Tellers
  <2> QED BY <1>1, <1>4, <1>7, <2>1, <2>4, <2>5 DEF ArchitectInv, StepKeeps
<1>6. CASE TakeContent(t)
  <2>1. /\ package = "present" /\ guard = t
        /\ slipped' = IF ~ Unlocked THEN slipped ELSE slipped \cup (hand' \ hand)
    BY <1>6 DEF TakeContent, Slips
  <2>2. r.stage = "load"
    BY <1>2, <1>6, <2>1 DEF Create
  <2>3. LockKept' /\ UnbornTurns' /\ \A d \in Removers : remover[d] \notin {"row", "aloneRow"}
    BY <1>1, <1>3, <2>1, <2>2 DEF ArchitectInv, LockKept, UnbornTurns, TurnInside, Inside
  <2>4. ASSUME NEW u \in Turns PROVE ReadStands(u)'
    <3>1. CASE u = t
      BY <1>2, <1>3, <2>2, <3>1 DEF ReadStands, Tellers
    <3>2. CASE u # t
      <4>1. turn'[u] = turn[u] /\ turn[u].stage \notin Inside
        BY <1>3, <2>1, <3>2, Alone DEF TurnInside
      <4>2. turn[u].stage = "made" => Unlocked
        BY DEF Unlocked
      <4> QED BY <2>1, <4>1, <4>2 DEF ArchitectInv, ReadStands, Readers, Tellers, Inside
    <3> QED BY <3>1, <3>2
  <2>5. StepKeeps
    <3>1. WritesForm(t)
      BY <1>1, <1>3, <2>2 DEF WritesForm
    <3>2. hand \ Unseen \subseteq hand'
      BY <1>6, <1>8, <3>1 DEF Unseen
    <3> QED BY <1>0, <1>1, <3>2, TalkKept DEF StepKeeps
  <2> QED BY <1>1, <1>4, <1>7, <2>1, <2>3, <2>4, <2>5 DEF ArchitectInv
<1> QED BY <1>5, <1>6

(* The conversation that is loaded goes on from what is saved. *)
LEMMA LoadedGoesOn ==
  ASSUME ArchitectTypeOK, NEW text \in Messages
  PROVE  /\ WithUser(talk.messages, text) \in Seq(TalkItems)
         /\ IsPrefix(talk.messages, WithUser(talk.messages, text))
<1>1. talk.messages \in Seq(TalkItems) /\ User(text) \in TalkItems
  BY DEF ArchitectTypeOK, TalkItems
<1>2. CASE WithUser(talk.messages, text) = talk.messages
  BY <1>1, <1>2, PrefixItself
<1>3. CASE WithUser(talk.messages, text) = Append(talk.messages, User(text))
  <2>1. Append(talk.messages, User(text)) \in Seq(TalkItems) /\ IsPrefix(talk.messages, talk.messages)
    BY <1>1, PrefixItself
  <2>2. IsPrefix(talk.messages, Append(talk.messages, User(text)))
    BY <1>1, <2>1, PrefixAppended
  <2> QED BY <1>3, <2>1, <2>2
<1> QED BY <1>2, <1>3 DEF WithUser

(* The turn with the lock works on.  What others have read is the content  *)
(* still, and what it has read itself stands.                              *)
LEMMA WorkKeeps ==
  ASSUME ArchitectInv, NEW t \in Turns, NEW r, TurnTakes(t, r),
         turn[t].stage \in Inside, r.stage \in Inside, r.text = turn[t].text,
         UNCHANGED <<package, guard, editor, remover, form>>,
         hand' \subseteq Turns \cup Editors, slipped' \subseteq Turns \cup Editors,
         ~ Unlocked \/ hand' \ slipped' \subseteq hand \ slipped,
         talk' \in [exists : BOOLEAN, messages : Seq(TalkItems), history : Seq(Messages)],
         package = "present" => /\ r.stage \in Readers => hand' \ slipped' \subseteq r.read
                                /\ r.stage \in Tellers => r.history = talk'.history /\ IsPrefix(talk'.messages, r.messages)
  PROVE  ArchitectInv'
<1>0. ArchitectTypeOK /\ guard = t
  BY DEF ArchitectInv, LockKept, TurnInside
<1>1. \A u \in Turns : turn'[u] = IF u = t THEN r ELSE turn[u]
  BY <1>0, TurnBecomes
<1>2. ArchitectTypeOK'
  BY <1>0, TurnBecomes DEF ArchitectTypeOK
<1>3. package # "unborn" /\ \A u \in Turns : u # t => turn[u].stage \notin Inside
  BY <1>0, Alone DEF TurnInside
<1>4. LockKept' /\ UnbornTurns'
  BY <1>0, <1>1, <1>3 DEF ArchitectInv, LockKept, UnbornTurns, TurnInside, Inside
<1>5. \A u \in Turns : turn'[u].stage \notin {"new", "open", "over"} => turn'[u].text \in Messages
  BY <1>1 DEF ArchitectInv, Inside
<1>6. ASSUME package = "present", NEW u \in Turns PROVE ReadStands(u)'
  <2>1. CASE u = t
    BY <1>1, <1>6, <2>1 DEF ReadStands
  <2>2. CASE u # t
    <3>1. turn'[u] = turn[u] /\ turn[u].stage \notin Inside /\ (turn[u].stage = "made" => Unlocked)
      BY <1>1, <1>3, <2>2 DEF Unlocked
    <3> QED BY <1>6, <3>1 DEF ArchitectInv, ReadStands, Readers, Tellers, Inside
  <2> QED BY <2>1, <2>2
<1> QED BY <1>2, <1>4, <1>5, <1>6 DEF ArchitectInv

(* It loads, asks and is answered. *)
LEMMA AskingKeeps ==
  ASSUME ArchitectInv, NEW t \in Turns, LoadTalk(t) \/ SaveQuestion(t) \/ ModelAnswers(t)
  PROVE  ArchitectInv' /\ StepKeeps
<1>0. ArchitectTypeOK /\ UNCHANGED <<package, hand, guard, editor, remover, form, slipped>>
  BY DEF ArchitectInv, LoadTalk, SaveQuestion, ModelAnswers
<1>1. /\ turn[t].stage \in {"load", "ask", "model"} /\ turn[t].text \in Messages
      /\ talk \in [exists : BOOLEAN, messages : Seq(TalkItems), history : Seq(Messages)]
      /\ turn[t] \in TurnRecords /\ hand \subseteq Turns \cup Editors /\ slipped \subseteq Turns \cup Editors
  BY <1>0 DEF LoadTalk, SaveQuestion, ModelAnswers, ArchitectInv, ArchitectTypeOK
<1>2. turn[t].messages \in Seq(TalkItems) /\ turn[t].history \in Seq(Messages)
  BY <1>1 DEF TurnRecords
<1>3. package = "present" => ReadStands(t)
  BY DEF ArchitectInv
<1>4. CASE LoadTalk(t)
  <2> DEFINE messages == WithUser(talk.messages, turn[t].text)
             r == [turn[t] EXCEPT !.stage = "ask", !.history = talk.history, !.messages = messages]
  <2>1. messages \in Seq(TalkItems) /\ IsPrefix(talk.messages, messages)
    BY <1>0, <1>1, LoadedGoesOn
  <2>2. /\ turn[t].stage = "load" /\ talk' = talk
        /\ turn' = [turn EXCEPT ![t].stage = "ask", ![t].history = talk.history, ![t].messages = messages]
    BY <1>4 DEF LoadTalk
  <2> HIDE DEF messages
  <2>3. /\ r \in TurnRecords /\ r.stage = "ask" /\ r.text = turn[t].text /\ r.read = turn[t].read
        /\ r.history = talk.history /\ r.messages = messages
    BY <1>1, <2>1 DEF TurnRecords, TurnStages
  <2>4. TurnTakes(t, r)
    BY <1>0, <2>2, <2>3 DEF TurnTakes, ArchitectTypeOK, TurnRecords
  <2> HIDE DEF r
  <2>5. ArchitectInv'
    BY <1>0, <1>1, <1>3, <2>1, <2>2, <2>3, <2>4, WorkKeeps DEF Inside, Readers, ReadStands
  <2> QED BY <1>0, <2>2, <2>5, TalkKept DEF StepKeeps
<1>5. CASE SaveQuestion(t)
  <2>1. /\ turn[t].stage = "ask" /\ Enter(t, "model")
        /\ talk' = [exists |-> TRUE, messages |-> turn[t].messages, history |-> turn[t].history]
    BY <1>5 DEF SaveQuestion
  <2>2. PICK r : /\ TurnTakes(t, r) /\ r.stage = "model" /\ r.text = turn[t].text
                 /\ r.read = turn[t].read /\ r.messages = turn[t].messages /\ r.history = turn[t].history
    BY <1>0, <2>1, EnterBecomes DEF TurnStages
  <2>3. /\ talk' \in [exists : BOOLEAN, messages : Seq(TalkItems), history : Seq(Messages)]
        /\ talk'.messages = turn[t].messages /\ talk'.history = turn[t].history
    BY <1>2, <2>1
  <2>4. package = "present" =>
          /\ hand \ slipped \subseteq turn[t].read
          /\ turn[t].history = talk.history /\ IsPrefix(talk.messages, turn[t].messages)
    BY <1>3, <2>1 DEF ReadStands, Readers, Tellers
  <2>5. IsPrefix(turn[t].messages, turn[t].messages) /\ IsPrefix(turn[t].history, turn[t].history)
    BY <1>2, PrefixItself
  <2>6. ArchitectInv'
    BY <1>0, <1>1, <2>1, <2>2, <2>3, <2>4, <2>5, WorkKeeps DEF Inside
  <2> QED BY <1>0, <2>3, <2>4, <2>5, <2>6 DEF StepKeeps
<1>6. CASE ModelAnswers(t)
  <2>1. turn[t].stage = "model" /\ talk' = talk /\ \E s \in {"save", "tell"} : Enter(t, s)
    BY <1>6 DEF ModelAnswers
  <2>2. PICK r : /\ TurnTakes(t, r) /\ r.stage \in {"save", "tell"} /\ r.text = turn[t].text
                 /\ r.read = turn[t].read /\ r.messages = turn[t].messages /\ r.history = turn[t].history
    BY <1>0, <2>1, EnterBecomes DEF TurnStages
  <2>3. ArchitectInv'
    BY <1>0, <1>1, <1>3, <2>1, <2>2, WorkKeeps DEF Inside, ReadStands, Readers, Tellers
  <2> QED BY <1>0, <2>1, <2>3, TalkKept DEF StepKeeps
<1> QED BY <1>4, <1>5, <1>6

(* It writes back what it has read. *)
LEMMA SavingKeeps ==
  ASSUME ArchitectInv, NEW t \in Turns, SaveContent(t)
  PROVE  ArchitectInv' /\ StepKeeps
<1>0. ArchitectTypeOK /\ UNCHANGED <<package, talk, guard, editor, remover, form>>
  BY DEF ArchitectInv, SaveContent
<1>1. /\ turn[t].stage = "save" /\ package = "present" /\ hand' \in Merged(turn[t].read) /\ Enter(t, "tell")
      /\ slipped' = IF ~ Unlocked THEN slipped ELSE slipped \cup (hand' \ hand)
  BY DEF SaveContent, Slips
<1>2. PICK r : /\ TurnTakes(t, r) /\ r.stage = "tell" /\ r.text = turn[t].text
               /\ r.read = turn[t].read /\ r.messages = turn[t].messages /\ r.history = turn[t].history
  BY <1>0, <1>1, EnterBecomes DEF TurnStages
<1>3. ReadStands(t) /\ turn[t] \in TurnRecords
  BY <1>0, <1>1 DEF ArchitectInv, ArchitectTypeOK
<1>4. turn[t].read \subseteq Turns \cup Editors
  BY <1>3 DEF TurnRecords
<1>5. /\ hand \ slipped \subseteq hand' /\ hand' \subseteq Turns \cup Editors
      /\ turn[t].history = talk.history /\ IsPrefix(talk.messages, turn[t].messages)
  BY <1>0, <1>1, <1>3, <1>4, MergedHolds DEF ReadStands, Readers, Tellers
<1>6. /\ talk' \in [exists : BOOLEAN, messages : Seq(TalkItems), history : Seq(Messages)]
      /\ slipped' \subseteq Turns \cup Editors
      /\ ~ Unlocked \/ hand' \ slipped' \subseteq hand \ slipped
  BY <1>0, <1>1, <1>5 DEF ArchitectTypeOK
<1>7. ArchitectInv'
  BY <1>0, <1>1, <1>2, <1>5, <1>6, WorkKeeps DEF Inside, Readers
<1> QED BY <1>0, <1>5, <1>7, TalkKept DEF StepKeeps

(* It ends. *)
LEMMA EndingKeeps ==
  ASSUME ArchitectInv, NEW t \in Turns, SaveAnswer(t) \/ TurnFails(t)
  PROVE  ArchitectInv' /\ StepKeeps
<1>0. ArchitectTypeOK /\ Nobody \notin Turns \cup Editors \cup Removers
  BY NobodyAssumption DEF ArchitectInv
<1>1. /\ UNCHANGED <<package, hand, editor, remover, form, slipped>> /\ Over(t)
      /\ turn[t].stage \in {"content", "load", "ask", "model", "save", "tell"}
      /\ guard' = IF guard = t THEN Nobody ELSE guard
      /\ talk' # talk => SaveAnswer(t)
  BY DEF SaveAnswer, TurnFails, Over
<1>2. PICK r : TurnTakes(t, r) /\ r.stage = "over"
  BY <1>0, <1>1, OverBecomes
<1>3. \A u \in Turns : turn'[u] = IF u = t THEN r ELSE turn[u]
  BY <1>0, <1>2, TurnBecomes
<1>4. SaveAnswer(t) => /\ turn[t].stage = "tell" /\ guard = t
                       /\ talk' \in [exists : BOOLEAN, messages : Seq(TalkItems), history : Seq(Messages)]
                       /\ package = "present" => IsPrefix(talk.history, talk'.history) /\ IsPrefix(talk.messages, talk'.messages)
  <2> SUFFICES ASSUME SaveAnswer(t)
               PROVE  /\ turn[t].stage = "tell" /\ guard = t
                      /\ talk' \in [exists : BOOLEAN, messages : Seq(TalkItems), history : Seq(Messages)]
                      /\ package = "present" => IsPrefix(talk.history, talk'.history) /\ IsPrefix(talk.messages, talk'.messages)
    OBVIOUS
  <2> DEFINE text == turn[t].text
             messages == turn[t].messages
             history == turn[t].history
  <2>1. /\ turn[t].stage = "tell"
        /\ talk' = [exists |-> TRUE, messages |-> Append(messages, Reply(text)), history |-> Append(history, text)]
    BY DEF SaveAnswer
  <2>2. guard = t /\ text \in Messages /\ Reply(text) \in TalkItems
    BY <2>1 DEF ArchitectInv, LockKept, TurnInside, Inside, TalkItems
  <2>3. messages \in Seq(TalkItems) /\ history \in Seq(Messages)
    BY <1>0 DEF ArchitectTypeOK, TurnRecords
  <2>4. package = "present" => history = talk.history /\ IsPrefix(talk.messages, messages)
    BY <2>1 DEF ArchitectInv, ReadStands, Tellers
  <2>5. talk.history \in Seq(Messages) /\ talk.messages \in Seq(TalkItems) /\ IsPrefix(history, history)
    BY <1>0, <2>3, PrefixItself DEF ArchitectTypeOK
  <2> HIDE DEF text, messages, history
  <2>6. Append(messages, Reply(text)) \in Seq(TalkItems) /\ Append(history, text) \in Seq(Messages)
    BY <2>2, <2>3
  <2>7. package = "present" => /\ IsPrefix(talk.messages, Append(messages, Reply(text)))
                               /\ IsPrefix(talk.history, Append(history, text))
    BY <2>2, <2>3, <2>4, <2>5, PrefixAppended
  <2> QED BY <2>1, <2>2, <2>6, <2>7
<1>5. ArchitectTypeOK'
  BY <1>0, <1>1, <1>2, <1>4, TurnBecomes DEF ArchitectTypeOK
<1>6. LockKept' /\ UnbornTurns'
  BY <1>0, <1>1, <1>3, <1>2, HandlersAssumption DEF ArchitectInv, LockKept, UnbornTurns, TurnInside, Inside
<1>7. ASSUME package = "present", NEW u \in Turns PROVE ReadStands(u)'
  <2>1. CASE u = t
    BY <1>2, <1>3, <2>1 DEF ReadStands, Readers, Tellers
  <2>2. CASE u # t /\ talk' = talk
    BY <1>1, <1>3, <1>7, <2>2 DEF ArchitectInv, ReadStands
  <2>3. CASE u # t /\ talk' # talk
    <3>1. turn[u].stage \notin Tellers
      BY <1>1, <1>4, <2>3, Alone DEF TurnInside, Inside, Tellers
    <3> QED BY <1>1, <1>3, <1>7, <2>3, <3>1 DEF ArchitectInv, ReadStands
  <2> QED BY <2>1, <2>2, <2>3
<1>8. StepKeeps
  BY <1>0, <1>1, <1>4, TalkKept DEF StepKeeps
<1>9. \A u \in Turns : turn'[u].stage \notin {"new", "open", "over"} => turn'[u].text \in Messages
  BY <1>2, <1>3 DEF ArchitectInv
<1> QED BY <1>1, <1>5, <1>6, <1>7, <1>8, <1>9 DEF ArchitectInv

-----------------------------------------------------------------------------
(* Edits, deletes and stops.                                               *)

(* An edit by hand. *)
LEMMA EditKeeps ==
  ASSUME ArchitectInv, NEW e \in Editors,
         FillForm(e) \/ PostEdit(e) \/ LockEdit(e) \/ Write(e) \/ LeaveEdit(e)
  PROVE  ArchitectInv' /\ StepKeeps
<1>0. ArchitectTypeOK /\ Nobody \notin Turns \cup Editors \cup Removers
  BY NobodyAssumption DEF ArchitectInv
<1>1. UNCHANGED <<package, talk, turn, remover>> /\ package # "unborn"
  BY DEF FillForm, PostEdit, LockEdit, Write, LeaveEdit, ArchitectInv, UnbornTurns
<1>2. PICK s \in HandlerStages : /\ editor' = [editor EXCEPT ![e] = s]
                                 /\ \/ FillForm(e) /\ s = "open"
                                    \/ PostEdit(e) /\ s = "queue"
                                    \/ LockEdit(e) /\ s = "writes"
                                    \/ Write(e) /\ s = "over"
                                    \/ LeaveEdit(e) /\ s = "alone"
  BY DEF FillForm, PostEdit, LockEdit, Write, LeaveEdit, HandlerStages
<1>3. editor' \in [Editors -> HandlerStages] /\ \A f \in Editors : editor'[f] = IF f = e THEN s ELSE editor[f]
  BY <1>0, <1>2 DEF ArchitectTypeOK
<1>4. /\ guard' = guard \/ (guard = Nobody /\ guard' = e /\ s = "writes") \/ (guard = e /\ guard' = Nobody)
      /\ s = "writes" => guard' = e
  BY <1>2 DEF FillForm, PostEdit, LockEdit, Write, LeaveEdit, Waits, ArchitectInv, LockKept
<1>5. /\ hand' \subseteq Turns \cup Editors /\ slipped' \subseteq Turns \cup Editors
      /\ form' \in [Turns \cup Editors -> SUBSET (Turns \cup Editors)]
      /\ slipped \subseteq slipped'
      /\ hand' \ slipped' \subseteq hand \ slipped \/ (editor[e] = "writes" /\ ~ Unlocked)
      /\ hand \ Unseen \subseteq hand'
  <2>1. CASE hand' = hand /\ slipped' = slipped
    BY <1>0, <2>1 DEF FillForm, PostEdit, LockEdit, Write, LeaveEdit, ArchitectTypeOK
  <2>2. CASE Write(e)
    <3>1. /\ hand' \in {hand} \cup Merged(form[e] \cup {e}) /\ editor[e] \in {"writes", "alone"}
          /\ slipped' = IF editor[e] = "writes" /\ ~ Unlocked THEN slipped ELSE slipped \cup (hand' \ hand)
          /\ form' = [form EXCEPT ![e] = {}]
      BY <2>2 DEF Write, Slips
    <3>2. form[e] \cup {e} \subseteq Turns \cup Editors /\ hand \subseteq Turns \cup Editors
      BY <1>0 DEF ArchitectTypeOK
    <3>3. hand' \subseteq Turns \cup Editors /\ (hand' = hand \/ form[e] \subseteq hand')
      BY <1>0, <3>1, <3>2, MergedHolds
    <3>4. WritesForm(e)
      BY <1>0, <2>2, <3>1 DEF WritesForm, Write, ArchitectTypeOK
    <3>5. hand \ Unseen \subseteq hand'
      BY <3>3, <3>4 DEF Unseen
    <3> QED BY <1>0, <3>1, <3>3, <3>5 DEF ArchitectTypeOK
  <2> QED BY <2>1, <2>2 DEF FillForm, PostEdit, LockEdit, LeaveEdit
<1>6. ArchitectTypeOK'
  BY <1>0, <1>1, <1>3, <1>4, <1>5 DEF ArchitectTypeOK
<1>7. LockKept' /\ UnbornTurns'
  BY <1>0, <1>1, <1>3, <1>4, HandlersAssumption DEF ArchitectInv, LockKept, UnbornTurns, TurnInside, Inside
<1>8. ASSUME package = "present", NEW u \in Turns PROVE ReadStands(u)'
  <2>1. CASE hand' \ slipped' \subseteq hand \ slipped
    BY <1>1, <1>8, <2>1 DEF ArchitectInv, ReadStands
  <2>2. CASE editor[e] = "writes" /\ ~ Unlocked
    <3>1. guard = e /\ turn[u].stage # "made"
      BY <2>2 DEF ArchitectInv, LockKept, Unlocked
    <3>2. turn[u].stage \notin Inside
      BY <3>1, HandlersAssumption DEF ArchitectInv, LockKept, TurnInside
    <3> QED BY <1>1, <3>1, <3>2 DEF ReadStands, Readers, Tellers, Inside
  <2> QED BY <1>5, <2>1, <2>2
<1>9. StepKeeps
  BY <1>0, <1>1, <1>5, TalkKept DEF StepKeeps
<1> QED BY <1>1, <1>6, <1>7, <1>8, <1>9 DEF ArchitectInv

(* A delete. *)
LEMMA DeleteKeeps ==
  ASSUME ArchitectInv, NEW d \in Removers,
         PostDelete(d) \/ LockDelete(d) \/ RemovePackage(d) \/ RemoveTalk(d) \/ LeaveDelete(d)
  PROVE  ArchitectInv' /\ StepKeeps
<1>0. ArchitectTypeOK /\ Nobody \notin Turns \cup Editors \cup Removers
  BY NobodyAssumption DEF ArchitectInv
<1>1. /\ UNCHANGED <<turn, editor, form, slipped>> /\ package # "unborn"
      /\ package' = package \/ package' = "deleted"
      /\ hand' = hand \/ (hand' = {} /\ package' = "deleted")
      /\ talk' = talk \/ (talk' = NoTalk /\ package' = "deleted")
  BY DEF PostDelete, LockDelete, RemovePackage, RemoveTalk, LeaveDelete, ArchitectInv, UnbornTurns
<1>2. PICK s \in HandlerStages : /\ remover' = [remover EXCEPT ![d] = s]
                                 /\ s \in {"row", "aloneRow"} => package' = "deleted"
                                 /\ s \in {"writes", "row"} => guard' = d
                                 /\ s = "writes" \/ guard' = guard \/ (guard = d /\ guard' = Nobody)
                                 /\ s = "writes" => guard = Nobody
  <2>1. CASE PostDelete(d)
    BY <2>1 DEF PostDelete, HandlerStages
  <2>2. CASE LockDelete(d)
    BY <2>2 DEF LockDelete, HandlerStages, Waits
  <2>3. CASE RemovePackage(d)
    <3> DEFINE s == IF package # "present" THEN "over" ELSE IF remover[d] = "writes" THEN "row" ELSE "aloneRow"
    <3>1. remover' = [remover EXCEPT ![d] = s] /\ s \in HandlerStages
      BY <1>0, <2>3 DEF RemovePackage, HandlerStages, ArchitectTypeOK
    <3>2. /\ s \in {"row", "aloneRow"} => package' = "deleted"
          /\ s \in {"writes", "row"} => guard' = d
          /\ s = "writes" \/ guard' = guard \/ (guard = d /\ guard' = Nobody)
          /\ s # "writes"
      BY <2>3 DEF RemovePackage, ArchitectInv, LockKept
    <3> QED BY <3>1, <3>2
  <2>4. CASE RemoveTalk(d)
    BY <2>4 DEF RemoveTalk, HandlerStages, ArchitectInv, LockKept
  <2>5. CASE LeaveDelete(d)
    <3> DEFINE s == IF remover[d] = "writes" THEN "alone" ELSE "aloneRow"
    <3>1. remover' = [remover EXCEPT ![d] = s] /\ s \in HandlerStages
      BY <1>0, <2>5 DEF LeaveDelete, HandlerStages, ArchitectTypeOK
    <3>2. /\ s \in {"row", "aloneRow"} => package' = "deleted"
          /\ guard = d /\ guard' = Nobody /\ s \notin {"writes", "row"}
      BY <2>5 DEF LeaveDelete, ArchitectInv, LockKept
    <3> QED BY <3>1, <3>2
  <2> QED BY <2>1, <2>2, <2>3, <2>4, <2>5
<1>3. remover' \in [Removers -> HandlerStages] /\ \A f \in Removers : remover'[f] = IF f = d THEN s ELSE remover[f]
  BY <1>0, <1>2 DEF ArchitectTypeOK
<1>4. NoTalk \in [exists : BOOLEAN, messages : Seq(TalkItems), history : Seq(Messages)]
  <2>1. << >> \in Seq(TalkItems) /\ << >> \in Seq(Messages) /\ FALSE \in BOOLEAN
    OBVIOUS
  <2> QED BY <2>1 DEF NoTalk
<1>5. ArchitectTypeOK'
  BY <1>0, <1>1, <1>2, <1>3, <1>4 DEF ArchitectTypeOK
<1>6. LockKept' /\ UnbornTurns'
  BY <1>0, <1>1, <1>2, <1>3, HandlersAssumption DEF ArchitectInv, LockKept, UnbornTurns, TurnInside, Inside
<1>7. \A f \in Removers : remover'[f] \in {"row", "aloneRow"} => package' = "deleted"
  BY <1>1, <1>2, <1>3 DEF ArchitectInv
<1>8. ASSUME package' = "present", NEW u \in Turns PROVE ReadStands(u)'
  BY <1>1, <1>8 DEF ArchitectInv, ReadStands
<1>9. StepKeeps
  BY <1>0, <1>1, TalkKept DEF StepKeeps
<1>10. \A u \in Turns : turn'[u].stage \notin {"new", "open", "over"} => turn'[u].text \in Messages
  BY <1>1 DEF ArchitectInv
<1> QED BY <1>5, <1>6, <1>7, <1>8, <1>9, <1>10 DEF ArchitectInv

(* The server stops. *)
LEMMA StopKeeps ==
  ASSUME ArchitectInv, ServerStops
  PROVE  ArchitectInv' /\ StepKeeps
<1>0. ArchitectTypeOK
  BY DEF ArchitectInv
<1> DEFINE over == [NewTurn EXCEPT !.stage = "over"]
<1>1. NewTurn \in TurnRecords /\ over \in TurnRecords /\ NewTurn.stage = "new" /\ over.stage = "over"
  <2>1. /\ {"new", "over"} \subseteq TurnStages /\ {} \in SUBSET (Turns \cup Editors)
        /\ << >> \in Seq(TalkItems) /\ << >> \in Seq(Messages) /\ Nobody \in Messages \cup {Nobody}
    BY DEF TurnStages
  <2> QED BY <2>1 DEF NewTurn, TurnRecords
<1>2. /\ UNCHANGED <<package, hand, talk, form, slipped>> /\ guard' = Nobody
      /\ turn' = [t \in Turns |-> IF turn[t].stage \in {"new", "open"} THEN turn[t] ELSE over]
      /\ editor' = [e \in Editors |-> IF editor[e] \in {"new", "open"} THEN editor[e] ELSE "over"]
      /\ remover' = [d \in Removers |-> IF remover[d] = "new" THEN "new" ELSE "over"]
  BY DEF ServerStops
<1> HIDE DEF over
<1>3. \A t \in Turns : turn'[t] \in TurnRecords /\ turn'[t].stage \in {"new", "open", "over"}
  BY <1>0, <1>1, <1>2 DEF ArchitectTypeOK
<1>4. /\ \A e \in Editors : editor'[e] \in {"new", "open", "over"}
      /\ \A d \in Removers : remover'[d] \in {"new", "over"}
  BY <1>2
<1>5. ArchitectTypeOK'
  <2>1. turn' \in [Turns -> TurnRecords]
    BY <1>0, <1>1, <1>2 DEF ArchitectTypeOK
  <2>2. editor' \in [Editors -> HandlerStages] /\ remover' \in [Removers -> HandlerStages]
    BY <1>2, <1>4 DEF HandlerStages
  <2> QED BY <1>0, <1>2, <2>1, <2>2 DEF ArchitectTypeOK
<1>6. LockKept'
  BY <1>2, <1>3, <1>4 DEF LockKept, TurnInside, Inside
<1>9. UnbornTurns'
  BY <1>1, <1>2 DEF ArchitectInv, UnbornTurns
<1>7. \A u \in Turns : ReadStands(u)'
  BY <1>3 DEF ReadStands, Readers, Tellers
<1>8. StepKeeps
  BY <1>0, <1>2, TalkKept DEF StepKeeps
<1> QED BY <1>3, <1>4, <1>5, <1>6, <1>7, <1>8, <1>9 DEF ArchitectInv

-----------------------------------------------------------------------------
(* Together.                                                               *)

(* Every step keeps the invariant, the content and the conversation. *)
LEMMA ArchitectStepKeeps ==
  ASSUME ArchitectInv, [ArchitectNext]_architectVars
  PROVE  ArchitectInv' /\ StepKeeps
<1>1. ASSUME NEW t \in Turns, TurnStep(t) PROVE ArchitectInv' /\ StepKeeps
  BY <1>1, ArrivingKeeps, ContentKeeps, AskingKeeps, SavingKeeps, EndingKeeps DEF TurnStep
<1>2. ASSUME NEW e \in Editors, FillForm(e) \/ PostEdit(e) \/ LockEdit(e) \/ Write(e) \/ LeaveEdit(e)
      PROVE  ArchitectInv' /\ StepKeeps
  BY <1>2, EditKeeps
<1>3. ASSUME NEW d \in Removers,
             PostDelete(d) \/ LockDelete(d) \/ RemovePackage(d) \/ RemoveTalk(d) \/ LeaveDelete(d)
      PROVE  ArchitectInv' /\ StepKeeps
  BY <1>3, DeleteKeeps
<1>4. CASE ServerStops
  BY <1>4, StopKeeps
<1>5. CASE UNCHANGED architectVars
  <2>1. ArchitectInv'
    BY <1>5 DEF architectVars, ArchitectInv, ArchitectTypeOK, LockKept, UnbornTurns, ReadStands, TurnInside
  <2> QED BY <1>5, <2>1, TalkKept DEF architectVars, ArchitectInv, StepKeeps
<1> QED BY <1>1, <1>2, <1>3, <1>4, <1>5 DEF ArchitectNext

(* A package not yet made, or one that nobody has talked about. *)
LEMMA ArchitectStarts == ArchitectInit => ArchitectInv
<1> SUFFICES ASSUME ArchitectInit PROVE ArchitectInv
  OBVIOUS
<1>1. NewTurn \in TurnRecords /\ NewTurn.stage = "new"
  <2>1. /\ "new" \in TurnStages /\ {} \in SUBSET (Turns \cup Editors)
        /\ << >> \in Seq(TalkItems) /\ << >> \in Seq(Messages) /\ Nobody \in Messages \cup {Nobody}
    BY DEF TurnStages
  <2> QED BY <2>1 DEF NewTurn, TurnRecords
<1>2. NoTalk \in [exists : BOOLEAN, messages : Seq(TalkItems), history : Seq(Messages)]
  <2>1. << >> \in Seq(TalkItems) /\ << >> \in Seq(Messages) /\ FALSE \in BOOLEAN
    OBVIOUS
  <2> QED BY <2>1 DEF NoTalk
<1>3. /\ \A t \in Turns : turn[t].stage = "new"
      /\ \A e \in Editors : editor[e] = "new"
      /\ \A d \in Removers : remover[d] = "new"
  BY <1>1 DEF ArchitectInit
<1>4. ArchitectTypeOK
  BY <1>1, <1>2 DEF ArchitectInit, ArchitectTypeOK, HandlerStages
<1> QED BY <1>3, <1>4 DEF ArchitectInit, ArchitectInv, LockKept, UnbornTurns, TurnInside, Inside, ReadStands,
    Readers, Tellers

(* Turns, edits and deletes of a package keep out of each other's way. *)
THEOREM ArchitectHolds == ArchitectSpec => []ArchitectInv
<1>1. ArchitectInv /\ [ArchitectNext]_architectVars => ArchitectInv'
  BY ArchitectStepKeeps
<1> QED BY <1>1, ArchitectStarts, PTL DEF ArchitectSpec

(* "so manual field edits are never lost": but for a form that was opened  *)
(* before it, nothing writes over an edit, over the exchange of another    *)
(* turn or over a message that was shown.                                  *)
THEOREM ArchitectAlwaysKeeps == ArchitectSpec => ArchitectKeeps
<1>1. ArchitectInv /\ [ArchitectNext]_architectVars =>
        [package = "present" /\ package' = "present" =>
           /\ hand \ (slipped \cup Unseen) \subseteq hand'
           /\ IsPrefix(talk.history, talk'.history)
           /\ IsPrefix(talk.messages, talk'.messages)]_architectVars
  BY ArchitectStepKeeps DEF StepKeeps
<1> QED BY <1>1, ArchitectHolds, PTL DEF ArchitectSpec, ArchitectKeeps

(* The exchange of a package and its turns keep their type: a message is   *)
(* of the user or of the model, and the lock is held by one who runs.      *)
THEOREM ArchitectStaysTyped == ArchitectSpec => []ArchitectTypeOK
<1>1. ArchitectInv => ArchitectTypeOK
  BY DEF ArchitectInv
<1> QED BY <1>1, ArchitectHolds, PTL

=============================================================================
