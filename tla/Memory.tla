------------------------------- MODULE Memory -------------------------------
(***************************************************************************)
(* The memory of a world: units that tell facts to an audience.  Beats     *)
(* leave a unit with every witness, the tools of the game master keep      *)
(* records and notes, a rumour has a unit that follows it, and at the end  *)
(* of a turn units of one kind are taken together into a crystal.          *)
(*                                                                         *)
(* A text is the set of facts it tells.  Texts that a model writes are     *)
(* taken to tell what they were made from.  Left out: search and its       *)
(* scores, details, tags and places; the turn that fails, whose memory is  *)
(* dropped with its session.  Bounds: Budgets; a crystal asked for takes   *)
(* at most two sources, a note is about one record at most, a generated    *)
(* place has both of its notes, and rumours have numbers of their own (the *)
(* debug panel's come from another counter and may meet those of beats).   *)
(***************************************************************************)
EXTENDS Integers, Sequences, FiniteSets

CONSTANTS
  Folk,          \* the characters, and the scope "actor:<id>" of each
  Holders,       \* bound: those that records and notes are about
  Spots,         \* place scopes
  Paths,         \* route scopes
  Topics,        \* ids of state records
  SeedTopics,    \* those of World.state_records, with which the story begins
  Goals,         \* those of kind goal
  SourceCount,   \* SOURCE_COUNT
  MaxBatches,    \* MAX_BATCHES_PER_TURN
  RumorsCap,     \* RUMORS_CAP
  Budgets        \* bound: how many tool calls, beats, passages of time and loads there may be

ASSUME MemoryAssumption ==
  /\ Holders \subseteq Folk
  /\ SeedTopics \subseteq Topics /\ Goals \subseteq Topics
  /\ SourceCount \in Nat \ {0} /\ MaxBatches \in Nat /\ RumorsCap \in Nat \ {0}
  /\ {"gm", "player", "public", "gm_private"} \cap (Folk \cup Spots \cup Paths) = {}

VARIABLES
  units,    \* MemoryStore.units
  flat,     \* World.state_records: the placement of each seed record
  rumors,   \* World.rumors, oldest first
  written,  \* versions of each record's text, 0 before its first
  moment,   \* where the turn is: at play, its beats, its crystals, or a load and its seeds to come
  counts,   \* insertions so far, and what is used of each bound
  allowed,  \* history: <<fact, scope>> such that the fact was ever given to the scope
  owed,     \* history: those it may still count on
  erased    \* history: the rumours whose units a reset took, not written anew since

memoryVars == <<flat, units, rumors, written, moment, counts, allowed, owed, erased>>

Scopes == Folk \cup Spots \cup Paths \cup {"player", "public"}

\* MemoryInjectionState::is_default_visible
DefaultVisible(u) == u.state \in {"hot", "warm"}

(* MemoryUnit::is_visible_to: whom the unit may be told.                   *)
Audience(owner, vis) == {"gm"} \cup IF owner = "gm_private" THEN {} ELSE {owner} \cup vis
Hears(u) == Audience(u.owner, u.vis)

(* StateRecord: scope, owner and participants, which its unit carries in   *)
(* its metadata.  What is kept to an owner or shared needs one.            *)
Placings(holders, shares) ==
  {p \in [scope : {"public", "gm", "owner", "participants"}, holder : holders, parts : shares] :
     p.scope \in {"owner", "participants"} => p.holder # "none"}
Public == [scope |-> "public", holder |-> "none", parts |-> {}]
Placements == Placings(Holders \cup {"none"}, {{}})

Unit(owner, vis, truth, facts, maker) ==
  [tier |-> 1, owner |-> owner, vis |-> vis, truth |-> truth, facts |-> facts, records |-> {},
   state |-> "hot", consumed |-> FALSE, place |-> Public, maker |-> maker]

Given(u) == u.facts \X Hears(u)

-----------------------------------------------------------------------------
(* MemoryStore.                                                            *)

Put(us, i, u) == [j \in DOMAIN us \cup {i} |-> IF j = i THEN u ELSE us[j]]
PutAll(us, new) == [j \in DOMAIN us \cup DOMAIN new |-> IF j \in DOMAIN new THEN new[j] ELSE us[j]]

(* An id is a kind, a number and a role.  Units are kept in the order of   *)
(* their ids: "legacy_state_record_", "memory_" and a hash, "rumor:",      *)
(* "world_state_".  A number below zero is a hash below all before it.     *)
LegacyId(r) == <<"legacy", 0, r>>
StateId(r) == <<"state", 0, r>>
RumorId(q) == <<"rumor", q, "rumor">>
MemoryId(n, role) == <<"memory", n, role>>

\* The order matters only among units that carry records.
HashSigns(records) == IF records = {} THEN {1} ELSE {1, -1}

Rank(i) == CASE i[1] = "legacy" -> 1 [] i[1] = "memory" -> 2 [] i[1] = "rumor" -> 3 [] OTHER -> 4
Precedes(i, j) == Rank(i) < Rank(j) \/ (Rank(i) = Rank(j) /\ i[2] < j[2])
Firsts(ids) == {i \in ids : \A j \in ids : ~ Precedes(j, i)}

\* mark_consumed: it makes any state cold, archived too.
MarkConsumed(us, sources) ==
  [i \in DOMAIN us |-> IF i \in sources THEN [us[i] EXCEPT !.state = "cold", !.consumed = TRUE] ELSE us[i]]

FactsOf(us, ids) == UNION {us[i].facts : i \in ids}
RecordsOf(us, ids) == UNION {us[i].records : i \in ids}

\* Mutant of BatchKey: units are grouped by owner.
BatchKeyOwner(u) == <<u.tier, u.owner, u.truth>>

\* semantic_batch_key
BatchKey(u) == <<u.tier, u.owner, u.truth, u.vis>>

\* What next_semantic_consolidation_batch counts.
Loose(us, tier) == {i \in DOMAIN us : us[i].tier = tier /\ DefaultVisible(us[i]) /\ ~ us[i].consumed}

(* next_semantic_consolidation_batch: of the lowest tier with a full       *)
(* group, any full group and any of its units; the code takes the first    *)
(* by name and the oldest.                                                 *)
Groups(us, tier) ==
  UNION {{ids \in SUBSET {j \in Loose(us, tier) : BatchKey(us[j]) = key} : Cardinality(ids) = SourceCount} :
           key \in {BatchKey(us[i]) : i \in Loose(us, tier)}}

Batches(us) == UNION {Groups(us, t) : t \in {s \in 1..3 : \A lower \in 1 .. s - 1 : Groups(us, lower) = {}}}

(* semantic_crystal_unit: the union of what its sources carry.             *)
CrystalUnit(us, ids) ==
  LET first == us[CHOOSE i \in ids : TRUE]
  IN  [Unit(first.owner, UNION {us[i].vis : i \in ids}, first.truth, FactsOf(us, ids), "crystal")
         EXCEPT !.tier = first.tier + 1, !.records = RecordsOf(us, ids)]

-----------------------------------------------------------------------------
(* State records.                                                          *)

Fact(r, version) == <<"record", version, r>>
FactsAbout(r) == {Fact(r, v) : v \in 1 .. written[r]}

Carriers(us, r) == {i \in DOMAIN us : r \in us[i].records}

\* is_world_state_memory: such a unit is the record of that id.
IsWorldState(u) == u.records # {} /\ u.maker \in {"migration", "world_state"}
RecordUnits(us, r) == {i \in Carriers(us, r) : IsWorldState(us[i])}
\* record_by_id: the first one.
RecordOf(us, r) == Firsts(RecordUnits(us, r))
Active(u) == u.state # "archived"

\* legacy_state_record_owner_scope; which of the participants is the first one is not modelled.
OwnerScope(p) ==
  CASE p.scope = "public" -> "public"
    [] p.scope = "gm" -> "gm_private"
    [] p.scope = "participants" /\ p.parts # {} -> CHOOSE n \in p.parts : TRUE
    [] OTHER -> p.holder

\* legacy_state_record_visibility_scopes: a shared record is one with the player.
VisibilityScopes(p) ==
  CASE p.scope = "gm" -> {}
    [] p.scope = "participants" -> p.parts \cup {p.holder, "player"}
    [] OTHER -> {OwnerScope(p)}

RecordUnit(r, p, facts, maker) ==
  [Unit(OwnerScope(p), VisibilityScopes(p), "actual", facts, maker) EXCEPT !.records = {r}, !.place = p]

\* Whom a text that is placed so is given to.
ToldIn(p) == Audience(OwnerScope(p), VisibilityScopes(p))

Archive(us, ids) == [i \in DOMAIN us |-> IF i \in ids THEN [us[i] EXCEPT !.state = "archived"] ELSE us[i]]

(* upsert_state_record_memory: the first unit that carries the record is   *)
(* the one to write, whatever else it tells.                               *)
Target(us, r, maker) ==
  IF Carriers(us, r) # {} THEN Firsts(Carriers(us, r))
  ELSE {IF maker = "migration" THEN LegacyId(r) ELSE StateId(r)}

\* Mutant of Upserted: it writes the record and keeps its unit cold.
UpsertedCold(us, r, p, facts, maker) ==
  LET i == CHOOSE i \in Target(us, r, maker) : TRUE
  IN  Put(us, i, [RecordUnit(r, p, facts, maker) EXCEPT !.state = IF i \in DOMAIN us THEN us[i].state ELSE "hot"])

Upserted(us, r, p, facts, maker) ==
  Put(us, CHOOSE i \in Target(us, r, maker) : TRUE, RecordUnit(r, p, facts, maker))

\* Of an inactive record.
UpsertedInactive(us, r) == Archive(us, Firsts(Carriers(us, r)))

(* What other records and notes lose when these units are rewritten or     *)
(* archived for a record: they told it in one crystal with the record.     *)
Entangled(us, ids, r) == {f \in FactsOf(us, ids \cap DOMAIN us) : f \notin FactsAbout(r)}

Without(pairs, facts) == {p \in pairs : p[1] \notin facts}

\* migrate_legacy_state_records_to_memory
Migrated ==
  [i \in {LegacyId(r) : r \in SeedTopics} |-> RecordUnit(i[3], flat[i[3]], {Fact(i[3], 1)}, "migration")]

\* At play, or with these seeds still to be read by a load.
Reading(left) == [at |-> IF left = {} THEN "play" ELSE "load", batches |-> 0, seeds |-> left]

MemoryInit ==
  /\ flat \in [SeedTopics -> Placements]
  /\ units = Migrated
  /\ allowed = UNION {Given(units[i]) : i \in DOMAIN units}
  /\ owed = allowed
  /\ rumors = << >>
  /\ written = [r \in Topics |-> IF r \in SeedTopics THEN 1 ELSE 0]
  /\ moment = Reading({})
  /\ erased = {}
  /\ counts = [inserts |-> 0, tools |-> 0, beats |-> 0, walks |-> 0, loads |-> 0]

Step(kind) == [counts EXCEPT ![kind] = @ + 1]
Affordable(kind) == \E b \in Budgets : \A k \in DOMAIN b : Step(kind)[k] <= b[k]
Insertion(kind) == [counts EXCEPT ![kind] = @ + 1, !.inserts = @ + 1]

\* Tools and the debug panel act while no turn is being closed.
ToolCall == moment.at = "play" /\ Affordable("tools")

(* apply_state_record_add: a goal has an owner and may replace the others  *)
(* of its owner.  The id is one that no record has; a reset may have taken *)
(* the record that had it, and notes that name it may still be there.      *)
AddRecord(r, p, replaced) ==
  /\ ToolCall /\ r \notin SeedTopics /\ RecordUnits(units, r) = {}
  /\ r \in Goals => p.holder # "none"
  /\ replaced # {} => /\ r \in Goals
                      /\ replaced = {g \in Goals : \E i \in RecordUnits(units, g) :
                                                     Active(units[i]) /\ units[i].place.holder = p.holder}
  /\ LET hit == UNION {Carriers(units, g) : g \in replaced}
         new == {Fact(r, written[r] + 1)}
         given == new \X ToldIn(p)
         lost == UNION {FactsAbout(g) \cup Entangled(units, Carriers(units, g), g) : g \in replaced}
     IN  /\ units' = Upserted(Archive(units, hit), r, p, new, "world_state")
         /\ allowed' = allowed \cup given
         /\ owed' = Without(owed, lost \cup FactsAbout(r) \cup Entangled(units, Target(units, r, "world_state"), r))
                      \cup given
  /\ written' = [written EXCEPT ![r] = @ + 1]
  /\ counts' = Step("tools")
  /\ UNCHANGED <<flat, rumors, moment, erased>>

(* apply_state_record_add of a text that is there: its participants grow.  *)
MergeRecord(r, who) ==
  /\ ToolCall /\ r \notin Goals
  /\ \E i \in RecordOf(units, r) :
       LET u == units[i]
           p == [u.place EXCEPT !.parts = @ \cup {who}]
           hit == Target(units, r, "world_state")
           given == u.facts \X ToldIn(p)
       IN  /\ Active(u) /\ who # u.place.holder /\ who \notin u.place.parts
           /\ units' = Upserted(units, r, p, u.facts, "world_state")
           /\ allowed' = allowed \cup given
           /\ owed' = Without(owed, Entangled(units, hit, r)) \cup given
  /\ counts' = Step("tools")
  /\ UNCHANGED <<flat, rumors, written, moment, erased>>

\* What an update may leave or set: any scope, another owner, no participants.
Revised(p) == Placings({p.holder} \cup Holders, {{}, p.parts})

(* apply_state_record_update: another text or another placement.           *)
UpdateRecord(r, p, reviving) ==
  /\ ToolCall
  /\ \E i \in RecordOf(units, r) : Active(units[i]) # reviving
  /\ LET new == {Fact(r, written[r] + 1)}
         hit == Target(units, r, "world_state")
         given == new \X ToldIn(p)
     IN  /\ units' = Upserted(units, r, p, new, "world_state")
         /\ allowed' = allowed \cup given
         /\ owed' = Without(owed, FactsAbout(r) \cup Entangled(units, hit, r)) \cup given
  /\ written' = [written EXCEPT ![r] = @ + 1]
  /\ counts' = Step("tools")
  /\ UNCHANGED <<flat, rumors, moment, erased>>

\* apply_state_record_update with "active": false, or of a record that is not active.
DeactivateRecord(r) ==
  /\ ToolCall /\ RecordOf(units, r) # {}
  /\ units' = UpsertedInactive(units, r)
  /\ owed' = Without(owed, FactsAbout(r) \cup Entangled(units, Firsts(Carriers(units, r)), r))
  /\ counts' = Step("tools")
  /\ UNCHANGED <<flat, rumors, written, moment, allowed, erased>>

(* apply_state_record_item, op delete: archive_state_record_memory reaches *)
(* every unit that carries the record.                                     *)
DeleteRecord(r) ==
  /\ ToolCall /\ Carriers(units, r) # {}
  /\ units' = Archive(units, Carriers(units, r))
  /\ owed' = Without(owed, FactsAbout(r) \cup Entangled(units, Carriers(units, r), r))
  /\ counts' = Step("tools")
  /\ UNCHANGED <<flat, rumors, written, moment, allowed, erased>>

(* world_from_payload: migrate_legacy_state_records_to_memory writes the   *)
(* first text of every seed record over its unit, whatever it has become:  *)
(* one after another, and nothing comes between.                           *)
LoadSave ==
  /\ moment.at = "play" /\ Affordable("loads")
  /\ moment' = Reading(SeedTopics)
  /\ counts' = Step("loads")
  /\ UNCHANGED <<flat, units, rumors, written, allowed, owed, erased>>

LoadSeed(r) ==
  /\ r \in moment.seeds
  /\ LET new == {Fact(r, 1)}
         hit == Target(units, r, "migration")
     IN  /\ units' = Upserted(units, r, flat[r], new, "migration")
         /\ owed' = Without(owed, FactsAbout(r) \cup Entangled(units, hit, r)) \cup (owed \cap (new \X ToldIn(flat[r])))
  /\ moment' = Reading(moment.seeds \ {r})
  /\ UNCHANGED <<flat, rumors, written, counts, allowed, erased>>

-----------------------------------------------------------------------------
(* Notes.                                                                  *)

(* note_memory: the game master chooses the audience, and may name records *)
(* the note is about.                                                      *)
NoteMemory(p, about) ==
  /\ ToolCall
  /\ \A r \in about : written[r] > 0
  /\ \E sign \in HashSigns(about) :
       LET n == counts.inserts + 1
           u == [Unit(OwnerScope(p), VisibilityScopes(p), "actual", {<<"note", n, "gm">>}, "gm_tool")
                   EXCEPT !.records = about]
       IN  /\ units' = Put(units, MemoryId(sign * n, "note"), u)
           /\ allowed' = allowed \cup Given(u)
           /\ owed' = owed \cup Given(u)
  /\ counts' = Insertion("tools")
  /\ UNCHANGED <<flat, rumors, written, moment, erased>>

(* npc_note_memory: the note of a character is its own, whatever privacy   *)
(* it asks for.                                                            *)
NpcNoteMemory(n) ==
  /\ ToolCall
  /\ LET u == Unit(n, {n}, "belief", {<<"note", counts.inserts + 1, n>>}, "npc_tool")
     IN  /\ units' = Put(units, MemoryId(counts.inserts + 1, "note"), u)
         /\ allowed' = allowed \cup Given(u)
         /\ owed' = owed \cup Given(u)
  /\ counts' = Insertion("tools")
  /\ UNCHANGED <<flat, rumors, written, moment, erased>>

(* generate_location: what there is to see, and what only the game master  *)
(* is to know.                                                             *)
GeneratedPlace(spot, seen) ==
  /\ ToolCall
  /\ LET n == counts.inserts + 1
         new == [i \in {MemoryId(n, "note"), MemoryId(n, "hidden")} |->
                   IF i[3] = "note"
                   THEN Unit(spot, {spot} \cup seen, "actual", {<<"place", n, "note">>}, "location_generator")
                   ELSE [Unit("gm_private", {}, "actual", {<<"place", n, "hidden">>}, "location_generator")
                           EXCEPT !.state = "warm"]]
         given == UNION {Given(new[i]) : i \in DOMAIN new}
     IN  /\ units' = PutAll(units, new)
         /\ allowed' = allowed \cup given
         /\ owed' = owed \cup given
  /\ counts' = Insertion("tools")
  /\ UNCHANGED <<flat, rumors, written, moment, erased>>

(* consolidate_memory and validate_consolidation_sources.  A crystal       *)
(* carries the records the game master names, or none.                     *)
Alike(us, ids) ==
  \A i, j \in ids : us[i].owner = us[j].owner /\ us[i].truth = us[j].truth /\ us[i].vis = us[j].vis

ConsolidateMemory(ids, tier, naming) ==
  /\ ToolCall
  /\ ids # {} /\ Alike(units, ids)
  /\ naming => RecordsOf(units, ids) # {}
  /\ \E sign \in HashSigns(IF naming THEN RecordsOf(units, ids) ELSE {}) :
       LET n == MemoryId(sign * (counts.inserts + 1), "crystal")
           first == units[CHOOSE i \in ids : TRUE]
           u == [Unit(first.owner, first.vis, first.truth, FactsOf(units, ids), "gm_tool")
                   EXCEPT !.tier = tier, !.records = IF naming THEN RecordsOf(units, ids) ELSE {}]
       IN  units' = MarkConsumed(Put(units, n, u), ids)
  /\ counts' = Insertion("tools")
  /\ UNCHANGED <<flat, rumors, written, moment, allowed, owed, erased>>

-----------------------------------------------------------------------------
(* Beats.                                                                  *)

(* record_event_memory: a unit for every witness, one for the room if all  *)
(* who are there are witnesses, and the player's own.                      *)
Observed(n, there, heard, spot) ==
  LET said == {<<"beat", n, "said">>}
  IN  [i \in {MemoryId(n, w) : w \in heard \cap Folk}
             \cup (IF there \cup {"player"} \subseteq heard THEN {MemoryId(n, "room")} ELSE {})
             \cup (IF "player" \in heard THEN {MemoryId(n, "player")} ELSE {}) |->
         CASE i[3] = "room" -> Unit(spot, {spot}, "actual", said, "room_observer")
           [] i[3] = "player" -> Unit("player", {"player"}, "actual", said, "player_observer")
           [] OTHER -> Unit(i[3], {}, "actual", said, "scene_observer")]

(* record_player_for, record_public: the player's action.                  *)
PlayerActs(there, heard, spot) ==
  /\ moment.at = "play" /\ Affordable("beats")
  /\ LET new == Observed(counts.inserts + 1, there, heard \cup {"player"}, spot)
         given == UNION {Given(new[i]) : i \in DOMAIN new}
     IN  /\ units' = PutAll(units, new)
         /\ allowed' = allowed \cup given /\ owed' = owed \cup given
  /\ counts' = Insertion("beats")
  /\ UNCHANGED <<flat, rumors, written, moment, erased>>

(* memory_unit_for_rumor: the unit is made from the rumour alone.          *)
RumorUnit(x) ==
  [Unit(x.owner, x.known, IF x.confirmed THEN "claim" ELSE "rumor", {<<"rumor", x.seq, "text">>}, "rumor_graph")
     EXCEPT !.state = IF x.alive THEN "hot" ELSE "cold"]

\* sync_rumor_memory
RumorSynced(us, x) == Put(us, RumorId(x.seq), RumorUnit(x))

RumorsIn(xs) == {xs[k] : k \in DOMAIN xs}
LiveIds(xs) == {RumorId(x.seq) : x \in RumorsIn(xs)}
TextOf(x) == <<"rumor", x.seq, "text">>

\* truncate_tail
Capped(xs) == SubSeq(xs, IF Len(xs) > RumorsCap THEN Len(xs) - RumorsCap + 1 ELSE 1, Len(xs))

\* Mutant of Pruned: the units of the rumours that were dropped stay.
PrunedNot(us, xs) == us

\* prune_rumor_memory_to_live_ids
Pruned(us, xs) ==
  [i \in {j \in DOMAIN us : us[j].maker = "rumor_graph" => j \in LiveIds(xs)} |-> us[i]]

(* record_npc_claims: what the character relied on, for those who heard.   *)
Claimed(n, speaker, heard) ==
  [i \in {MemoryId(n, "claim")} |->
     Unit(speaker, {speaker} \cup heard, "claim", {<<"beat", n, "claim">>}, "npc_claim")]

(* record_rumor: a speech is known to those who heard it, and in the place *)
(* if all who are there heard it and somebody else than the two.           *)
RumorOf(n, speaker, there, heard, spot) ==
  LET audible == there \cup {"player"} \subseteq heard
                   /\ (Cardinality(there) > 1 \/ Cardinality(heard) > 2)
  IN  [seq |-> n, owner |-> IF audible THEN spot ELSE speaker, alive |-> TRUE, confirmed |-> FALSE,
       known |-> {speaker} \cup heard \cup IF audible THEN {spot} ELSE {}]

(* commit_turn_without_memory_consolidation, one draft of its loop, which  *)
(* nothing interrupts: the beat, its claims, its rumour.                   *)
CommitBeat(speaker, there, heard, spot, claims, speech) ==
  /\ moment.at \in {"play", "beats"} /\ Affordable("beats")
  /\ LET n == counts.inserts + 1
         new == PutAll(Observed(n, there, heard, spot),
                       IF claims THEN Claimed(n, speaker, heard) ELSE << >>)
         x == RumorOf(n, speaker, there, heard, spot)
         live == IF speech THEN Capped(Append(rumors, x)) ELSE rumors
         us == PutAll(units, new)
         given == (UNION {Given(new[i]) : i \in DOMAIN new}) \cup IF speech THEN Given(RumorUnit(x)) ELSE {}
         dropped == {TextOf(y) : y \in RumorsIn(rumors) \ RumorsIn(live)}
     IN  /\ units' = IF speech THEN RumorSynced(Pruned(us, live), x) ELSE us
         /\ rumors' = live
         /\ allowed' = allowed \cup given
         /\ owed' = Without(owed, dropped) \cup given
  /\ moment' = [moment EXCEPT !.at = "beats"]
  /\ counts' = Insertion("beats")
  /\ UNCHANGED <<flat, written, erased>>

-----------------------------------------------------------------------------
(* Rumours.                                                                *)

(* Some rumours changed: each has its unit written anew.                   *)
Resynced(us, xs, changed) ==
  PutAll(us, [i \in {RumorId(xs[k].seq) : k \in changed} |->
                RumorUnit(xs[CHOOSE k \in changed : RumorId(xs[k].seq) = i])])

RumorsBecome(xs) ==
  LET changed == {k \in DOMAIN xs : xs[k] # rumors[k]}
      given == UNION {Given(RumorUnit(xs[k])) : k \in changed}
      faded == {TextOf(x) : x \in {y \in RumorsIn(xs) : ~ y.alive}}
  IN  /\ changed # {}
      /\ rumors' = xs
      /\ units' = Resynced(units, xs, changed)
      /\ allowed' = allowed \cup given
      /\ owed' = Without(owed \cup given, faded)
      /\ erased' = erased \ {RumorId(xs[k].seq) : k \in changed}

CarriedBy(x) == x.known \cap (Folk \cup {"player"})

(* advance_rumors: time passes; a rumour may lose its strength, which is 1 *)
(* at most, or reach the places where its carriers are.                    *)
AdvanceRumors(fading, reached) ==
  /\ moment.at = "play" /\ Affordable("walks")
  /\ RumorsBecome([k \in DOMAIN rumors |->
       [rumors[k] EXCEPT
          !.alive = @ /\ k \notin fading,
          !.known = IF rumors[k].alive /\ k \notin fading /\ CarriedBy(rumors[k]) # {}
                    THEN @ \cup reached[k] ELSE @]])
  /\ counts' = Step("walks")
  /\ UNCHANGED <<flat, written, moment>>

(* spread_rumors_on_transition: the player carries along a road what it    *)
(* has heard.                                                              *)
SpreadOnTransition(path) ==
  /\ moment.at = "play" /\ Affordable("walks")
  /\ RumorsBecome([k \in DOMAIN rumors |->
       [rumors[k] EXCEPT !.known = IF rumors[k].alive /\ "player" \in @ THEN @ \cup {path} ELSE @]])
  /\ counts' = Step("walks")
  /\ UNCHANGED <<flat, written, moment>>

\* set_rumor_confirmed, of the debug panel
ConfirmRumor(k) ==
  /\ ToolCall
  /\ RumorsBecome([rumors EXCEPT ![k].confirmed = ~ @])
  /\ counts' = Step("tools")
  /\ UNCHANGED <<flat, written, moment>>

\* remove_rumor
RemoveRumor(k) ==
  /\ ToolCall
  /\ rumors' = SubSeq(rumors, 1, k - 1) \o SubSeq(rumors, k + 1, Len(rumors))
  /\ units' = [i \in DOMAIN units \ {RumorId(rumors[k].seq)} |-> units[i]]
  /\ owed' = Without(owed, {TextOf(rumors[k])})
  /\ counts' = Step("tools")
  /\ UNCHANGED <<flat, written, moment, allowed, erased>>

(* add_debug_rumor: known to the game master alone and carried by nobody.  *)
AddDebugRumor ==
  /\ ToolCall
  /\ LET x == [seq |-> counts.inserts + 1, owner |-> "gm_private", known |-> {"gm_private"},
               alive |-> TRUE, confirmed |-> FALSE]
         live == Capped(Append(rumors, x))
     IN  /\ rumors' = live
         /\ units' = RumorSynced(Pruned(units, live), x)
         /\ allowed' = allowed \cup Given(RumorUnit(x))
         /\ owed' = Without(owed, {TextOf(y) : y \in RumorsIn(rumors) \ RumorsIn(live)}) \cup Given(RumorUnit(x))
  /\ counts' = Insertion("tools")
  /\ UNCHANGED <<flat, written, moment, erased>>

(* reset_npc_memory, of the debug panel: every unit that the character     *)
(* owns is gone, for whoever it was meant: its notes and claims, what it   *)
(* heard, its records, the crystals of all these, and its rumours' units,  *)
(* though World.rumors keeps the rumours.  What another unit still tells   *)
(* is owed; not of a record, whose unit may now be an older note.          *)
Surviving(us, n) == {i \in DOMAIN us : us[i].owner # n}

ResetNpcMemory(n) ==
  /\ ToolCall
  /\ LET left == Surviving(units, n)
         gone == DOMAIN units \ left
         lost == UNION {Given(units[i]) : i \in gone}
         told == UNION {Given(units[i]) : i \in {j \in left : DefaultVisible(units[j])}}
     IN  /\ units' = [i \in left |-> units[i]]
         /\ owed' = {g \in owed : g \in lost => g \in told /\ g[1][1] # "record"}
         /\ erased' = erased \cup (LiveIds(rumors) \cap gone)
  /\ counts' = Step("tools")
  /\ UNCHANGED <<flat, rumors, written, moment, allowed>>

-----------------------------------------------------------------------------
(* The end of a turn.                                                      *)

\* maybe_consolidate_memory_semantic begins.
CloseBeats ==
  /\ moment.at \in {"play", "beats"}
  /\ Batches(units) # {}
  /\ moment' = [at |-> "crystals", batches |-> 0, seeds |-> {}]
  /\ UNCHANGED <<flat, units, rumors, written, counts, allowed, owed, erased>>

(* One round of its loop.                                                  *)
Crystallize ==
  /\ moment.at = "crystals" /\ moment.batches < MaxBatches
  /\ \E ids \in Batches(units) : \E sign \in HashSigns(RecordsOf(units, ids)) :
       units' = MarkConsumed(Put(units, MemoryId(sign * (counts.inserts + 1), "crystal"),
                                 CrystalUnit(units, ids)), ids)
  /\ moment' = [moment EXCEPT !.batches = @ + 1]
  /\ counts' = [counts EXCEPT !.inserts = @ + 1]
  /\ UNCHANGED <<flat, rumors, written, allowed, owed, erased>>

EndTurn ==
  /\ \/ moment.at = "crystals" /\ (Batches(units) = {} \/ moment.batches = MaxBatches)
     \/ moment.at = "beats" /\ Batches(units) = {}
  /\ moment' = Reading({})
  /\ UNCHANGED <<flat, units, rumors, written, counts, allowed, owed, erased>>

RecordSteps ==
  \/ \E r \in Topics, p \in Placements, replaced \in SUBSET Goals : AddRecord(r, p, replaced)
  \/ \E r \in Topics, reviving \in BOOLEAN :
       \E p \in UNION {Revised(units[i].place) : i \in RecordOf(units, r)} : UpdateRecord(r, p, reviving)
  \/ \E r \in Topics : DeactivateRecord(r) \/ DeleteRecord(r)
  \/ \E r \in Topics, who \in Folk : MergeRecord(r, who)

NoteSteps ==
  \/ \E p \in Placements, about \in {{}} \cup {{r} : r \in Topics} : NoteMemory(p, about)
  \/ \E n \in Holders : NpcNoteMemory(n)
  \/ \E spot \in Spots, seen \in {{}, {"player"}} : GeneratedPlace(spot, seen)

Consolidations ==
  \E i, j \in DOMAIN units, tier \in 2..4, naming \in BOOLEAN : ConsolidateMemory({i, j}, tier, naming)

\* What happens in a place is heard by some of those who are there.  (The
\* budget is the actions' own guard: TLC enumerates nothing once it is spent.)
PlayerBeats ==
  /\ Affordable("beats")
  /\ \E there \in SUBSET Folk, spot \in Spots : \E heard \in SUBSET there : PlayerActs(there, heard, spot)

CharacterBeats ==
  /\ Affordable("beats")
  /\ \E there \in SUBSET Folk, spot \in Spots :
       \E heard \in SUBSET (there \cup {"player"}), claims, speech \in BOOLEAN :
         \E speaker \in heard \cap there : CommitBeat(speaker, there, heard, spot, claims, speech)

RumorSteps ==
  \/ \E fading \in SUBSET DOMAIN rumors : \E reached \in [DOMAIN rumors -> SUBSET Spots] : AdvanceRumors(fading, reached)
  \/ \E path \in Paths : SpreadOnTransition(path)
  \/ \E k \in DOMAIN rumors : ConfirmRumor(k) \/ RemoveRumor(k)
  \/ AddDebugRumor
  \/ \E n \in Folk : ResetNpcMemory(n)

MemoryNext ==
  \/ RecordSteps \/ NoteSteps \/ Consolidations
  \/ LoadSave \/ (\E r \in moment.seeds : LoadSeed(r))
  \/ PlayerBeats \/ CharacterBeats \/ RumorSteps
  \/ CloseBeats \/ Crystallize \/ EndTurn

MemorySpec == MemoryInit /\ [][MemoryNext]_memoryVars

-----------------------------------------------------------------------------
(* Properties.                                                             *)

MemoryTypeOK ==
  /\ \A i \in DOMAIN units :
       LET u == units[i]
       IN  /\ u.tier \in 1..4 /\ u.state \in {"hot", "warm", "cold", "archived"} /\ u.consumed \in BOOLEAN
           /\ u.owner \in Scopes \cup {"gm_private"} /\ u.vis \subseteq Scopes \cup {"gm_private"}
           /\ u.records \subseteq Topics
  /\ owed \subseteq allowed
  /\ Len(rumors) <= RumorsCap
  /\ moment.seeds \subseteq SeedTopics /\ (moment.at = "load" <=> moment.seeds # {})

(* "preserving scope/provenance in code" (memory_crystals.rs): whatever is *)
(* merged, consolidated, overwritten, spread and loaded, a unit tells no   *)
(* fact to a scope that was never given the fact.                          *)
SecretsKept == \A i \in DOMAIN units : Given(units[i]) \subseteq allowed

(* maybe_consolidate_memory_semantic, mark_consumed and the writers of     *)
(* records: what a scope was given and nobody has changed, deleted or let  *)
(* fade, a default recall still finds.  Two things are not counted, for    *)
(* the code loses them: a fact that was in one crystal with a record that  *)
(* is then changed, and what only the units of a character told whose      *)
(* memory is reset, other scopes' claims and crystals with them.           *)
NothingForgotten ==
  \A g \in owed : \E i \in DOMAIN units : DefaultVisible(units[i]) /\ g \in Given(units[i])

(* sync_rumor_memory and prune_rumor_memory_to_live_ids: World.rumors and  *)
(* the memory agree on who knows each rumour and how sure it is, and no    *)
(* unit outlives its rumour.  A rumour whose unit went when its owner's    *)
(* memory was reset has none until something about it changes: nothing     *)
(* syncs the list as a whole.                                              *)
RumorsMirrored ==
  /\ LiveIds(rumors) \ erased = {i \in DOMAIN units : i[1] = "rumor"}
  /\ \A x \in RumorsIn(rumors) : RumorId(x.seq) \notin erased =>
       LET u == units[RumorId(x.seq)]
       IN  /\ u.owner = x.owner /\ u.vis = x.known
           /\ u.truth = RumorUnit(x).truth /\ (DefaultVisible(u) => x.alive)
=============================================================================
