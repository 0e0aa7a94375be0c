---------------------------- MODULE MemoryProofs ----------------------------
(***************************************************************************)
(* Proofs about Memory for any characters, places, records, budgets and    *)
(* caps.                                                                   *)
(***************************************************************************)
EXTENDS Memory, FiniteSetTheorems, SequenceTheorems, WellFoundedInduction, TLAPS

-----------------------------------------------------------------------------
(* Types.                                                                  *)

Owners == Scopes \cup {"gm_private"}
Roles == Folk \cup {"note", "hidden", "crystal", "room", "player", "claim"}
UnitIds ==
  ({"legacy", "state"} \X {0} \X Topics) \cup ({"rumor"} \X Nat \X {"rumor"}) \cup ({"memory"} \X Int \X Roles)

Facts == {"record", "note", "place", "beat", "rumor"} \X Nat
           \X (Topics \cup Folk \cup {"gm", "note", "hidden", "said", "claim", "text"})
Places == Placings(Folk \cup {"none"}, SUBSET Folk)

UnitRecords ==
  [tier : 1..4, owner : Owners, vis : SUBSET Owners, truth : {"actual", "belief", "claim", "rumor"},
   facts : SUBSET Facts, records : SUBSET Topics, state : {"hot", "warm", "cold", "archived"},
   consumed : BOOLEAN, place : Places,
   maker : {"migration", "world_state", "gm_tool", "npc_tool", "location_generator", "room_observer",
            "player_observer", "scene_observer", "npc_claim", "rumor_graph", "crystal"}]

RumorRecords ==
  [seq : Nat, owner : Owners, known : SUBSET Owners, alive : BOOLEAN, confirmed : BOOLEAN]

(* A store of units: each has an id of a kind, and no number is below those *)
(* that were handed out.                                                   *)
Store(us, n) == \A i \in DOMAIN us : i \in UnitIds /\ 0 <= i[2] + n /\ us[i] \in UnitRecords

(* Units that tell no scope more than it was given.                        *)
Discreet(us, given) == \A i \in DOMAIN us : Given(us[i]) \subseteq given

IsRumorId(i) == i[1] = "rumor"

(* The units of rumours are those of one kind, and carry no record.        *)
RumorsApart(us) == \A i \in DOMAIN us : IsRumorId(i) => us[i].records = {} /\ us[i].maker = "rumor_graph"

(* From us to vs no rumour is added, dropped, or made more visible.        *)
RumorsKept(us, vs) ==
  \A i \in DOMAIN us \cup DOMAIN vs : IsRumorId(i) =>
    /\ i \in DOMAIN us /\ i \in DOMAIN vs
    /\ vs[i].owner = us[i].owner /\ vs[i].vis = us[i].vis /\ vs[i].truth = us[i].truth
    /\ vs[i].records = us[i].records /\ vs[i].maker = us[i].maker
    /\ DefaultVisible(vs[i]) => DefaultVisible(us[i])

Sound(us, n, given) == Store(us, n) /\ Discreet(us, given)

(* A load goes on for as long as there are seeds to read.                  *)
Moments ==
  {m \in [at : {"play", "beats", "crystals", "load"}, batches : Nat, seeds : SUBSET SeedTopics] :
     m.at = "load" <=> m.seeds # {}}

(* Rumours that were there once.                                           *)
Bygone(ids, n) == ids \subseteq {RumorId(q) : q \in 0..n}

MemoryTypes ==
  /\ Store(units, counts.inserts)
  /\ flat \in [SeedTopics -> Places]
  /\ rumors \in Seq(RumorRecords)
  /\ written \in [Topics -> Nat]
  /\ moment \in Moments
  /\ counts \in [inserts : Nat, tools : Nat, beats : Nat, walks : Nat, loads : Nat]
  /\ owed \subseteq allowed
  /\ Len(rumors) <= RumorsCap
  /\ Bygone(erased, counts.inserts)

(* Numbers of rumours are those handed out, each once.                     *)
RumorsNumbered ==
  \A k, l \in DOMAIN rumors :
    /\ rumors[k].seq <= counts.inserts
    /\ rumors[k].seq = rumors[l].seq => k = l

(* What a load writes was given when the story began.                      *)
SeedsGiven == Discreet(Migrated, allowed)

MemoryInv ==
  /\ MemoryTypes
  /\ SecretsKept /\ SeedsGiven
  /\ RumorsMirrored /\ RumorsApart(units) /\ RumorsNumbered

-----------------------------------------------------------------------------
(* The operations of the store keep its types and tell nothing new.        *)

(* Of a unit that is marked, archived or revived only the state changes.   *)
LEMMA StateApart ==
  ASSUME NEW u \in UnitRecords, NEW s \in {"hot", "warm", "cold", "archived"}
  PROVE  /\ [u EXCEPT !.state = s] \in UnitRecords
         /\ [u EXCEPT !.state = s, !.consumed = TRUE] \in UnitRecords
         /\ Given([u EXCEPT !.state = s]) = Given(u)
         /\ Given([u EXCEPT !.state = s, !.consumed = TRUE]) = Given(u)
BY DEF UnitRecords, Given, Hears

(* Numbers that were handed out stay so. *)
LEMMA StoreGrows ==
  ASSUME NEW us, NEW n \in Nat, NEW m \in Nat, n <= m, Store(us, n)
  PROVE  Store(us, m)
BY DEF Store, UnitIds

(* What was given once may be told for ever. *)
LEMMA DiscreetGrows ==
  ASSUME NEW us, NEW given, NEW more, Discreet(us, given), given \subseteq more
  PROVE  Discreet(us, more)
BY DEF Discreet

(* Insertion of units that are well formed and tell what may be told.      *)
LEMMA PutAllKeeps ==
  ASSUME NEW us, NEW new, NEW n, NEW given, Sound(us, n, given), Sound(new, n, given)
  PROVE  Sound(PutAll(us, new), n, given)
BY DEF Sound, Store, Discreet, PutAll

(* Insertion of one. *)
LEMMA PutKeeps ==
  ASSUME NEW us, NEW n, NEW given, Sound(us, n, given),
         NEW i \in UnitIds, 0 <= i[2] + n, NEW u \in UnitRecords, Given(u) \subseteq given
  PROVE  Sound(Put(us, i, u), n, given)
BY DEF Sound, Store, Discreet, Put

(* Insertion of units of other kinds concerns no rumour. *)
LEMMA PutAllApart ==
  ASSUME NEW us, NEW new, \A i \in DOMAIN new : ~ IsRumorId(i)
  PROVE  RumorsKept(us, PutAll(us, new))
BY DEF RumorsKept, PutAll

(* Nor does the insertion of one. *)
LEMMA PutApart ==
  ASSUME NEW us, NEW i, ~ IsRumorId(i), NEW u
  PROVE  RumorsKept(us, Put(us, i, u))
BY DEF RumorsKept, Put

(* A consumed unit is as it was, but cold. *)
LEMMA MarkConsumedKeeps ==
  ASSUME NEW us, NEW n, NEW given, NEW ids, Sound(us, n, given)
  PROVE  Sound(MarkConsumed(us, ids), n, given) /\ RumorsKept(us, MarkConsumed(us, ids))
<1>1. Sound(MarkConsumed(us, ids), n, given)
  BY StateApart DEF Sound, Store, Discreet, MarkConsumed
<1>2. ASSUME NEW u \in UnitRecords
      PROVE  LET v == [u EXCEPT !.state = "cold", !.consumed = TRUE]
             IN  /\ v.owner = u.owner /\ v.vis = u.vis /\ v.truth = u.truth
                 /\ v.records = u.records /\ v.maker = u.maker
                 /\ ~ DefaultVisible(v)
  BY DEF UnitRecords, DefaultVisible
<1> QED BY <1>1, <1>2 DEF Sound, Store, MarkConsumed, RumorsKept

(* So is an archived one. *)
LEMMA ArchiveKeeps ==
  ASSUME NEW us, NEW n, NEW given, NEW ids, Sound(us, n, given)
  PROVE  Sound(Archive(us, ids), n, given) /\ RumorsKept(us, Archive(us, ids))
<1>1. Sound(Archive(us, ids), n, given)
  BY StateApart DEF Sound, Store, Discreet, Archive
<1>2. ASSUME NEW u \in UnitRecords
      PROVE  LET v == [u EXCEPT !.state = "archived"]
             IN  /\ v.owner = u.owner /\ v.vis = u.vis /\ v.truth = u.truth
                 /\ v.records = u.records /\ v.maker = u.maker
                 /\ ~ DefaultVisible(v)
  BY DEF UnitRecords, DefaultVisible
<1> QED BY <1>1, <1>2 DEF Sound, Store, Archive, RumorsKept

(* Steps that concern no rumour add up. *)
LEMMA KeptTwice ==
  ASSUME NEW us, NEW vs, NEW ws, RumorsKept(us, vs), RumorsKept(vs, ws)
  PROVE  RumorsKept(us, ws)
BY DEF RumorsKept

-----------------------------------------------------------------------------
(* Records.                                                                *)

(* The scopes of a placement are scopes. *)
LEMMA PlaceScopes ==
  ASSUME NEW p \in Places
  PROVE  OwnerScope(p) \in Owners /\ VisibilityScopes(p) \subseteq Owners
<1>1. p.scope \in {"public", "gm", "owner", "participants"} /\ p.parts \subseteq Folk
  BY DEF Places, Placings
<1>2. p.scope \in {"owner", "participants"} => p.holder \in Folk
  BY DEF Places, Placings
<1>3. OwnerScope(p) \in Owners
  <2>1. CASE p.scope = "participants" /\ p.parts # {}
    <3>1. (CHOOSE n \in p.parts : TRUE) \in p.parts
      BY <2>1
    <3> QED BY <1>1, <2>1, <3>1 DEF OwnerScope, Owners, Scopes
  <2>2. CASE ~ (p.scope = "participants" /\ p.parts # {})
    BY <1>1, <1>2, <2>2 DEF OwnerScope, Owners, Scopes
  <2> QED BY <2>1, <2>2
<1> QED BY <1>1, <1>2, <1>3 DEF VisibilityScopes, Owners, Scopes

(* The unit of a record tells its text to those of its placement. *)
LEMMA RecordUnitTells ==
  ASSUME NEW r \in Topics, NEW p \in Places, NEW facts \in SUBSET Facts,
         NEW maker \in {"migration", "world_state"}
  PROVE  /\ RecordUnit(r, p, facts, maker) \in UnitRecords
         /\ Given(RecordUnit(r, p, facts, maker)) = facts \X ToldIn(p)
<1> DEFINE u == Unit(OwnerScope(p), VisibilityScopes(p), "actual", facts, maker)
<1>1. Public \in Places
  BY DEF Public, Places, Placings
<1>2. u \in UnitRecords
  BY <1>1, PlaceScopes DEF Unit, UnitRecords
<1>3. /\ u.facts = facts /\ u.owner = OwnerScope(p) /\ u.vis = VisibilityScopes(p)
  BY DEF Unit
<1> HIDE DEF u
<1>4. LET v == [u EXCEPT !.records = {r}, !.place = p]
      IN  v \in UnitRecords /\ v.facts = facts /\ v.owner = OwnerScope(p) /\ v.vis = VisibilityScopes(p)
  BY <1>2, <1>3 DEF UnitRecords
<1> QED BY <1>4 DEF RecordUnit, u, Given, Hears, ToldIn

(* Among natural numbers there is a least one. *)
LEMMA LeastNumber ==
  ASSUME NEW T, T \subseteq Nat, T # {}
  PROVE  \E n \in T : \A m \in T : n <= m
<1> DEFINE R == {pair \in Nat \X Nat : pair[1] < pair[2]}
<1>1. IsWellFoundedOn(R, Nat)
  BY NatLessThanWellFounded DEF OpToRel
<1> HIDE DEF R
<1>2. PICK n \in T : \A m \in T : ~(<<m, n>> \in R)
  BY <1>1, WFMin
<1>3. \A m \in T : m \in Nat /\ (m < n => <<m, n>> \in R)
  BY DEF R
<1>4. ASSUME NEW m \in T
      PROVE  n <= m
  <2>1. m \in Nat /\ n \in Nat /\ ~ (m < n)
    BY <1>2, <1>3
  <2> QED BY <2>1
<1> QED BY <1>4

(* Some unit of any comes first. *)
LEMMA SomeFirst ==
  ASSUME NEW us, NEW n \in Nat, Store(us, n), NEW ids, ids \subseteq DOMAIN us, ids # {}
  PROVE  Firsts(ids) # {}
<1>1. \A i \in ids : i[2] \in Int /\ 0 <= i[2] + n /\ Rank(i) \in 1..4
  BY DEF Store, UnitIds, Rank
<1> DEFINE ranks == {Rank(i) : i \in ids}
<1>2. PICK rank \in ranks : \A other \in ranks : rank <= other
  <2>1. ranks \subseteq Nat /\ ranks # {}
    BY <1>1
  <2> QED BY <2>1, LeastNumber
<1> DEFINE low == {i \in ids : Rank(i) = rank}
           offsets == {i[2] + n : i \in low}
<1>3. low # {}
  BY <1>2
<1>4. offsets \subseteq Nat /\ offsets # {}
  BY <1>1, <1>3
<1>5. PICK least \in offsets : \A other \in offsets : least <= other
  BY <1>4, LeastNumber
<1>6. PICK i \in low : least = i[2] + n
  BY <1>5
<1>7. ASSUME NEW j \in ids
      PROVE  ~ Precedes(j, i)
  <2>1. Rank(i) = rank /\ rank <= Rank(j) /\ i[2] \in Int /\ j[2] \in Int /\ Rank(j) \in 1..4 /\ rank \in 1..4
    BY <1>1, <1>2, <1>6
  <2>2. CASE Rank(j) = rank
    <3>1. i[2] + n <= j[2] + n
      BY <1>5, <1>6, <2>2
    <3>2. ~ (j[2] < i[2])
      BY <2>1, <3>1
    <3> QED BY <2>1, <2>2, <3>2 DEF Precedes
  <2>3. CASE Rank(j) # rank
    BY <2>1, <2>3 DEF Precedes
  <2> QED BY <2>2, <2>3
<1> QED BY <1>6, <1>7 DEF Firsts

(* The unit a record is written to is one that carries it, or its own.     *)
LEMMA TargetIsRecord ==
  ASSUME NEW us, NEW n \in Nat, Store(us, n), RumorsApart(us), NEW r \in Topics, NEW maker
  PROVE  LET i == CHOOSE i \in Target(us, r, maker) : TRUE
         IN  i \in Target(us, r, maker) /\ i \in UnitIds /\ 0 <= i[2] + n /\ ~ IsRumorId(i)
<1> DEFINE i == CHOOSE i \in Target(us, r, maker) : TRUE
<1>1. CASE Carriers(us, r) # {}
  <2>1. Firsts(Carriers(us, r)) # {}
    BY <1>1, SomeFirst DEF Carriers
  <2>2. i \in Target(us, r, maker) /\ i \in Carriers(us, r)
    BY <1>1, <2>1 DEF Target, Firsts
  <2> QED BY <2>2 DEF Carriers, Store, RumorsApart
<1>2. CASE Carriers(us, r) = {}
  BY <1>2 DEF Target, LegacyId, StateId, UnitIds, IsRumorId
<1> QED BY <1>1, <1>2

(* upsert_state_record_memory *)
LEMMA UpsertedKeeps ==
  ASSUME NEW us, NEW n \in Nat, NEW given, Sound(us, n, given), RumorsApart(us),
         NEW r \in Topics, NEW p \in Places, NEW facts \in SUBSET Facts, facts \X ToldIn(p) \subseteq given,
         NEW maker \in {"migration", "world_state"}
  PROVE  LET vs == Upserted(us, r, p, facts, maker)
         IN  Sound(vs, n, given) /\ RumorsKept(us, vs)
<1> DEFINE i == CHOOSE i \in Target(us, r, maker) : TRUE
           u == RecordUnit(r, p, facts, maker)
<1>1. i \in UnitIds /\ 0 <= i[2] + n /\ ~ IsRumorId(i)
  BY TargetIsRecord DEF Sound
<1>2. u \in UnitRecords /\ Given(u) \subseteq given
  BY RecordUnitTells
<1> HIDE DEF i, u
<1>3. Sound(Put(us, i, u), n, given) /\ RumorsKept(us, Put(us, i, u))
  BY <1>1, <1>2, PutKeeps, PutApart
<1> QED BY <1>3 DEF Upserted, i, u

-----------------------------------------------------------------------------
(* What steps that concern no rumour have in common.                       *)

Counts == [inserts : Nat, tools : Nat, beats : Nat, walks : Nat, loads : Nat]

(* RumorsMirrored, of any store, any rumours and those whose units were     *)
(* taken.                                                                  *)
Mirrored(us, xs, gone) ==
  /\ LiveIds(xs) \ gone = {i \in DOMAIN us : IsRumorId(i)}
  /\ \A x \in RumorsIn(xs) : RumorId(x.seq) \notin gone =>
       LET u == us[RumorId(x.seq)]
       IN  /\ u.owner = x.owner /\ u.vis = x.known
           /\ u.truth = RumorUnit(x).truth /\ (DefaultVisible(u) => x.alive)

(* It is RumorsMirrored, now and after a step. *)
LEMMA MirroredMeans ==
  (RumorsMirrored <=> Mirrored(units, rumors, erased)) /\ (RumorsMirrored' <=> Mirrored(units', rumors', erased'))
BY DEF RumorsMirrored, Mirrored, IsRumorId, LiveIds, RumorsIn

(* A store whose rumours are kept mirrors them still. *)
LEMMA MirroredKept ==
  ASSUME NEW us, NEW vs, NEW xs, NEW gone, Mirrored(us, xs, gone), RumorsKept(us, vs)
  PROVE  Mirrored(vs, xs, gone)
<1>1. {i \in DOMAIN us : IsRumorId(i)} = {i \in DOMAIN vs : IsRumorId(i)}
  BY DEF RumorsKept
<1>2. ASSUME NEW x \in RumorsIn(xs), RumorId(x.seq) \notin gone
      PROVE  RumorId(x.seq) \in DOMAIN us /\ IsRumorId(RumorId(x.seq))
  BY <1>2 DEF Mirrored, LiveIds
<1> QED BY <1>1, <1>2 DEF Mirrored, RumorsKept

(* So do the kinds of its units. *)
LEMMA ApartKept ==
  ASSUME NEW us, NEW vs, RumorsApart(us), RumorsKept(us, vs)
  PROVE  RumorsApart(vs)
BY DEF RumorsApart, RumorsKept

(* What a step counts. *)
LEMMA CountsGrow ==
  ASSUME counts \in Counts
  PROVE  /\ \A kind \in {"tools", "beats", "walks", "loads"} :
              Step(kind) \in Counts /\ Step(kind).inserts = counts.inserts
         /\ \A kind \in {"tools", "beats"} :
              Insertion(kind) \in Counts /\ Insertion(kind).inserts = counts.inserts + 1
<1>1. Step("tools") \in Counts /\ Step("tools").inserts = counts.inserts
  BY DEF Counts, Step
<1>2. Step("beats") \in Counts /\ Step("beats").inserts = counts.inserts
  BY DEF Counts, Step
<1>3. Step("walks") \in Counts /\ Step("walks").inserts = counts.inserts
  BY DEF Counts, Step
<1>4. Step("loads") \in Counts /\ Step("loads").inserts = counts.inserts
  BY DEF Counts, Step
<1>5. ASSUME NEW c \in Counts
      PROVE  LET d == [c EXCEPT !.inserts = @ + 1] IN d \in Counts /\ d.inserts = c.inserts + 1
  BY DEF Counts
<1>6. \A kind \in {"tools", "beats"} : Insertion(kind) = [Step(kind) EXCEPT !.inserts = @ + 1]
  BY DEF Insertion, Step
<1> QED BY <1>1, <1>2, <1>3, <1>4, <1>5, <1>6

(* What was there once stays so. *)
LEMMA BygoneStays ==
  ASSUME NEW ids, NEW n \in Nat, NEW m \in Nat, n <= m, Bygone(ids, n)
  PROVE  Bygone(ids, m)
BY DEF Bygone

(* A step that concerns no rumour, and tells what it counts as given.      *)
LEMMA QuietStep ==
  ASSUME MemoryInv,
         Sound(units', counts'.inserts, allowed'), RumorsKept(units, units'),
         allowed \subseteq allowed', owed' \subseteq allowed',
         counts' \in Counts, counts.inserts <= counts'.inserts,
         written' \in [Topics -> Nat], moment' = moment \/ moment' \in Moments,
         UNCHANGED <<flat, rumors, erased>>
  PROVE  MemoryInv'
<1> counts.inserts \in Nat /\ counts'.inserts \in Nat
  BY DEF MemoryInv, MemoryTypes, Counts
<1>0. Bygone(erased', counts'.inserts)
  BY BygoneStays DEF MemoryInv, MemoryTypes
<1>1. MemoryTypes'
  BY <1>0 DEF MemoryInv, MemoryTypes, Sound, Counts, Moments, Bygone
<1>2. SecretsKept'
  BY DEF Sound, Discreet, SecretsKept
<1>3. SeedsGiven'
  BY DEF MemoryInv, SeedsGiven, Discreet, Migrated
<1>4. RumorsMirrored'
  BY MirroredMeans, MirroredKept DEF MemoryInv
<1>5. RumorsApart(units')
  BY ApartKept DEF MemoryInv
<1>6. RumorsNumbered'
  <2>1. \A k \in DOMAIN rumors : rumors[k].seq \in Nat
    <3>1. rumors \in Seq(RumorRecords)
      BY DEF MemoryInv, MemoryTypes
    <3>2. \A k \in DOMAIN rumors : rumors[k] \in RumorRecords
      BY <3>1, ElementOfSeq, LenProperties
    <3> QED BY <3>2 DEF RumorRecords
  <2> QED BY <2>1 DEF MemoryInv, MemoryTypes, RumorsNumbered, Counts
<1> QED BY <1>1, <1>2, <1>3, <1>4, <1>5, <1>6 DEF MemoryInv, RumorsApart

(* What the invariant says of the store before a step. *)
LEMMA StoreBefore ==
  ASSUME MemoryInv
  PROVE  /\ counts \in Counts /\ counts.inserts \in Nat
         /\ Sound(units, counts.inserts, allowed)
         /\ Sound(units, counts.inserts + 1, allowed)
         /\ RumorsApart(units)
<1>1. counts \in Counts /\ counts.inserts \in Nat
  BY DEF MemoryInv, MemoryTypes, Counts
<1>2. Store(units, counts.inserts) /\ Store(units, counts.inserts + 1)
  BY <1>1, StoreGrows DEF MemoryInv, MemoryTypes
<1> QED BY <1>1, <1>2 DEF MemoryInv, SecretsKept, Discreet, Sound

(* The same store, in a world where more was given. *)
LEMMA SoundGrows ==
  ASSUME NEW us, NEW n, NEW given, NEW more, Sound(us, n, given), given \subseteq more
  PROVE  Sound(us, n, more)
BY DiscreetGrows DEF Sound

-----------------------------------------------------------------------------
(* State records.                                                          *)

(* Placements of the tools are placements. *)
LEMMA PlacementsArePlaces == Placements \subseteq Places
BY MemoryAssumption DEF Placements, Places, Placings

(* A new record, in whose place others may go. *)
LEMMA AddRecordKeeps ==
  ASSUME MemoryInv, NEW r \in Topics, NEW p \in Placements, NEW replaced, AddRecord(r, p, replaced)
  PROVE  MemoryInv'
<1> DEFINE hit == UNION {Carriers(units, g) : g \in replaced}
           new == {Fact(r, written[r] + 1)}
           given == new \X ToldIn(p)
           us == Archive(units, hit)
<1>1. p \in Places /\ new \in SUBSET Facts
  BY PlacementsArePlaces DEF Fact, Facts, MemoryInv, MemoryTypes
<1>2. counts' = Step("tools") /\ counts' \in Counts /\ counts'.inserts = counts.inserts /\ counts.inserts \in Nat
  BY StoreBefore, CountsGrow DEF AddRecord
<1>3. allowed' = allowed \cup given /\ owed' \subseteq allowed'
  BY DEF AddRecord, MemoryInv, MemoryTypes, Without
<1>4. Sound(us, counts.inserts, allowed) /\ RumorsKept(units, us)
  BY StoreBefore, ArchiveKeeps
<1>5. Sound(us, counts.inserts, allowed') /\ RumorsApart(us)
  BY <1>3, <1>4, SoundGrows, ApartKept, StoreBefore
<1>6. units' = Upserted(us, r, p, new, "world_state")
  BY DEF AddRecord
<1> HIDE DEF us, hit
<1>7. Sound(units', counts.inserts, allowed') /\ RumorsKept(us, units')
  BY <1>1, <1>2, <1>3, <1>5, <1>6, UpsertedKeeps
<1>8. written' \in [Topics -> Nat]
  BY DEF AddRecord, MemoryInv, MemoryTypes
<1> QED BY <1>2, <1>3, <1>4, <1>7, <1>8, KeptTwice, QuietStep DEF AddRecord

(* A record that is written anew, with a text its placement may be told.   *)
LEMMA RewriteKeeps ==
  ASSUME MemoryInv, NEW r \in Topics, NEW p \in Places, NEW facts \in SUBSET Facts,
         units' = Upserted(units, r, p, facts, "world_state"),
         allowed' = allowed \cup (facts \X ToldIn(p)), owed' \subseteq allowed',
         written' \in [Topics -> Nat],
         counts' = Step("tools"), UNCHANGED <<flat, rumors, moment, erased>>
  PROVE  MemoryInv'
<1>1. counts' \in Counts /\ counts'.inserts = counts.inserts /\ counts.inserts \in Nat
  BY StoreBefore, CountsGrow
<1>2. Sound(units, counts.inserts, allowed') /\ RumorsApart(units)
  BY StoreBefore, SoundGrows
<1>3. Sound(units', counts.inserts, allowed') /\ RumorsKept(units, units')
  BY <1>1, <1>2, UpsertedKeeps
<1> QED BY <1>1, <1>3, QuietStep

(* The participants of a record grow. *)
LEMMA MergeRecordKeeps ==
  ASSUME MemoryInv, NEW r \in Topics, NEW who \in Folk, MergeRecord(r, who)
  PROVE  MemoryInv'
<1>1. PICK i \in RecordOf(units, r) :
        LET u == units[i]
            p == [u.place EXCEPT !.parts = @ \cup {who}]
            given == u.facts \X ToldIn(p)
        IN  /\ units' = Upserted(units, r, p, u.facts, "world_state")
            /\ allowed' = allowed \cup given
            /\ owed' \subseteq owed \cup given
  BY DEF MergeRecord, Without
<1>2. i \in DOMAIN units
  BY DEF RecordOf, Firsts, RecordUnits, Carriers
<1>3. units[i].facts \in SUBSET Facts /\ units[i].place \in Places
  BY <1>2 DEF MemoryInv, MemoryTypes, Store, UnitRecords
<1>4. [units[i].place EXCEPT !.parts = @ \cup {who}] \in Places
  BY <1>3 DEF Places, Placings
<1>5. owed' \subseteq allowed' /\ written' \in [Topics -> Nat]
  BY <1>1 DEF MergeRecord, MemoryInv, MemoryTypes
<1> QED BY <1>1, <1>3, <1>4, <1>5, RewriteKeeps DEF MergeRecord

(* Another text, or another placement. *)
LEMMA UpdateRecordKeeps ==
  ASSUME MemoryInv, NEW r \in Topics, NEW reviving,
         NEW p \in UNION {Revised(units[i].place) : i \in RecordOf(units, r)}, UpdateRecord(r, p, reviving)
  PROVE  MemoryInv'
<1>1. PICK i \in RecordOf(units, r) : p \in Revised(units[i].place)
  OBVIOUS
<1>2. i \in DOMAIN units
  BY DEF RecordOf, Firsts, RecordUnits, Carriers
<1>3. units[i].place \in Places
  BY <1>2 DEF MemoryInv, MemoryTypes, Store, UnitRecords
<1>4. p \in Places
  BY <1>1, <1>3, MemoryAssumption DEF Revised, Places, Placings
<1> DEFINE new == {Fact(r, written[r] + 1)}
<1>5. new \in SUBSET Facts /\ written' \in [Topics -> Nat]
  BY DEF UpdateRecord, MemoryInv, MemoryTypes, Fact, Facts
<1>6. owed' \subseteq allowed'
  BY DEF UpdateRecord, MemoryInv, MemoryTypes, Without
<1> QED BY <1>4, <1>5, <1>6, RewriteKeeps DEF UpdateRecord

(* A record that is deactivated or deleted: some units are archived.       *)
LEMMA ArchivingKeeps ==
  ASSUME MemoryInv, NEW ids, units' = Archive(units, ids), owed' \subseteq owed,
         counts' = Step("tools"), UNCHANGED <<flat, rumors, written, moment, allowed, erased>>
  PROVE  MemoryInv'
<1>1. counts' \in Counts /\ counts'.inserts = counts.inserts /\ counts.inserts \in Nat
  BY StoreBefore, CountsGrow
<1>2. Sound(units', counts.inserts, allowed) /\ RumorsKept(units, units')
  BY StoreBefore, ArchiveKeeps
<1>3. owed' \subseteq allowed' /\ written' \in [Topics -> Nat]
  BY DEF MemoryInv, MemoryTypes
<1> QED BY <1>1, <1>2, <1>3, QuietStep

(* Both of them. *)
LEMMA RemovalKeeps ==
  ASSUME MemoryInv, NEW r \in Topics, DeactivateRecord(r) \/ DeleteRecord(r)
  PROVE  MemoryInv'
<1>1. CASE DeactivateRecord(r)
  BY <1>1, ArchivingKeeps DEF DeactivateRecord, UpsertedInactive, Without
<1>2. CASE DeleteRecord(r)
  BY <1>2, ArchivingKeeps DEF DeleteRecord, Without
<1> QED BY <1>1, <1>2

(* The seeds are a store of records. *)
LEMMA SeedsAreUnits ==
  ASSUME flat \in [SeedTopics -> Places], NEW n \in Nat
  PROVE  Store(Migrated, n) /\ \A i \in DOMAIN Migrated : ~ IsRumorId(i)
<1>1. ASSUME NEW r \in SeedTopics
      PROVE  LegacyId(r) \in UnitIds /\ 0 <= LegacyId(r)[2] + n /\ LegacyId(r)[3] = r /\ ~ IsRumorId(LegacyId(r))
  BY MemoryAssumption DEF LegacyId, UnitIds, IsRumorId
<1>2. ASSUME NEW r \in SeedTopics
      PROVE  RecordUnit(r, flat[r], {Fact(r, 1)}, "migration") \in UnitRecords
  <2>1. {Fact(r, 1)} \in SUBSET Facts /\ r \in Topics /\ flat[r] \in Places
    BY MemoryAssumption DEF Fact, Facts
  <2> QED BY <2>1, RecordUnitTells
<1> QED BY <1>1, <1>2 DEF Migrated, Store

(* A load writes a seed again. *)
LEMMA LoadSeedKeeps ==
  ASSUME MemoryInv, NEW r \in moment.seeds, LoadSeed(r)
  PROVE  MemoryInv'
<1> DEFINE new == {Fact(r, 1)}
<1>1. counts \in Counts /\ counts.inserts \in Nat /\ counts' = counts
  BY StoreBefore DEF LoadSeed
<1>2. moment \in Moments /\ flat \in [SeedTopics -> Places] /\ written \in [Topics -> Nat] /\ owed \subseteq allowed
  BY DEF MemoryInv, MemoryTypes
<1>3. r \in SeedTopics /\ r \in Topics /\ flat[r] \in Places /\ new \in SUBSET Facts
  BY <1>2, MemoryAssumption DEF Moments, Fact, Facts
<1>4. new \X ToldIn(flat[r]) \subseteq allowed
  <2>1. LegacyId(r) \in DOMAIN Migrated /\ Migrated[LegacyId(r)] = RecordUnit(r, flat[r], new, "migration")
    BY <1>3 DEF Migrated, LegacyId
  <2>2. Given(Migrated[LegacyId(r)]) = new \X ToldIn(flat[r])
    BY <1>3, <2>1, RecordUnitTells
  <2> QED BY <2>1, <2>2 DEF MemoryInv, SeedsGiven, Discreet
<1>5. units' = Upserted(units, r, flat[r], new, "migration")
  BY DEF LoadSeed
<1>6. Sound(units', counts.inserts, allowed) /\ RumorsKept(units, units')
  BY <1>1, <1>3, <1>4, <1>5, StoreBefore, UpsertedKeeps
<1>7. owed' \subseteq allowed' /\ UNCHANGED <<flat, rumors, erased, written, allowed>>
  BY <1>2 DEF LoadSeed, Without
<1>8. moment' \in Moments
  BY <1>2 DEF LoadSeed, Reading, Moments
<1> QED BY <1>1, <1>2, <1>6, <1>7, <1>8, QuietStep

-----------------------------------------------------------------------------
(* Notes.                                                                  *)

(* A unit of none of the records is well formed if its parts are.          *)
LEMMA UnitTells ==
  ASSUME NEW owner \in Owners, NEW vis \in SUBSET Owners,
         NEW truth \in {"actual", "belief", "claim", "rumor"}, NEW facts \in SUBSET Facts,
         NEW maker \in {"migration", "world_state", "gm_tool", "npc_tool", "location_generator", "room_observer",
                        "player_observer", "scene_observer", "npc_claim", "rumor_graph", "crystal"}
  PROVE  /\ Unit(owner, vis, truth, facts, maker) \in UnitRecords
         /\ Given(Unit(owner, vis, truth, facts, maker)) = facts \X Audience(owner, vis)
<1>1. Public \in Places
  BY DEF Public, Places, Placings
<1> QED BY <1>1 DEF Unit, UnitRecords, Given, Hears

(* Units that are put in with their number, each telling what is given.    *)
LEMMA InsertionKeeps ==
  ASSUME MemoryInv, NEW new, NEW given,
         \A i \in DOMAIN new : /\ i \in UnitIds /\ ~ IsRumorId(i) /\ 0 <= i[2] + counts.inserts + 1
                               /\ new[i] \in UnitRecords /\ Given(new[i]) \subseteq given,
         units' = PutAll(units, new), allowed' = allowed \cup given, owed' \subseteq owed \cup given,
         counts' = Insertion("tools") \/ counts' = Insertion("beats"),
         moment' = moment \/ moment' \in Moments,
         UNCHANGED <<flat, rumors, written, erased>>
  PROVE  MemoryInv'
<1>1. counts' \in Counts /\ counts'.inserts = counts.inserts + 1 /\ counts.inserts \in Nat
  BY StoreBefore, CountsGrow
<1>2. Sound(units, counts'.inserts, allowed')
  BY <1>1, StoreBefore, SoundGrows
<1>3. Sound(new, counts'.inserts, allowed')
  <2>1. ASSUME NEW i \in DOMAIN new PROVE 0 <= i[2] + counts'.inserts
    BY <1>1 DEF UnitIds
  <2> QED BY <2>1 DEF Sound, Store, Discreet
<1>4. Sound(units', counts'.inserts, allowed') /\ RumorsKept(units, units')
  BY <1>2, <1>3, PutAllKeeps, PutAllApart
<1>5. owed' \subseteq allowed' /\ written' \in [Topics -> Nat]
  BY DEF MemoryInv, MemoryTypes
<1> QED BY <1>1, <1>4, <1>5, QuietStep

(* The same, of one unit. *)
LEMMA OneInsertionKeeps ==
  ASSUME MemoryInv, NEW i \in UnitIds, ~ IsRumorId(i), 0 <= i[2] + counts.inserts + 1, NEW u \in UnitRecords,
         units' = Put(units, i, u), allowed' = allowed \cup Given(u), owed' \subseteq owed \cup Given(u),
         counts' = Insertion("tools") \/ counts' = Insertion("beats"),
         moment' = moment \/ moment' \in Moments,
         UNCHANGED <<flat, rumors, written, erased>>
  PROVE  MemoryInv'
<1> DEFINE new == [j \in {i} |-> u]
<1>1. units' = PutAll(units, new)
  BY DEF Put, PutAll
<1> QED BY <1>1, InsertionKeeps

(* Numbers of new units are not below those that were handed out.          *)
LEMMA NewId ==
  ASSUME counts.inserts \in Nat, NEW sign \in {1, -1}, NEW role \in Roles
  PROVE  LET i == MemoryId(sign * (counts.inserts + 1), role)
         IN  i \in UnitIds /\ ~ IsRumorId(i) /\ 0 <= i[2] + counts.inserts + 1
BY DEF MemoryId, UnitIds, IsRumorId

(* The same, of a unit that carries no record. *)
LEMMA PlainId ==
  ASSUME counts.inserts \in Nat, NEW role \in Roles
  PROVE  LET i == MemoryId(counts.inserts + 1, role)
         IN  i \in UnitIds /\ ~ IsRumorId(i) /\ 0 <= i[2] + counts.inserts + 1 /\ i[3] = role
BY DEF MemoryId, UnitIds, IsRumorId

(* A note of the game master. *)
LEMMA NoteMemoryKeeps ==
  ASSUME MemoryInv, NEW p \in Placements, NEW about \in SUBSET Topics, NoteMemory(p, about)
  PROVE  MemoryInv'
<1> DEFINE n == counts.inserts + 1
           plain == Unit(OwnerScope(p), VisibilityScopes(p), "actual", {<<"note", n, "gm">>}, "gm_tool")
           u == [plain EXCEPT !.records = about]
<1>1. counts.inserts \in Nat
  BY StoreBefore
<1>2. PICK sign \in HashSigns(about) :
        units' = Put(units, MemoryId(sign * n, "note"), u) /\ allowed' = allowed \cup Given(u) /\ owed' = owed \cup Given(u)
  BY DEF NoteMemory
<1>3. sign \in {1, -1} /\ "note" \in Roles
  BY DEF HashSigns, Roles
<1>4. {<<"note", n, "gm">>} \in SUBSET Facts
  BY <1>1 DEF Facts
<1>5. plain \in UnitRecords
  BY <1>4, PlacementsArePlaces, PlaceScopes, UnitTells
<1> HIDE DEF plain
<1>6. u \in UnitRecords
  BY <1>5 DEF UnitRecords
<1> HIDE DEF u
<1> QED BY <1>1, <1>2, <1>3, <1>6, NewId, OneInsertionKeeps DEF NoteMemory

(* A note of a character. *)
LEMMA NpcNoteKeeps ==
  ASSUME MemoryInv, NEW n \in Holders, NpcNoteMemory(n)
  PROVE  MemoryInv'
<1> DEFINE u == Unit(n, {n}, "belief", {<<"note", counts.inserts + 1, n>>}, "npc_tool")
           i == MemoryId(counts.inserts + 1, "note")
<1>1. counts.inserts \in Nat /\ n \in Folk
  BY StoreBefore, MemoryAssumption
<1>2. {<<"note", counts.inserts + 1, n>>} \in SUBSET Facts /\ n \in Owners /\ {n} \in SUBSET Owners
  BY <1>1 DEF Facts, Owners, Scopes
<1>3. u \in UnitRecords
  BY <1>2, UnitTells
<1>4. i \in UnitIds /\ ~ IsRumorId(i) /\ 0 <= i[2] + counts.inserts + 1
  BY <1>1, PlainId DEF Roles
<1>5. /\ units' = Put(units, i, u) /\ allowed' = allowed \cup Given(u) /\ owed' = owed \cup Given(u)
      /\ counts' = Insertion("tools") /\ UNCHANGED <<flat, rumors, written, moment, erased>>
  BY DEF NpcNoteMemory
<1> HIDE DEF u, i
<1> QED BY <1>3, <1>4, <1>5, OneInsertionKeeps

(* The notes of a generated place. *)
LEMMA GeneratedPlaceKeeps ==
  ASSUME MemoryInv, NEW spot \in Spots, NEW seen \in {{}, {"player"}}, GeneratedPlace(spot, seen)
  PROVE  MemoryInv'
<1> DEFINE n == counts.inserts + 1
           open == Unit(spot, {spot} \cup seen, "actual", {<<"place", n, "note">>}, "location_generator")
           hidden == Unit("gm_private", {}, "actual", {<<"place", n, "hidden">>}, "location_generator")
           new == [i \in {MemoryId(n, "note"), MemoryId(n, "hidden")} |->
                     IF i[3] = "note" THEN open ELSE [hidden EXCEPT !.state = "warm"]]
           given == UNION {Given(new[i]) : i \in DOMAIN new}
<1>1. counts.inserts \in Nat
  BY StoreBefore
<1>2. {<<"place", n, "note">>} \in SUBSET Facts /\ {<<"place", n, "hidden">>} \in SUBSET Facts
  BY <1>1 DEF Facts
<1>3. spot \in Owners /\ {spot} \cup seen \in SUBSET Owners /\ "gm_private" \in Owners
  BY DEF Owners, Scopes
<1>4. open \in UnitRecords /\ hidden \in UnitRecords
  BY <1>2, <1>3, UnitTells
<1>5. /\ units' = PutAll(units, new) /\ allowed' = allowed \cup given /\ owed' = owed \cup given
      /\ counts' = Insertion("tools") /\ UNCHANGED <<flat, rumors, written, moment, erased>>
  BY DEF GeneratedPlace
<1> HIDE DEF open, hidden
<1>6. [hidden EXCEPT !.state = "warm"] \in UnitRecords
  BY <1>4, StateApart
<1>7. "note" \in Roles /\ "hidden" \in Roles
  BY DEF Roles
<1>8. \A i \in DOMAIN new : /\ i \in UnitIds /\ ~ IsRumorId(i) /\ 0 <= i[2] + counts.inserts + 1
                            /\ new[i] \in UnitRecords /\ Given(new[i]) \subseteq given
  BY <1>1, <1>4, <1>6, <1>7, PlainId
<1> HIDE DEF new, given
<1> QED BY <1>5, <1>8, InsertionKeeps
-----------------------------------------------------------------------------
(* Crystals.                                                               *)

(* The first of some units. *)
AnyOf(ids) == CHOOSE i \in ids : TRUE

(* What alike units tell together, each of them told the same scopes.      *)
LEMMA CrystalTells ==
  ASSUME NEW us, NEW n, NEW given, Sound(us, n, given),
         NEW ids, ids # {}, ids \subseteq DOMAIN us, Alike(us, ids),
         NEW tier \in 1..4, NEW records \in SUBSET Topics, NEW maker \in {"gm_tool", "crystal"},
         NEW vis, vis = us[AnyOf(ids)].vis \/ vis = UNION {us[i].vis : i \in ids}
  PROVE  LET first == us[AnyOf(ids)]
             u == [Unit(first.owner, vis, first.truth, FactsOf(us, ids), maker)
                     EXCEPT !.tier = tier, !.records = records]
         IN  u \in UnitRecords /\ Given(u) \subseteq given
<1> DEFINE first == us[AnyOf(ids)]
           plain == Unit(first.owner, vis, first.truth, FactsOf(us, ids), maker)
<1>1. AnyOf(ids) \in ids
  BY DEF AnyOf
<1>2. first \in UnitRecords /\ \A i \in ids : us[i] \in UnitRecords
  BY <1>1 DEF Sound, Store
<1>3. \A i \in ids : us[i].owner = first.owner /\ us[i].vis = first.vis
  BY <1>1 DEF Alike
<1>4. vis = first.vis
  BY <1>1, <1>3
<1>5. FactsOf(us, ids) \in SUBSET Facts
  BY <1>2 DEF FactsOf, UnitRecords
<1>6. first.owner \in Owners /\ vis \in SUBSET Owners /\ first.truth \in {"actual", "belief", "claim", "rumor"}
  BY <1>2, <1>4 DEF UnitRecords
<1>7. plain \in UnitRecords /\ Given(plain) = FactsOf(us, ids) \X Audience(first.owner, vis)
  <2> DEFINE owner == first.owner
             truth == first.truth
             facts == FactsOf(us, ids)
  <2>1. owner \in Owners /\ vis \in SUBSET Owners /\ truth \in {"actual", "belief", "claim", "rumor"} /\ facts \in SUBSET Facts
    BY <1>5, <1>6
  <2> HIDE DEF owner, truth, facts
  <2>2. /\ Unit(owner, vis, truth, facts, maker) \in UnitRecords
        /\ Given(Unit(owner, vis, truth, facts, maker)) = facts \X Audience(owner, vis)
    BY <2>1, UnitTells
  <2> QED BY <2>2 DEF owner, truth, facts
<1>8. FactsOf(us, ids) \X Audience(first.owner, vis) \subseteq given
  <2>1. SUFFICES ASSUME NEW f \in FactsOf(us, ids), NEW scope \in Audience(first.owner, vis)
                 PROVE  <<f, scope>> \in given
    OBVIOUS
  <2>2. PICK i \in ids : f \in us[i].facts
    BY DEF FactsOf
  <2>3. scope \in Hears(us[i])
    BY <1>3, <1>4 DEF Hears
  <2> QED BY <2>2, <2>3 DEF Sound, Discreet, Given
<1> HIDE DEF plain
<1>9. LET u == [plain EXCEPT !.tier = tier, !.records = records]
      IN  u \in UnitRecords /\ Given(u) = Given(plain)
  BY <1>7 DEF UnitRecords, Given, Hears
<1> QED BY <1>7, <1>8, <1>9 DEF plain

(* A crystal is put in and its sources are consumed.                       *)
LEMMA CrystallizedKeeps ==
  ASSUME MemoryInv, NEW i \in UnitIds, ~ IsRumorId(i), 0 <= i[2] + counts.inserts + 1,
         NEW u \in UnitRecords, Given(u) \subseteq allowed, NEW ids,
         units' = MarkConsumed(Put(units, i, u), ids),
         counts' \in Counts, counts'.inserts = counts.inserts + 1,
         moment' = moment \/ moment' \in Moments,
         UNCHANGED <<flat, rumors, written, allowed, owed, erased>>
  PROVE  MemoryInv'
<1> DEFINE us == Put(units, i, u)
<1>1. Sound(us, counts.inserts + 1, allowed) /\ RumorsKept(units, us)
  BY StoreBefore, PutKeeps, PutApart DEF UnitIds
<1> HIDE DEF us
<1>2. Sound(units', counts'.inserts, allowed) /\ RumorsKept(us, units')
  BY <1>1, MarkConsumedKeeps DEF us
<1>3. owed' \subseteq allowed' /\ written' \in [Topics -> Nat]
  BY DEF MemoryInv, MemoryTypes
<1>4. counts.inserts <= counts'.inserts
  BY StoreBefore
<1> QED BY <1>1, <1>2, <1>3, <1>4, KeptTwice, QuietStep

(* One that the game master asks for. *)
LEMMA ConsolidateMemoryKeeps ==
  ASSUME MemoryInv, NEW ids, ids \subseteq DOMAIN units, NEW tier \in 2..4, NEW naming \in BOOLEAN,
         ConsolidateMemory(ids, tier, naming)
  PROVE  MemoryInv'
<1> DEFINE records == IF naming THEN RecordsOf(units, ids) ELSE {}
           first == units[AnyOf(ids)]
           u == [Unit(first.owner, first.vis, first.truth, FactsOf(units, ids), "gm_tool")
                   EXCEPT !.tier = tier, !.records = records]
<1>1. PICK sign \in {1, -1} :
        units' = MarkConsumed(Put(units, MemoryId(sign * (counts.inserts + 1), "crystal"), u), ids)
  BY DEF ConsolidateMemory, HashSigns, AnyOf
<1>2. Sound(units, counts.inserts, allowed) /\ counts \in Counts /\ counts.inserts \in Nat
  BY StoreBefore
<1>3. records \in SUBSET Topics
  BY DEF RecordsOf, MemoryInv, MemoryTypes, Store, UnitRecords
<1>4. u \in UnitRecords /\ Given(u) \subseteq allowed
  <2>1. ids # {} /\ Alike(units, ids) /\ tier \in 1..4
    BY DEF ConsolidateMemory
  <2> QED BY <1>2, <1>3, <2>1, CrystalTells
<1> HIDE DEF u
<1>5. "crystal" \in Roles /\ counts' \in Counts /\ counts'.inserts = counts.inserts + 1
  BY <1>2, CountsGrow DEF Roles, ConsolidateMemory
<1>6. UNCHANGED <<flat, rumors, written, moment, allowed, owed, erased>>
  BY DEF ConsolidateMemory
<1> QED BY <1>1, <1>2, <1>4, <1>5, <1>6, NewId, CrystallizedKeeps

(* The units of a batch are alike, and below the highest tier. *)
LEMMA BatchesAlike ==
  ASSUME NEW us, NEW ids \in Batches(us)
  PROVE  ids # {} /\ ids \subseteq DOMAIN us /\ Alike(us, ids) /\ us[AnyOf(ids)].tier \in 1..3
<1>1. PICK tier \in 1..3 : ids \in Groups(us, tier)
  BY DEF Batches
<1>2. PICK key : /\ ids \subseteq {j \in Loose(us, tier) : BatchKey(us[j]) = key}
                 /\ Cardinality(ids) = SourceCount
  BY <1>1 DEF Groups
<1>3. ids # {}
  BY <1>2, FS_EmptySet, MemoryAssumption
<1>4. AnyOf(ids) \in ids
  BY <1>3 DEF AnyOf
<1> QED BY <1>2, <1>3, <1>4 DEF Loose, Alike, BatchKey

(* One that the end of the turn makes. *)
LEMMA CrystallizeKeeps ==
  ASSUME MemoryInv, Crystallize
  PROVE  MemoryInv'
<1>1. PICK ids \in Batches(units), sign \in {1, -1} :
        units' = MarkConsumed(Put(units, MemoryId(sign * (counts.inserts + 1), "crystal"),
                                  CrystalUnit(units, ids)), ids)
  BY DEF Crystallize, HashSigns
<1> DEFINE first == units[AnyOf(ids)]
           u == [Unit(first.owner, UNION {units[i].vis : i \in ids}, first.truth, FactsOf(units, ids), "crystal")
                   EXCEPT !.tier = first.tier + 1, !.records = RecordsOf(units, ids)]
<1>2. Sound(units, counts.inserts, allowed) /\ counts \in Counts /\ counts.inserts \in Nat
  BY StoreBefore
<1>3. ids # {} /\ ids \subseteq DOMAIN units /\ Alike(units, ids) /\ first.tier + 1 \in 1..4
  BY BatchesAlike
<1>4. RecordsOf(units, ids) \in SUBSET Topics
  BY <1>3 DEF RecordsOf, MemoryInv, MemoryTypes, Store, UnitRecords
<1>5. u \in UnitRecords /\ Given(u) \subseteq allowed
  BY <1>2, <1>3, <1>4, CrystalTells
<1>6. CrystalUnit(units, ids) = u
  BY DEF CrystalUnit, AnyOf
<1> HIDE DEF u
<1>7. "crystal" \in Roles /\ counts' \in Counts /\ counts'.inserts = counts.inserts + 1
  BY <1>2 DEF Roles, Crystallize, Counts
<1>8. moment' \in Moments /\ UNCHANGED <<flat, rumors, written, allowed, owed, erased>>
  <2>1. moment \in Moments /\ moment' = [moment EXCEPT !.batches = @ + 1]
    BY DEF Crystallize, MemoryInv, MemoryTypes
  <2>2. moment' \in Moments
    BY <2>1 DEF Moments
  <2> QED BY <2>2 DEF Crystallize
<1> QED BY <1>1, <1>2, <1>5, <1>6, <1>7, <1>8, NewId, CrystallizedKeeps

-----------------------------------------------------------------------------
(* Beats.                                                                  *)

(* The units of a beat. *)
LEMMA ObservedUnits ==
  ASSUME counts.inserts \in Nat, NEW there, NEW heard, NEW spot \in Spots
  PROVE  LET new == Observed(counts.inserts + 1, there, heard, spot)
         IN  \A i \in DOMAIN new : /\ i \in UnitIds /\ ~ IsRumorId(i) /\ 0 <= i[2] + counts.inserts + 1
                                   /\ new[i] \in UnitRecords
<1> DEFINE n == counts.inserts + 1
           said == {<<"beat", n, "said">>}
           new == Observed(n, there, heard, spot)
<1>1. said \in SUBSET Facts
  BY DEF Facts
<1>2. spot \in Owners /\ "player" \in Owners /\ Folk \subseteq Owners
  BY DEF Owners, Scopes
<1>3. ASSUME NEW i \in DOMAIN new
      PROVE  \E role \in Roles : i = MemoryId(n, role) /\ (role = "room" \/ role = "player" \/ role \in Folk)
  BY <1>3 DEF Observed, Roles
<1>4. ASSUME NEW i \in DOMAIN new
      PROVE  new[i] \in UnitRecords
  <2>1. PICK role \in Roles : i = MemoryId(n, role) /\ (role = "room" \/ role = "player" \/ role \in Folk)
    BY <1>3
  <2>2. i[3] = role
    BY <2>1 DEF MemoryId
  <2>3. CASE role = "room"
    <3>1. new[i] = Unit(spot, {spot}, "actual", said, "room_observer")
      BY <2>2, <2>3 DEF Observed
    <3>2. Unit(spot, {spot}, "actual", said, "room_observer") \in UnitRecords
      BY <1>1, <1>2, UnitTells
    <3> QED BY <3>1, <3>2
  <2>4. CASE role = "player"
    <3>1. new[i] = Unit("player", {"player"}, "actual", said, "player_observer")
      BY <2>2, <2>4 DEF Observed
    <3>2. Unit("player", {"player"}, "actual", said, "player_observer") \in UnitRecords
      BY <1>1, <1>2, UnitTells
    <3> QED BY <3>1, <3>2
  <2>5. CASE role \in Folk /\ role # "room" /\ role # "player"
    <3>1. new[i] = Unit(role, {}, "actual", said, "scene_observer")
      BY <2>2, <2>5 DEF Observed
    <3>2. Unit(role, {}, "actual", said, "scene_observer") \in UnitRecords
      BY <2>5, <1>1, <1>2, UnitTells
    <3> QED BY <3>1, <3>2
  <2> QED BY <2>1, <2>3, <2>4, <2>5
<1> HIDE DEF new
<1> QED BY <1>3, <1>4, PlainId DEF new

(* The player's action. *)
LEMMA PlayerActsKeeps ==
  ASSUME MemoryInv, NEW there, NEW heard, NEW spot \in Spots, PlayerActs(there, heard, spot)
  PROVE  MemoryInv'
<1> DEFINE new == Observed(counts.inserts + 1, there, heard \cup {"player"}, spot)
           given == UNION {Given(new[i]) : i \in DOMAIN new}
<1>1. \A i \in DOMAIN new : /\ i \in UnitIds /\ ~ IsRumorId(i) /\ 0 <= i[2] + counts.inserts + 1
                            /\ new[i] \in UnitRecords /\ Given(new[i]) \subseteq given
  BY StoreBefore, ObservedUnits
<1>2. /\ units' = PutAll(units, new) /\ allowed' = allowed \cup given /\ owed' = owed \cup given
      /\ counts' = Insertion("beats") /\ UNCHANGED <<flat, rumors, written, moment, erased>>
  BY DEF PlayerActs
<1> HIDE DEF new, given
<1> QED BY <1>1, <1>2, InsertionKeeps
-----------------------------------------------------------------------------
(* Rumours.                                                                *)

(* RumorsNumbered, of any rumours and any number of insertions. *)
Numbered(xs, n) ==
  \A k, l \in DOMAIN xs : xs[k].seq <= n /\ (xs[k].seq = xs[l].seq => k = l)

(* Ids of rumours are as different as their numbers. *)
LEMMA RumorIds ==
  /\ \A a \in Nat : RumorId(a) \in UnitIds /\ IsRumorId(RumorId(a)) /\ RumorId(a)[2] = a
  /\ \A a, b \in Nat : RumorId(a) = RumorId(b) <=> a = b
BY DEF RumorId, UnitIds, IsRumorId

(* The rumours of a sequence are rumours. *)
LEMMA RumorTypes ==
  ASSUME NEW xs \in Seq(RumorRecords)
  PROVE  /\ \A k \in DOMAIN xs : xs[k] \in RumorRecords /\ xs[k].seq \in Nat
         /\ \A x \in RumorsIn(xs) : x \in RumorRecords /\ x.seq \in Nat
<1>1. \A k \in DOMAIN xs : xs[k] \in RumorRecords
  BY ElementOfSeq, LenProperties
<1> QED BY <1>1 DEF RumorRecords, RumorsIn

(* The unit of a rumour mirrors it. *)
LEMMA RumorUnitTells ==
  ASSUME NEW x \in RumorRecords
  PROVE  LET u == RumorUnit(x)
         IN  /\ u \in UnitRecords /\ u.owner = x.owner /\ u.vis = x.known
             /\ u.records = {} /\ u.maker = "rumor_graph" /\ (DefaultVisible(u) => x.alive)
<1> DEFINE truth == IF x.confirmed THEN "claim" ELSE "rumor"
           plain == Unit(x.owner, x.known, truth, {<<"rumor", x.seq, "text">>}, "rumor_graph")
           state == IF x.alive THEN "hot" ELSE "cold"
<1>1. /\ x.owner \in Owners /\ x.known \in SUBSET Owners /\ {<<"rumor", x.seq, "text">>} \in SUBSET Facts
      /\ truth \in {"actual", "belief", "claim", "rumor"}
  BY DEF RumorRecords, Facts
<1>2. plain \in UnitRecords
  BY <1>1, UnitTells
<1>3. plain.owner = x.owner /\ plain.vis = x.known /\ plain.records = {} /\ plain.maker = "rumor_graph"
  BY DEF Unit
<1>4. RumorUnit(x) = [plain EXCEPT !.state = state]
  BY DEF RumorUnit
<1> HIDE DEF plain
<1>5. [plain EXCEPT !.state = state] \in UnitRecords
  BY <1>2, StateApart
<1>6. LET u == [plain EXCEPT !.state = state]
      IN  /\ u.owner = x.owner /\ u.vis = x.known /\ u.records = {} /\ u.maker = "rumor_graph" /\ u.state = state
  BY <1>2, <1>3 DEF UnitRecords
<1> QED BY <1>4, <1>5, <1>6 DEF DefaultVisible

(* The cap drops rumours from the front, and never the last. *)
LEMMA CappedKeeps ==
  ASSUME NEW xs \in Seq(RumorRecords), Len(xs) > 0
  PROVE  LET ys == Capped(xs)
         IN  /\ ys \in Seq(RumorRecords) /\ 0 < Len(ys) /\ Len(ys) <= RumorsCap
             /\ \E d \in Nat : /\ Len(xs) = Len(ys) + d
                               /\ \A k \in DOMAIN ys : k + d \in DOMAIN xs /\ ys[k] = xs[k + d]
<1> DEFINE from == IF Len(xs) > RumorsCap THEN Len(xs) - RumorsCap + 1 ELSE 1
           ys == SubSeq(xs, from, Len(xs))
<1>1. Len(xs) \in Nat /\ DOMAIN xs = 1 .. Len(xs) /\ RumorsCap \in Nat /\ RumorsCap > 0
  BY LenProperties, MemoryAssumption
<1>2. from \in 1 .. Len(xs) /\ Len(xs) - from + 1 <= RumorsCap
  BY <1>1
<1> HIDE DEF from
<1>3. ys \in Seq(RumorRecords)
  BY <1>1, <1>2, SubSeqProperties
<1>4. Len(ys) = Len(xs) - from + 1
  BY <1>1, <1>2, SubSeqProperties
<1>5. \A k \in 1 .. Len(xs) - from + 1 : ys[k] = xs[from + k - 1]
  BY <1>1, <1>2, SubSeqProperties
<1>6. DOMAIN ys = 1 .. Len(xs) - from + 1
  BY <1>3, <1>4, LenProperties
<1> HIDE DEF ys
<1>7. from - 1 \in Nat /\ Len(xs) = Len(ys) + (from - 1)
  BY <1>1, <1>2, <1>4
<1>8. \A k \in DOMAIN ys : k + (from - 1) \in DOMAIN xs /\ ys[k] = xs[k + (from - 1)]
  <2>1. ASSUME NEW k \in DOMAIN ys
        PROVE  k + (from - 1) \in DOMAIN xs /\ ys[k] = xs[k + (from - 1)]
    <3>1. k \in 1 .. Len(xs) - from + 1
      BY <1>6
    <3>2. from + k - 1 = k + (from - 1) /\ k + (from - 1) \in 1 .. Len(xs)
      BY <1>1, <1>2, <3>1
    <3>3. ys[k] = xs[from + k - 1]
      BY <1>5, <3>1
    <3> QED BY <1>1, <3>2, <3>3
  <2> QED BY <2>1
<1>9. 0 < Len(ys) /\ Len(ys) <= RumorsCap
  BY <1>1, <1>2, <1>4
<1> QED BY <1>3, <1>7, <1>8, <1>9 DEF Capped, ys, from

(* A new rumour: the oldest make room, with their units, and its unit is   *)
(* put in.                                                                 *)
LEMMA SpokenKeeps ==
  ASSUME MemoryInv, NEW us, NEW given, Sound(us, counts.inserts + 1, given), RumorsKept(units, us),
         NEW x \in RumorRecords, x.seq = counts.inserts + 1, Given(RumorUnit(x)) \subseteq given
  PROVE  LET live == Capped(Append(rumors, x))
             vs == RumorSynced(Pruned(us, live), x)
         IN  /\ live \in Seq(RumorRecords) /\ Len(live) <= RumorsCap
             /\ Numbered(live, counts.inserts + 1)
             /\ Sound(vs, counts.inserts + 1, given) /\ Mirrored(vs, live, erased) /\ RumorsApart(vs)
<1> DEFINE n == counts.inserts
           all == Append(rumors, x)
           live == Capped(all)
           kept == Pruned(us, live)
           vs == RumorSynced(kept, x)
<1>1. n \in Nat /\ rumors \in Seq(RumorRecords) /\ RumorsNumbered
  BY StoreBefore DEF MemoryInv, MemoryTypes
<1>2. /\ all \in Seq(RumorRecords) /\ Len(all) = Len(rumors) + 1 /\ Len(rumors) \in Nat
      /\ DOMAIN all = 1 .. Len(rumors) + 1 /\ DOMAIN rumors = 1 .. Len(rumors)
      /\ \A k \in 1 .. Len(rumors) : all[k] = rumors[k]
      /\ all[Len(rumors) + 1] = x
  BY <1>1, AppendProperties, LenProperties
<1>3. \A k \in DOMAIN rumors : rumors[k].seq \in Nat
  BY <1>1, RumorTypes
<1>4. Numbered(all, n + 1)
  <2>1. \A k \in 1 .. Len(rumors) : all[k].seq \in Nat /\ all[k].seq <= n
    BY <1>2, <1>3, <1>1 DEF RumorsNumbered
  <2>2. all[Len(rumors) + 1].seq = n + 1
    BY <1>2
  <2>3. ASSUME NEW k \in DOMAIN all, NEW l \in DOMAIN all, all[k].seq = all[l].seq
        PROVE  k = l
    <3>1. CASE k \in DOMAIN rumors /\ l \in DOMAIN rumors
      BY <1>1, <1>2, <2>3, <3>1 DEF RumorsNumbered
    <3>2. CASE k = Len(rumors) + 1 \/ l = Len(rumors) + 1
      BY <1>1, <1>2, <2>1, <2>2, <2>3, <3>2
    <3> QED BY <1>2, <3>1, <3>2
  <2>4. ASSUME NEW k \in DOMAIN all PROVE all[k].seq <= n + 1
    BY <1>1, <1>2, <2>1, <2>2
  <2> QED BY <2>3, <2>4 DEF Numbered
<1> HIDE DEF all
<1>5. Len(all) > 0 /\ live \in Seq(RumorRecords) /\ 0 < Len(live) /\ Len(live) <= RumorsCap
  BY <1>2, CappedKeeps
<1>6. PICK d \in Nat : /\ Len(all) = Len(live) + d
                       /\ \A k \in DOMAIN live : k + d \in DOMAIN all /\ live[k] = all[k + d]
  BY <1>2, <1>5, CappedKeeps
<1> HIDE DEF live
<1>7. Len(live) \in Nat /\ DOMAIN live = 1 .. Len(live)
  BY <1>5, LenProperties
<1>8. Numbered(live, n + 1)
  <2>1. \A k, l \in DOMAIN live : k + d = l + d => k = l
    BY <1>6, <1>7
  <2> QED BY <1>4, <1>6, <2>1 DEF Numbered
<1>9. x \in RumorsIn(live)
  <2>1. Len(live) \in DOMAIN live /\ live[Len(live)] = all[Len(live) + d]
    BY <1>5, <1>6, <1>7
  <2>2. live[Len(live)] = x
    BY <1>2, <1>6, <2>1
  <2> QED BY <2>1, <2>2 DEF RumorsIn
<1>10. ASSUME NEW y \in RumorsIn(live), y # x
       PROVE  y \in RumorsIn(rumors) /\ y.seq \in Nat /\ y.seq # x.seq
  <2>1. PICK k \in DOMAIN live : y = live[k]
    BY DEF RumorsIn
  <2>2. y = all[k + d] /\ k + d \in 1 .. Len(rumors) + 1 /\ k + d # Len(rumors) + 1
    BY <1>2, <1>6, <1>10, <2>1
  <2>3. k + d \in DOMAIN rumors /\ y = rumors[k + d]
    BY <1>2, <2>2
  <2>4. y.seq <= n /\ y.seq \in Nat
    BY <1>1, <1>3, <2>3 DEF RumorsNumbered
  <2> QED BY <1>1, <2>3, <2>4 DEF RumorsIn
<1>11. Mirrored(us, rumors, erased) /\ RumorsApart(us)
  BY MirroredMeans, MirroredKept, StoreBefore, ApartKept DEF MemoryInv
<1>12. RumorUnit(x) \in UnitRecords
  BY RumorUnitTells
<1>13. Sound(kept, n + 1, given)
  BY DEF Sound, Store, Discreet, Pruned
<1>14. RumorId(x.seq) \in UnitIds /\ 0 <= RumorId(x.seq)[2] + (n + 1) /\ IsRumorId(RumorId(x.seq))
  BY <1>1, RumorIds
<1>15. Sound(vs, n + 1, given)
  BY <1>12, <1>13, <1>14, PutKeeps DEF RumorSynced
<1>16. RumorsApart(vs)
  BY <1>11, RumorUnitTells DEF RumorsApart, RumorSynced, Put, Pruned
<1>17. Mirrored(vs, live, erased)
  <2>1. DOMAIN vs = DOMAIN kept \cup {RumorId(x.seq)} /\ vs[RumorId(x.seq)] = RumorUnit(x)
    BY DEF RumorSynced, Put
  <2>0. RumorId(x.seq) \notin erased
    BY <1>1, RumorIds DEF MemoryInv, MemoryTypes, Bygone
  <2>2. ASSUME NEW y \in RumorsIn(live), y # x, RumorId(y.seq) \notin erased
        PROVE  /\ RumorId(y.seq) \in DOMAIN us /\ RumorId(y.seq) \in DOMAIN kept
               /\ vs[RumorId(y.seq)] = us[RumorId(y.seq)]
    <3>1. RumorId(y.seq) \in DOMAIN us /\ RumorId(y.seq) \in LiveIds(live)
      BY <1>10, <1>11, <2>2 DEF Mirrored, LiveIds
    <3>2. RumorId(y.seq) # RumorId(x.seq)
      BY <1>1, <1>10, <2>2, RumorIds
    <3>3. RumorId(y.seq) \in DOMAIN kept /\ kept[RumorId(y.seq)] = us[RumorId(y.seq)]
      BY <3>1 DEF Pruned
    <3> QED BY <3>1, <3>2, <3>3 DEF RumorSynced, Put
  <2>3. LiveIds(live) \ erased \subseteq {i \in DOMAIN vs : IsRumorId(i)}
    <3>1. \A y \in RumorsIn(live) : y.seq \in Nat
      BY <1>5, RumorTypes
    <3> QED BY <2>1, <2>2, <3>1, RumorIds DEF LiveIds
  <2>4. {i \in DOMAIN vs : IsRumorId(i)} \subseteq LiveIds(live) \ erased
    <3>1. \A i \in DOMAIN kept : IsRumorId(i) => i \in LiveIds(live) \ erased
      BY <1>11 DEF Pruned, RumorsApart, Mirrored
    <3> QED BY <1>9, <2>0, <2>1, <3>1 DEF LiveIds
  <2>5. ASSUME NEW y \in RumorsIn(live), RumorId(y.seq) \notin erased
        PROVE  LET u == vs[RumorId(y.seq)]
               IN  /\ u.owner = y.owner /\ u.vis = y.known
                   /\ u.truth = RumorUnit(y).truth /\ (DefaultVisible(u) => y.alive)
    <3>1. CASE y = x
      BY <2>1, <3>1, RumorUnitTells
    <3>2. CASE y # x
      BY <1>10, <1>11, <2>2, <2>5, <3>2 DEF Mirrored
    <3> QED BY <3>1, <3>2
  <2> QED BY <2>3, <2>4, <2>5 DEF Mirrored
<1> QED BY <1>5, <1>8, <1>15, <1>16, <1>17 DEF live, all
(* A step of the rumours, with the store it leaves. *)
LEMMA RumorsReplaced ==
  ASSUME MemoryInv,
         rumors' \in Seq(RumorRecords), Len(rumors') <= RumorsCap, Numbered(rumors', counts'.inserts),
         Sound(units', counts'.inserts, allowed'), Mirrored(units', rumors', erased'), RumorsApart(units'),
         Bygone(erased', counts'.inserts),
         allowed \subseteq allowed', owed' \subseteq allowed', counts' \in Counts,
         moment' = moment \/ moment' \in Moments, UNCHANGED <<flat, written>>
  PROVE  MemoryInv'
<1>1. MemoryTypes'
  BY DEF MemoryInv, MemoryTypes, Moments, Sound, Counts, Bygone
<1>2. SecretsKept' /\ SeedsGiven'
  BY DEF Sound, Discreet, SecretsKept, MemoryInv, SeedsGiven, Migrated
<1>3. RumorsMirrored'
  BY MirroredMeans
<1>4. RumorsNumbered'
  BY DEF Numbered, RumorsNumbered
<1> QED BY <1>1, <1>2, <1>3, <1>4 DEF MemoryInv, RumorsApart

(* The units of the beat of a character, and of what it claimed. *)
LEMMA ClaimedUnits ==
  ASSUME counts.inserts \in Nat, NEW speaker \in Folk, NEW heard, heard \subseteq Folk \cup {"player"}
  PROVE  LET new == Claimed(counts.inserts + 1, speaker, heard)
         IN  \A i \in DOMAIN new : /\ i \in UnitIds /\ ~ IsRumorId(i) /\ 0 <= i[2] + counts.inserts + 1
                                   /\ new[i] \in UnitRecords
<1> DEFINE n == counts.inserts + 1
           u == Unit(speaker, {speaker} \cup heard, "claim", {<<"beat", n, "claim">>}, "npc_claim")
<1>1. {<<"beat", n, "claim">>} \in SUBSET Facts /\ speaker \in Owners /\ {speaker} \cup heard \in SUBSET Owners
  BY DEF Facts, Owners, Scopes
<1>2. u \in UnitRecords
  BY <1>1, UnitTells
<1>3. "claim" \in Roles
  BY DEF Roles
<1>4. Claimed(n, speaker, heard) = [i \in {MemoryId(n, "claim")} |-> u]
  BY DEF Claimed
<1> HIDE DEF u
<1> QED BY <1>2, <1>3, <1>4, PlainId

(* record_rumor makes a rumour. *)
LEMMA RumorOfSpeech ==
  ASSUME NEW n \in Nat, NEW speaker \in Folk, NEW there, NEW heard, heard \subseteq Folk \cup {"player"}, NEW spot \in Spots
  PROVE  RumorOf(n, speaker, there, heard, spot) \in RumorRecords /\ RumorOf(n, speaker, there, heard, spot).seq = n
<1> DEFINE audible == there \cup {"player"} \subseteq heard /\ (Cardinality(there) > 1 \/ Cardinality(heard) > 2)
           owner == IF audible THEN spot ELSE speaker
           known == {speaker} \cup heard \cup IF audible THEN {spot} ELSE {}
<1>1. owner \in Owners /\ known \in SUBSET Owners
  BY DEF Owners, Scopes
<1>2. RumorOf(n, speaker, there, heard, spot)
        = [seq |-> n, owner |-> owner, alive |-> TRUE, confirmed |-> FALSE, known |-> known]
  BY DEF RumorOf
<1> HIDE DEF owner, known
<1> QED BY <1>1, <1>2 DEF RumorRecords

(* A draft becomes a beat, with its claims and its rumour. *)
LEMMA CommitBeatKeeps ==
  ASSUME MemoryInv, NEW speaker \in Folk, NEW there, NEW heard, heard \subseteq Folk \cup {"player"},
         NEW spot \in Spots, NEW claims \in BOOLEAN, NEW speech \in BOOLEAN,
         CommitBeat(speaker, there, heard, spot, claims, speech)
  PROVE  MemoryInv'
<1> DEFINE n == counts.inserts + 1
           seen == Observed(n, there, heard, spot)
           said == IF claims THEN Claimed(n, speaker, heard) ELSE << >>
           new == PutAll(seen, said)
           x == RumorOf(n, speaker, there, heard, spot)
           live == Capped(Append(rumors, x))
           us == PutAll(units, new)
           told == UNION {Given(new[i]) : i \in DOMAIN new}
           given == told \cup IF speech THEN Given(RumorUnit(x)) ELSE {}
<1>1. counts.inserts \in Nat /\ counts \in Counts /\ n \in Nat
  BY StoreBefore
<1>2. \A i \in DOMAIN seen : /\ i \in UnitIds /\ ~ IsRumorId(i) /\ 0 <= i[2] + counts.inserts + 1
                             /\ seen[i] \in UnitRecords
  BY <1>1, ObservedUnits
<1>3. \A i \in DOMAIN said : /\ i \in UnitIds /\ ~ IsRumorId(i) /\ 0 <= i[2] + counts.inserts + 1
                             /\ said[i] \in UnitRecords
  BY <1>1, ClaimedUnits
<1>4. /\ units' = IF speech THEN RumorSynced(Pruned(us, live), x) ELSE us
      /\ rumors' = IF speech THEN live ELSE rumors
      /\ allowed' = allowed \cup given /\ owed' \subseteq owed \cup given
      /\ counts' = Insertion("beats") /\ moment' \in Moments /\ UNCHANGED <<flat, written, erased>>
  <2>1. /\ units' = IF speech THEN RumorSynced(Pruned(us, live), x) ELSE us
        /\ rumors' = IF speech THEN live ELSE rumors
    BY DEF CommitBeat
  <2>4. allowed' = allowed \cup given
    BY DEF CommitBeat
  <2>5. \E lost : owed' = Without(owed, lost) \cup given
    BY DEF CommitBeat
  <2>6. owed' \subseteq owed \cup given
    BY Zenon, <2>5 DEF Without
  <2>2. counts' = Insertion("beats") /\ UNCHANGED <<flat, written, erased>>
    BY DEF CommitBeat
  <2>3. moment' \in Moments
    BY DEF CommitBeat, MemoryInv, MemoryTypes, Moments
  <2> QED BY <2>1, <2>2, <2>3, <2>4, <2>6
<1> HIDE DEF seen, said
<1>5. \A i \in DOMAIN new : /\ i \in UnitIds /\ ~ IsRumorId(i) /\ 0 <= i[2] + counts.inserts + 1
                            /\ new[i] \in UnitRecords /\ Given(new[i]) \subseteq told
  BY <1>2, <1>3 DEF PutAll
<1>6. counts' \in Counts /\ counts'.inserts = n
  BY <1>1, <1>4, CountsGrow
<1> HIDE DEF new, told
<1>7. CASE ~ speech
  BY <1>4, <1>5, <1>7, InsertionKeeps
<1>8. CASE speech
  <2>1. Sound(us, n, allowed') /\ RumorsKept(units, us)
    <3>1. Sound(units, n, allowed')
      BY <1>4, StoreBefore, SoundGrows
    <3>2. Sound(new, n, allowed')
      <4>1. ASSUME NEW i \in DOMAIN new PROVE 0 <= i[2] + n
        BY <1>1, <1>5 DEF UnitIds
      <4> QED BY <1>4, <1>5, <4>1 DEF Sound, Store, Discreet
    <3> QED BY <1>5, <3>1, <3>2, PutAllKeeps, PutAllApart
  <2>2. x \in RumorRecords /\ x.seq = n /\ Given(RumorUnit(x)) \subseteq allowed'
    BY <1>1, <1>4, <1>8, RumorOfSpeech
  <2> HIDE DEF us, x
  <2>3. /\ live \in Seq(RumorRecords) /\ Len(live) <= RumorsCap /\ Numbered(live, n)
        /\ Sound(units', n, allowed') /\ Mirrored(units', live, erased) /\ RumorsApart(units')
    BY <1>4, <1>8, <2>1, <2>2, SpokenKeeps
  <2>4. rumors' = live /\ owed' \subseteq allowed'
    BY <1>4, <1>8 DEF MemoryInv, MemoryTypes
  <2> HIDE DEF live
  <2>5. Bygone(erased, n)
    BY <1>1, BygoneStays DEF MemoryInv, MemoryTypes
  <2> QED BY <1>4, <1>6, <2>3, <2>4, <2>5, RumorsReplaced
<1> QED BY <1>7, <1>8

(* add_debug_rumor *)
LEMMA AddDebugRumorKeeps ==
  ASSUME MemoryInv, AddDebugRumor
  PROVE  MemoryInv'
<1> DEFINE n == counts.inserts + 1
           x == [seq |-> n, owner |-> "gm_private", known |-> {"gm_private"}, alive |-> TRUE, confirmed |-> FALSE]
           live == Capped(Append(rumors, x))
<1>1. counts.inserts \in Nat /\ counts \in Counts /\ n \in Nat
  BY StoreBefore
<1>2. x \in RumorRecords /\ x.seq = n
  BY <1>1 DEF RumorRecords, Owners
<1>3. /\ units' = RumorSynced(Pruned(units, live), x) /\ rumors' = live
      /\ allowed' = allowed \cup Given(RumorUnit(x)) /\ owed' \subseteq owed \cup Given(RumorUnit(x))
      /\ counts' = Insertion("tools") /\ UNCHANGED <<flat, written, moment, erased>>
  BY DEF AddDebugRumor, Without
<1>4. counts' \in Counts /\ counts'.inserts = n
  BY <1>1, <1>3, CountsGrow
<1>5. Sound(units, n, allowed') /\ RumorsKept(units, units)
  BY <1>3, StoreBefore, SoundGrows DEF RumorsKept
<1> HIDE DEF x
<1>6. /\ live \in Seq(RumorRecords) /\ Len(live) <= RumorsCap /\ Numbered(live, n)
      /\ Sound(units', n, allowed') /\ Mirrored(units', live, erased) /\ RumorsApart(units')
  BY <1>2, <1>3, <1>5, SpokenKeeps
<1>7. owed' \subseteq allowed'
  BY <1>3 DEF MemoryInv, MemoryTypes
<1> HIDE DEF live
<1>8. Bygone(erased, n)
  BY <1>1, BygoneStays DEF MemoryInv, MemoryTypes
<1> QED BY <1>3, <1>4, <1>6, <1>7, <1>8, RumorsReplaced
(* Rumours that change, but for their number, with their units. *)
LEMMA RumorsBecomeKeeps ==
  ASSUME MemoryInv, NEW xs \in [DOMAIN rumors -> RumorRecords],
         \A k \in DOMAIN rumors : xs[k].seq = rumors[k].seq,
         RumorsBecome(xs), counts' \in Counts, counts'.inserts = counts.inserts,
         UNCHANGED <<flat, written, moment>>
  PROVE  MemoryInv'
<1> DEFINE n == counts.inserts
           changed == {k \in DOMAIN xs : xs[k] # rumors[k]}
           new == [i \in {RumorId(xs[k].seq) : k \in changed} |->
                     RumorUnit(xs[CHOOSE k \in changed : RumorId(xs[k].seq) = i])]
           given == UNION {Given(RumorUnit(xs[k])) : k \in changed}
<1>1. /\ rumors \in Seq(RumorRecords) /\ RumorsNumbered /\ Mirrored(units, rumors, erased) /\ RumorsApart(units)
      /\ Len(rumors) <= RumorsCap /\ n \in Nat
  BY StoreBefore, MirroredMeans DEF MemoryInv, MemoryTypes
<1>2. DOMAIN rumors = 1 .. Len(rumors) /\ Len(rumors) \in Nat
  BY <1>1, LenProperties
<1>3. xs \in Seq(RumorRecords) /\ DOMAIN xs = DOMAIN rumors
  BY <1>2, SeqDef
<1>4. Len(xs) = Len(rumors)
  BY <1>2, <1>3, LenProperties
<1>5. \A k \in DOMAIN xs : xs[k] \in RumorRecords /\ xs[k].seq \in Nat
  BY <1>3, RumorTypes
<1>6. Numbered(xs, n)
  BY <1>1, <1>3 DEF RumorsNumbered, Numbered
<1>7. \A k, l \in DOMAIN xs : RumorId(xs[k].seq) = RumorId(xs[l].seq) => k = l
  BY <1>5, <1>6, RumorIds DEF Numbered
<1>8. /\ rumors' = xs /\ units' = PutAll(units, new) /\ allowed' = allowed \cup given
      /\ owed' \subseteq owed \cup given /\ erased' = erased \ {RumorId(xs[k].seq) : k \in changed}
  BY DEF RumorsBecome, Resynced, Without
<1>9. ASSUME NEW k \in changed
      PROVE  RumorId(xs[k].seq) \in DOMAIN new /\ new[RumorId(xs[k].seq)] = RumorUnit(xs[k])
  <2>1. (CHOOSE l \in changed : RumorId(xs[l].seq) = RumorId(xs[k].seq)) = k
    BY <1>7
  <2> QED BY <2>1
<1>10. \A i \in DOMAIN new : \E k \in changed : i = RumorId(xs[k].seq)
  OBVIOUS
<1> HIDE DEF new
<1>11. Sound(new, n, allowed')
  <2>1. ASSUME NEW i \in DOMAIN new
        PROVE  i \in UnitIds /\ 0 <= i[2] + n /\ new[i] \in UnitRecords /\ Given(new[i]) \subseteq allowed'
    <3>1. PICK k \in changed : i = RumorId(xs[k].seq)
      BY <1>10
    <3>2. new[i] = RumorUnit(xs[k]) /\ xs[k] \in RumorRecords /\ xs[k].seq \in Nat
      BY <1>5, <1>9, <3>1
    <3>3. i \in UnitIds /\ 0 <= i[2] + n
      BY <1>1, <3>1, <3>2, RumorIds
    <3>4. Given(RumorUnit(xs[k])) \subseteq allowed'
      BY <1>8
    <3> QED BY <3>2, <3>3, <3>4, RumorUnitTells
  <2> QED BY <2>1 DEF Sound, Store, Discreet
<1>12. Sound(units', n, allowed')
  BY <1>8, <1>11, StoreBefore, SoundGrows, PutAllKeeps
<1>13. RumorsApart(units')
  <2>1. \A i \in DOMAIN new : new[i].records = {} /\ new[i].maker = "rumor_graph"
    BY <1>5, <1>9, <1>10, RumorUnitTells
  <2> QED BY <1>1, <1>8, <2>1 DEF RumorsApart, PutAll
<1>14. Mirrored(units', xs, erased')
  <2>1. ASSUME NEW k \in DOMAIN xs, RumorId(xs[k].seq) \notin erased
        PROVE  RumorId(xs[k].seq) \in DOMAIN units
    <3>1. xs[k].seq = rumors[k].seq /\ rumors[k] \in RumorsIn(rumors)
      BY <1>3 DEF RumorsIn
    <3> QED BY <1>1, <2>1, <3>1 DEF Mirrored, LiveIds
  <2>2. LiveIds(xs) = LiveIds(rumors)
    BY <1>3 DEF LiveIds, RumorsIn
  <2>3. DOMAIN units' = DOMAIN units \cup DOMAIN new /\ DOMAIN new = {RumorId(xs[k].seq) : k \in changed}
    <3>1. DOMAIN new = {RumorId(xs[k].seq) : k \in changed}
      BY <1>9, <1>10
    <3> QED BY <1>8, <3>1 DEF PutAll
  <2>4. LiveIds(xs) \ erased' = {i \in DOMAIN units' : IsRumorId(i)}
    <3>1. DOMAIN new \subseteq LiveIds(xs)
      BY <2>3 DEF LiveIds, RumorsIn
    <3>2. \A i \in DOMAIN new : IsRumorId(i)
      BY <1>5, <1>10, RumorIds
    <3>3. LiveIds(xs) \ erased = {i \in DOMAIN units : IsRumorId(i)}
      BY <1>1, <2>2 DEF Mirrored
    <3> QED BY <1>8, <2>3, <3>1, <3>2, <3>3
  <2>5. ASSUME NEW k \in DOMAIN xs, RumorId(xs[k].seq) \notin erased'
        PROVE  LET x == xs[k]
                   u == units'[RumorId(x.seq)]
               IN  /\ u.owner = x.owner /\ u.vis = x.known
                   /\ u.truth = RumorUnit(x).truth /\ (DefaultVisible(u) => x.alive)
    <3>1. CASE k \in changed
      <4>1. units'[RumorId(xs[k].seq)] = RumorUnit(xs[k])
        BY <1>8, <1>9, <3>1 DEF PutAll
      <4> QED BY <1>5, <4>1, RumorUnitTells
    <3>2. CASE k \notin changed
      <4>1. RumorId(xs[k].seq) \notin DOMAIN new
        BY <1>7, <1>10, <3>2
      <4>2. RumorId(xs[k].seq) \notin erased
        BY <1>8, <2>3, <2>5, <4>1
      <4>3. units'[RumorId(xs[k].seq)] = units[RumorId(xs[k].seq)]
        BY <1>8, <2>1, <4>1, <4>2 DEF PutAll
      <4>4. xs[k] = rumors[k] /\ rumors[k] \in RumorsIn(rumors)
        BY <1>3, <3>2 DEF RumorsIn
      <4> QED BY <1>1, <4>2, <4>3, <4>4 DEF Mirrored
    <3> QED BY <3>1, <3>2
  <2> QED BY <2>4, <2>5 DEF Mirrored, RumorsIn
<1>15. owed' \subseteq allowed' /\ Bygone(erased', n)
  BY <1>8 DEF MemoryInv, MemoryTypes, Bygone
<1> HIDE DEF given, changed
<1> QED BY <1>1, <1>3, <1>4, <1>6, <1>8, <1>12, <1>13, <1>14, <1>15, RumorsReplaced

(* Time passes, the player carries what it heard, or a rumour is confirmed: *)
(* no rumour gets another number or owner, and none is known to fewer.     *)
LEMMA SpreadingMeans ==
  ASSUME MemoryInv,
         \/ \E fading \in SUBSET DOMAIN rumors, reached \in [DOMAIN rumors -> SUBSET Spots] : AdvanceRumors(fading, reached)
         \/ \E path \in Paths : SpreadOnTransition(path)
         \/ \E k \in DOMAIN rumors : ConfirmRumor(k)
  PROVE  /\ counts' \in Counts /\ counts'.inserts = counts.inserts /\ UNCHANGED <<flat, written, moment>>
         /\ \E xs \in [DOMAIN rumors -> RumorRecords] :
              /\ RumorsBecome(xs)
              /\ \A k \in DOMAIN rumors : /\ xs[k].seq = rumors[k].seq /\ xs[k].owner = rumors[k].owner
                                          /\ rumors[k].known \subseteq xs[k].known
<1> DEFINE Grows(xs) == \A k \in DOMAIN rumors : /\ xs[k].seq = rumors[k].seq /\ xs[k].owner = rumors[k].owner
                                                 /\ rumors[k].known \subseteq xs[k].known
           Goal == \E xs \in [DOMAIN rumors -> RumorRecords] : RumorsBecome(xs) /\ Grows(xs)
<1>1. \A k \in DOMAIN rumors : rumors[k] \in RumorRecords
  BY RumorTypes DEF MemoryInv, MemoryTypes
<1>2. Spots \subseteq Owners /\ Paths \subseteq Owners
  BY DEF Owners, Scopes
<1>3. /\ counts' = Step("walks") \/ counts' = Step("tools")
      /\ UNCHANGED <<flat, written, moment>>
  BY DEF AdvanceRumors, SpreadOnTransition, ConfirmRumor
<1>4. counts' \in Counts /\ counts'.inserts = counts.inserts
  BY <1>3, StoreBefore, CountsGrow
<1>5. ASSUME NEW fading, NEW reached \in [DOMAIN rumors -> SUBSET Spots], AdvanceRumors(fading, reached)
      PROVE  Goal
  <2> DEFINE xs == [k \in DOMAIN rumors |->
                      [rumors[k] EXCEPT
                         !.alive = @ /\ k \notin fading,
                         !.known = IF rumors[k].alive /\ k \notin fading /\ CarriedBy(rumors[k]) # {}
                                   THEN @ \cup reached[k] ELSE @]]
  <2>1. ASSUME NEW k \in DOMAIN rumors
        PROVE  /\ xs[k] \in RumorRecords /\ xs[k].seq = rumors[k].seq /\ xs[k].owner = rumors[k].owner
               /\ rumors[k].known \subseteq xs[k].known
    <3> DEFINE x == rumors[k]
               alive == x.alive /\ k \notin fading
               known == IF x.alive /\ k \notin fading /\ CarriedBy(x) # {} THEN x.known \cup reached[k] ELSE x.known
    <3>1. x \in RumorRecords /\ reached[k] \in SUBSET Owners
      BY <1>1, <1>2
    <3>2. alive \in BOOLEAN /\ known \in SUBSET Owners /\ x.known \subseteq known
      BY <3>1 DEF RumorRecords
    <3>3. xs[k] = [x EXCEPT !.alive = alive, !.known = known]
      OBVIOUS
    <3> HIDE DEF x, alive, known, xs
    <3>4. LET y == [x EXCEPT !.alive = alive, !.known = known]
          IN  y \in RumorRecords /\ y.seq = x.seq /\ y.owner = x.owner /\ y.known = known
      BY <3>1, <3>2 DEF RumorRecords
    <3> QED BY <3>2, <3>3, <3>4 DEF x
  <2>2. xs \in [DOMAIN rumors -> RumorRecords]
    BY <2>1
  <2>3. RumorsBecome(xs)
    BY <1>5 DEF AdvanceRumors
  <2> HIDE DEF xs
  <2> QED BY <2>1, <2>2, <2>3
<1>6. ASSUME NEW path \in Paths, SpreadOnTransition(path)
      PROVE  Goal
  <2> DEFINE xs == [k \in DOMAIN rumors |->
                      [rumors[k] EXCEPT !.known = IF rumors[k].alive /\ "player" \in @ THEN @ \cup {path} ELSE @]]
  <2>1. ASSUME NEW k \in DOMAIN rumors
        PROVE  /\ xs[k] \in RumorRecords /\ xs[k].seq = rumors[k].seq /\ xs[k].owner = rumors[k].owner
               /\ rumors[k].known \subseteq xs[k].known
    <3> DEFINE x == rumors[k]
               known == IF x.alive /\ "player" \in x.known THEN x.known \cup {path} ELSE x.known
    <3>1. x \in RumorRecords /\ known \in SUBSET Owners /\ x.known \subseteq known
      BY <1>1, <1>2 DEF RumorRecords
    <3>2. xs[k] = [x EXCEPT !.known = known]
      OBVIOUS
    <3> HIDE DEF x, known, xs
    <3>3. LET y == [x EXCEPT !.known = known]
          IN  y \in RumorRecords /\ y.seq = x.seq /\ y.owner = x.owner /\ y.known = known
      BY <3>1 DEF RumorRecords
    <3> QED BY <3>1, <3>2, <3>3 DEF x
  <2>2. xs \in [DOMAIN rumors -> RumorRecords]
    BY <2>1
  <2>3. RumorsBecome(xs)
    BY <1>6 DEF SpreadOnTransition
  <2> HIDE DEF xs
  <2> QED BY <2>1, <2>2, <2>3
<1>7. ASSUME NEW k \in DOMAIN rumors, ConfirmRumor(k)
      PROVE  Goal
  <2> DEFINE xs == [rumors EXCEPT ![k].confirmed = ~ @]
             flipped == [rumors[k] EXCEPT !.confirmed = ~ rumors[k].confirmed]
  <2>1. /\ flipped \in RumorRecords /\ flipped.seq = rumors[k].seq /\ flipped.owner = rumors[k].owner
        /\ flipped.known = rumors[k].known
    <3> DEFINE x == rumors[k]
               sure == ~ x.confirmed
    <3>1. x \in RumorRecords /\ sure \in BOOLEAN
      BY <1>1
    <3> HIDE DEF x, sure
    <3>2. LET y == [x EXCEPT !.confirmed = sure]
          IN  y \in RumorRecords /\ y.seq = x.seq /\ y.owner = x.owner /\ y.known = x.known
      BY <3>1 DEF RumorRecords
    <3> QED BY <3>2 DEF x, sure
  <2>2. xs = [rumors EXCEPT ![k] = flipped]
    OBVIOUS
  <2> HIDE DEF flipped, xs
  <2>3. DOMAIN xs = DOMAIN rumors /\ \A l \in DOMAIN rumors : xs[l] = IF l = k THEN flipped ELSE rumors[l]
    BY <2>2
  <2>4. xs \in [DOMAIN rumors -> RumorRecords]
    <3>1. xs = [l \in DOMAIN rumors |-> xs[l]]
      BY <2>2
    <3> QED BY <1>1, <2>1, <2>3, <3>1
  <2>5. Grows(xs)
    BY <2>1, <2>3
  <2>6. RumorsBecome(xs)
    BY <1>7 DEF ConfirmRumor, xs
  <2> QED BY <2>4, <2>5, <2>6
<1> QED BY <1>3, <1>4, <1>5, <1>6, <1>7

(* So the invariant is kept. *)
LEMMA SpreadingKeeps ==
  ASSUME MemoryInv,
         \/ \E fading \in SUBSET DOMAIN rumors, reached \in [DOMAIN rumors -> SUBSET Spots] : AdvanceRumors(fading, reached)
         \/ \E path \in Paths : SpreadOnTransition(path)
         \/ \E k \in DOMAIN rumors : ConfirmRumor(k)
  PROVE  MemoryInv'
<1>1. PICK xs \in [DOMAIN rumors -> RumorRecords] : RumorsBecome(xs) /\ \A k \in DOMAIN rumors : xs[k].seq = rumors[k].seq
  BY SpreadingMeans
<1>2. counts' \in Counts /\ counts'.inserts = counts.inserts /\ UNCHANGED <<flat, written, moment>>
  BY SpreadingMeans
<1> QED BY <1>1, <1>2, RumorsBecomeKeeps

(* remove_rumor: the others keep their numbers, and it takes its unit with it. *)
LEMMA RemoveRumorKeeps ==
  ASSUME MemoryInv, NEW k \in DOMAIN rumors, RemoveRumor(k)
  PROVE  MemoryInv'
<1> DEFINE m == Len(rumors)
           before == SubSeq(rumors, 1, k - 1)
           after == SubSeq(rumors, k + 1, m)
           xs == before \o after
           gone == RumorId(rumors[k].seq)
<1>1. /\ rumors \in Seq(RumorRecords) /\ RumorsNumbered /\ Mirrored(units, rumors, erased) /\ RumorsApart(units)
      /\ m <= RumorsCap /\ counts.inserts \in Nat /\ counts \in Counts
  BY StoreBefore, MirroredMeans DEF MemoryInv, MemoryTypes
<1>2. DOMAIN rumors = 1 .. m /\ m \in Nat /\ k \in 1 .. m
  BY <1>1, LenProperties
<1>3. \A l \in DOMAIN rumors : rumors[l] \in RumorRecords /\ rumors[l].seq \in Nat
  BY <1>1, RumorTypes
<1>4. /\ rumors' = xs
      /\ units' = [i \in DOMAIN units \ {gone} |-> units[i]]
      /\ owed' \subseteq owed /\ allowed' = allowed
      /\ counts' = Step("tools") /\ UNCHANGED <<flat, written, moment, erased>>
  BY DEF RemoveRumor, Without
<1>5. counts' \in Counts /\ counts'.inserts = counts.inserts
  BY <1>1, <1>4, CountsGrow
<1>6. /\ before \in Seq(RumorRecords) /\ Len(before) = k - 1
      /\ \A l \in 1 .. k - 1 : before[l] = rumors[l]
  <2>1. \A l \in 1 .. k - 1 : rumors[l] \in RumorRecords
    BY <1>2, <1>3
  <2>2. /\ before \in Seq(RumorRecords) /\ Len(before) = IF 1 <= k - 1 THEN (k - 1) - 1 + 1 ELSE 0
        /\ \A l \in 1 .. (k - 1) - 1 + 1 : before[l] = rumors[1 + l - 1]
    BY <1>2, <2>1, SubSeqProperties
  <2> HIDE DEF before
  <2>3. (k - 1) - 1 + 1 = k - 1 /\ \A l \in 1 .. k - 1 : 1 + l - 1 = l
    BY <1>2
  <2>4. Len(before) = k - 1
    BY <1>2, <2>2
  <2> QED BY <2>2, <2>3, <2>4
<1>7. /\ after \in Seq(RumorRecords) /\ Len(after) = m - k
      /\ \A l \in 1 .. m - k : after[l] = rumors[k + l]
  <2>1. \A l \in k + 1 .. m : rumors[l] \in RumorRecords
    BY <1>2, <1>3
  <2>2. /\ after \in Seq(RumorRecords) /\ Len(after) = IF k + 1 <= m THEN m - (k + 1) + 1 ELSE 0
        /\ \A l \in 1 .. m - (k + 1) + 1 : after[l] = rumors[(k + 1) + l - 1]
    BY <1>2, <2>1, SubSeqProperties
  <2> HIDE DEF after
  <2>3. m - (k + 1) + 1 = m - k /\ \A l \in 1 .. m - k : (k + 1) + l - 1 = k + l
    BY <1>2
  <2>4. Len(after) = m - k
    BY <1>2, <2>2
  <2> QED BY <2>2, <2>3, <2>4
<1> HIDE DEF before, after
<1>8. /\ xs \in Seq(RumorRecords) /\ Len(xs) = m - 1 /\ DOMAIN xs = 1 .. m - 1
      /\ \A l \in 1 .. m - 1 : xs[l] = IF l <= k - 1 THEN rumors[l] ELSE rumors[l + 1]
  <2>1. /\ xs \in Seq(RumorRecords) /\ Len(xs) = Len(before) + Len(after)
        /\ \A l \in 1 .. Len(before) + Len(after) :
             xs[l] = IF l <= Len(before) THEN before[l] ELSE after[l - Len(before)]
    BY <1>6, <1>7, ConcatProperties
  <2> HIDE DEF xs
  <2>2. Len(xs) = m - 1
    BY <1>2, <1>6, <1>7, <2>1
  <2>3. ASSUME NEW l \in 1 .. m - 1
        PROVE  xs[l] = IF l <= k - 1 THEN rumors[l] ELSE rumors[l + 1]
    <3>1. xs[l] = IF l <= k - 1 THEN before[l] ELSE after[l - (k - 1)]
      BY <1>2, <1>6, <1>7, <2>1
    <3>2. CASE l <= k - 1
      BY <1>2, <1>6, <3>1, <3>2
    <3>3. CASE ~ (l <= k - 1)
      <4>1. l - (k - 1) \in 1 .. m - k /\ k + (l - (k - 1)) = l + 1
        BY <1>2, <3>3
      <4> QED BY <1>7, <3>1, <3>3, <4>1
    <3> QED BY <3>2, <3>3
  <2> QED BY <2>1, <2>2, <2>3, LenProperties
<1> HIDE DEF xs
<1>9. \A l \in DOMAIN xs : \E j \in DOMAIN rumors : j # k /\ j = (IF l <= k - 1 THEN l ELSE l + 1) /\ xs[l] = rumors[j]
  BY <1>2, <1>8
<1>10. \A j \in DOMAIN rumors : j # k => \E l \in DOMAIN xs : xs[l] = rumors[j]
  <2>1. ASSUME NEW j \in DOMAIN rumors, j # k
        PROVE  \E l \in DOMAIN xs : xs[l] = rumors[j]
    <3>1. CASE j < k
      <4>1. j \in 1 .. m - 1 /\ j <= k - 1
        BY <1>2, <3>1
      <4> QED BY <1>8, <4>1
    <3>2. CASE j > k
      <4>1. j - 1 \in 1 .. m - 1 /\ ~ (j - 1 <= k - 1) /\ (j - 1) + 1 = j
        BY <1>2, <3>2
      <4>2. xs[j - 1] = rumors[(j - 1) + 1]
        BY <1>8, <4>1
      <4> QED BY <1>8, <4>1, <4>2
    <3> QED BY <1>2, <2>1, <3>1, <3>2
  <2> QED BY <2>1
<1>11. \A j, l \in DOMAIN rumors : RumorId(rumors[j].seq) = RumorId(rumors[l].seq) => j = l
  BY <1>1, <1>3, RumorIds DEF RumorsNumbered
<1>12. Numbered(xs, counts'.inserts)
  <2>1. ASSUME NEW a \in DOMAIN xs, NEW b \in DOMAIN xs
        PROVE  xs[a].seq <= counts.inserts /\ (xs[a].seq = xs[b].seq => a = b)
    <3>1. PICK i \in DOMAIN rumors : i = (IF a <= k - 1 THEN a ELSE a + 1) /\ xs[a] = rumors[i]
      BY <1>9
    <3>2. PICK j \in DOMAIN rumors : j = (IF b <= k - 1 THEN b ELSE b + 1) /\ xs[b] = rumors[j]
      BY <1>9
    <3>3. rumors[i].seq <= counts.inserts /\ (rumors[i].seq = rumors[j].seq => i = j)
      BY <1>1 DEF RumorsNumbered
    <3>4. i = j => a = b
      BY <1>2, <1>8, <3>1, <3>2
    <3> QED BY <3>1, <3>2, <3>3, <3>4
  <2> QED BY <1>5, <2>1 DEF Numbered
<1>13. RumorsIn(xs) = {rumors[j] : j \in DOMAIN rumors \ {k}}
  BY <1>9, <1>10 DEF RumorsIn
<1>14. LiveIds(xs) = LiveIds(rumors) \ {gone}
  <2>1. LiveIds(xs) = {RumorId(rumors[j].seq) : j \in DOMAIN rumors \ {k}}
    BY <1>13 DEF LiveIds
  <2>2. LiveIds(rumors) = {RumorId(rumors[j].seq) : j \in DOMAIN rumors}
    BY DEF LiveIds, RumorsIn
  <2> QED BY <1>11, <2>1, <2>2
<1>15. Mirrored(units', xs, erased)
  <2>1. LiveIds(xs) \ erased = {i \in DOMAIN units' : IsRumorId(i)}
    BY <1>1, <1>4, <1>14 DEF Mirrored
  <2>2. ASSUME NEW x \in RumorsIn(xs), RumorId(x.seq) \notin erased
        PROVE  x \in RumorsIn(rumors) /\ units'[RumorId(x.seq)] = units[RumorId(x.seq)]
    <3>1. x \in RumorsIn(rumors)
      BY <1>13 DEF RumorsIn
    <3>2. RumorId(x.seq) \in DOMAIN units'
      BY <2>1, <2>2 DEF LiveIds
    <3> QED BY <1>4, <3>1, <3>2
  <2> QED BY <1>1, <2>1, <2>2 DEF Mirrored
<1>16. Sound(units', counts'.inserts, allowed') /\ RumorsApart(units')
  BY <1>1, <1>4, <1>5, StoreBefore DEF Sound, Store, Discreet, RumorsApart
<1>17. Len(xs) <= RumorsCap /\ owed' \subseteq allowed' /\ Bygone(erased', counts'.inserts)
  BY <1>1, <1>2, <1>4, <1>5, <1>8, MemoryAssumption DEF MemoryInv, MemoryTypes
<1> QED BY <1>1, <1>4, <1>5, <1>8, <1>12, <1>15, <1>16, <1>17, RumorsReplaced

(* reset_npc_memory: some units go, and the rumours of those that do are   *)
(* noted.                                                                  *)
LEMMA ResetKeeps ==
  ASSUME MemoryInv, NEW n, ResetNpcMemory(n)
  PROVE  MemoryInv'
<1> DEFINE left == Surviving(units, n)
           gone == DOMAIN units \ left
<1>1. /\ rumors \in Seq(RumorRecords) /\ RumorsNumbered /\ Mirrored(units, rumors, erased) /\ RumorsApart(units)
      /\ Len(rumors) <= RumorsCap /\ counts.inserts \in Nat /\ counts \in Counts
  BY StoreBefore, MirroredMeans DEF MemoryInv, MemoryTypes
<1>2. /\ units' = [i \in left |-> units[i]] /\ left \subseteq DOMAIN units
      /\ owed' \subseteq owed /\ allowed' = allowed
      /\ erased' = erased \cup (LiveIds(rumors) \cap gone)
      /\ counts' = Step("tools") /\ UNCHANGED <<flat, rumors, written, moment>>
  BY DEF ResetNpcMemory, Surviving
<1> HIDE DEF left
<1>3. counts' \in Counts /\ counts'.inserts = counts.inserts
  BY <1>1, <1>2, CountsGrow
<1>4. Mirrored(units', rumors, erased')
  <2>1. LiveIds(rumors) \ erased' = {i \in DOMAIN units' : IsRumorId(i)}
    BY <1>1, <1>2 DEF Mirrored
  <2>2. ASSUME NEW x \in RumorsIn(rumors), RumorId(x.seq) \notin erased'
        PROVE  RumorId(x.seq) \notin erased /\ units'[RumorId(x.seq)] = units[RumorId(x.seq)]
    <3>1. RumorId(x.seq) \in DOMAIN units'
      BY <2>1, <2>2 DEF LiveIds
    <3> QED BY <1>2, <2>2, <3>1
  <2> QED BY <1>1, <2>1, <2>2 DEF Mirrored
<1>5. Sound(units', counts'.inserts, allowed') /\ RumorsApart(units')
  BY <1>1, <1>2, <1>3, StoreBefore DEF Sound, Store, Discreet, RumorsApart
<1>6. owed' \subseteq allowed'
  BY <1>2 DEF MemoryInv, MemoryTypes
<1>7. Bygone(erased', counts'.inserts)
  <2>1. \A x \in RumorsIn(rumors) : x.seq \in 0..counts.inserts
    BY <1>1, RumorTypes DEF RumorsNumbered, RumorsIn
  <2> QED BY <1>2, <1>3, <2>1 DEF MemoryInv, MemoryTypes, Bygone, LiveIds
<1>8. Numbered(rumors, counts'.inserts)
  BY <1>1, <1>3 DEF RumorsNumbered, Numbered
<1> QED BY <1>1, <1>2, <1>3, <1>4, <1>5, <1>6, <1>7, <1>8, RumorsReplaced

-----------------------------------------------------------------------------
(* The theorems.                                                           *)

(* A turn is closed, or ends, or a load begins, with nothing but its moment *)
(* changed.                                                                *)
LEMMA MomentKeeps ==
  ASSUME MemoryInv, CloseBeats \/ EndTurn \/ LoadSave \/ UNCHANGED memoryVars
  PROVE  MemoryInv'
<1>1. /\ moment' = moment \/ moment' \in Moments
      /\ UNCHANGED <<flat, units, rumors, written, allowed, owed, erased>>
      /\ counts' = counts \/ counts' = Step("loads")
  BY DEF CloseBeats, EndTurn, LoadSave, Reading, memoryVars, Moments
<1>3. counts' \in Counts /\ counts.inserts = counts'.inserts /\ counts.inserts \in Nat
  BY <1>1, StoreBefore, CountsGrow
<1>2. Sound(units', counts'.inserts, allowed') /\ RumorsKept(units, units')
  BY <1>1, <1>3, StoreBefore DEF RumorsKept
<1>4. owed' \subseteq allowed' /\ written' \in [Topics -> Nat]
  BY <1>1 DEF MemoryInv, MemoryTypes
<1> QED BY <1>1, <1>2, <1>3, <1>4, QuietStep

(* A story begins with its seeds, which are given to whom they are placed. *)
LEMMA MemoryBegins == MemoryInit => MemoryInv
<1> SUFFICES ASSUME MemoryInit PROVE MemoryInv
  OBVIOUS
<1>1. flat \in [SeedTopics -> Places] /\ units = Migrated
  BY PlacementsArePlaces DEF MemoryInit
<1>2. counts \in Counts /\ counts.inserts = 0
  BY DEF MemoryInit, Counts
<1>3. Store(Migrated, 0) /\ \A i \in DOMAIN Migrated : ~ IsRumorId(i)
  BY <1>1, SeedsAreUnits
<1>4. rumors = << >> /\ rumors \in Seq(RumorRecords) /\ Len(rumors) = 0 /\ DOMAIN rumors = {}
  BY EmptySeq DEF MemoryInit
<1>5. Discreet(units, allowed)
  BY DEF MemoryInit, Discreet
<1>6. MemoryTypes
  <2>1. written \in [Topics -> Nat] /\ moment \in Moments /\ Bygone(erased, 0)
    BY DEF MemoryInit, Moments, Reading, Bygone
  <2>2. owed \subseteq allowed
    BY DEF MemoryInit
  <2>3. Len(rumors) <= RumorsCap
    BY <1>4, MemoryAssumption
  <2> QED BY <1>1, <1>2, <1>3, <1>4, <2>1, <2>2, <2>3 DEF MemoryTypes, Counts
<1>7. SecretsKept /\ SeedsGiven
  BY <1>1, <1>5 DEF SecretsKept, SeedsGiven, Discreet
<1>8. LiveIds(rumors) = {} /\ RumorsIn(rumors) = {}
  BY <1>4 DEF LiveIds, RumorsIn
<1>9. Mirrored(units, rumors, erased)
  BY <1>1, <1>3, <1>8 DEF Mirrored
<1>10. RumorsApart(units) /\ RumorsNumbered
  BY <1>1, <1>3, <1>4 DEF RumorsApart, RumorsNumbered
<1> QED BY <1>6, <1>7, <1>9, <1>10, MirroredMeans DEF MemoryInv

(* Every step keeps the invariant. *)
LEMMA MemorySteps == MemoryInv /\ [MemoryNext]_memoryVars => MemoryInv'
<1> SUFFICES ASSUME MemoryInv, [MemoryNext]_memoryVars PROVE MemoryInv'
  OBVIOUS
<1>1. CASE RecordSteps
  <2>1. CASE \E r \in Topics, p \in Placements, replaced \in SUBSET Goals : AddRecord(r, p, replaced)
    BY <2>1, AddRecordKeeps
  <2>2. CASE \E r \in Topics, reviving \in BOOLEAN :
               \E p \in UNION {Revised(units[i].place) : i \in RecordOf(units, r)} : UpdateRecord(r, p, reviving)
    BY <2>2, UpdateRecordKeeps
  <2>3. CASE \E r \in Topics : DeactivateRecord(r) \/ DeleteRecord(r)
    BY <2>3, RemovalKeeps
  <2>4. CASE \E r \in Topics, who \in Folk : MergeRecord(r, who)
    BY <2>4, MergeRecordKeeps
  <2> QED BY <1>1, <2>1, <2>2, <2>3, <2>4 DEF RecordSteps
<1>2. CASE NoteSteps
  <2>1. ASSUME NEW p \in Placements, NEW about \in {{}} \cup {{r} : r \in Topics}, NoteMemory(p, about)
        PROVE  MemoryInv'
    <3>1. about \in SUBSET Topics
      OBVIOUS
    <3> QED BY <2>1, <3>1, NoteMemoryKeeps
  <2>2. ASSUME NEW n \in Holders, NpcNoteMemory(n)
        PROVE  MemoryInv'
    BY <2>2, NpcNoteKeeps
  <2>3. ASSUME NEW spot \in Spots, NEW seen \in {{}, {"player"}}, GeneratedPlace(spot, seen)
        PROVE  MemoryInv'
    BY <2>3, GeneratedPlaceKeeps
  <2> QED BY <1>2, <2>1, <2>2, <2>3 DEF NoteSteps
<1>3. CASE Consolidations
  <2>1. PICK i \in DOMAIN units, j \in DOMAIN units, tier \in 2..4, naming \in BOOLEAN :
          ConsolidateMemory({i, j}, tier, naming)
    BY <1>3 DEF Consolidations
  <2> QED BY <2>1, ConsolidateMemoryKeeps
<1>4. CASE PlayerBeats
  BY <1>4, PlayerActsKeeps DEF PlayerBeats
<1>5. CASE CharacterBeats
  <2>1. PICK there \in SUBSET Folk, spot \in Spots :
          \E heard \in SUBSET (there \cup {"player"}), claims, speech \in BOOLEAN :
            \E speaker \in heard \cap there : CommitBeat(speaker, there, heard, spot, claims, speech)
    BY <1>5 DEF CharacterBeats
  <2>2. PICK heard \in SUBSET (there \cup {"player"}), claims \in BOOLEAN, speech \in BOOLEAN :
          \E speaker \in heard \cap there : CommitBeat(speaker, there, heard, spot, claims, speech)
    BY <2>1
  <2>3. PICK speaker \in Folk : CommitBeat(speaker, there, heard, spot, claims, speech)
    BY <2>2
  <2>4. heard \subseteq Folk \cup {"player"}
    OBVIOUS
  <2> QED BY <2>3, <2>4, CommitBeatKeeps
<1>6. CASE RumorSteps
  BY <1>6, SpreadingKeeps, RemoveRumorKeeps, AddDebugRumorKeeps, ResetKeeps DEF RumorSteps
<1>7. CASE Crystallize \/ \E r \in moment.seeds : LoadSeed(r)
  BY <1>7, LoadSeedKeeps, CrystallizeKeeps
<1>8. CASE CloseBeats \/ EndTurn \/ LoadSave \/ UNCHANGED memoryVars
  BY <1>8, MomentKeeps
<1> QED BY <1>1, <1>2, <1>3, <1>4, <1>5, <1>6, <1>7, <1>8 DEF MemoryNext

(* The inductive invariant holds throughout. *)
THEOREM MemoryHolds == MemorySpec => []MemoryInv
<1>1. MemoryInit => MemoryInv
  BY MemoryBegins
<1>2. MemoryInv /\ [MemoryNext]_memoryVars => MemoryInv'
  BY MemorySteps
<1> QED BY <1>1, <1>2, PTL DEF MemorySpec

(* MemoryUnit, WorldRumor and the caps of the store: every unit is in a    *)
(* state, of a tier and for an audience that the code knows.               *)
THEOREM MemoryStaysTyped == MemorySpec => []MemoryTypeOK
<1>1. MemoryInv => MemoryTypeOK
  <2> SUFFICES ASSUME MemoryInv PROVE MemoryTypeOK
    OBVIOUS
  <2>1. ASSUME NEW i \in DOMAIN units
        PROVE  units[i] \in UnitRecords
    BY DEF MemoryInv, MemoryTypes, Store
  <2> QED BY <2>1 DEF MemoryInv, MemoryTypes, MemoryTypeOK, UnitRecords, Owners, Moments
<1> QED BY <1>1, MemoryHolds, PTL

(* "preserving scope/provenance in code" (memory_crystals.rs): no unit,    *)
(* however it was merged, consolidated, overwritten or loaded, tells a     *)
(* scope what it was never given.                                          *)
THEOREM SecretsStayKept == MemorySpec => []SecretsKept
<1>1. MemoryInv => SecretsKept
  BY DEF MemoryInv
<1> QED BY <1>1, MemoryHolds, PTL

(* sync_rumor_memory, prune_rumor_memory_to_live_ids, remove_rumor: the    *)
(* memory has a unit for each rumour of the world, and for no other, and   *)
(* tells it to whom the rumour has reached; but for the rumours of a       *)
(* character whose memory reset_npc_memory took, until they change.        *)
THEOREM RumorsStayMirrored == MemorySpec => []RumorsMirrored
<1>1. MemoryInv => RumorsMirrored
  BY DEF MemoryInv
<1> QED BY <1>1, MemoryHolds, PTL

-----------------------------------------------------------------------------
(* What is owed is told.  A record's last text is in its own unit, the     *)
(* first of those that carry it; a text of a beat, a note or a rumour is   *)
(* in its unit or in a crystal that took that unit over.                   *)

(* Records have units of their own, or of the notes and crystals that name *)
(* them.  A unit that is a record's is one record's, tells only of it, and *)
(* tells those it is placed with.                                          *)
About(r, w) == {Fact(r, v) : v \in 1 .. w[r]}

RecordFits(i, u, w) ==
  /\ \A r \in u.records : w[r] > 0
  /\ i[1] \in {"legacy", "state"} => IsWorldState(u) /\ i[3] \in u.records
  /\ IsWorldState(u) => \E r \in Topics : u.records = {r} /\ u.facts \subseteq About(r, w)
  /\ IsWorldState(u) => Hears(u) = ToldIn(u.place)
  /\ u.records # {} => ~ IsRumorId(i)

RecordsFit(us, w) == \A i \in DOMAIN us : RecordFits(i, us[i], w)

(* Of the numbers handed out, one unit at most carries records.            *)
IdsApart(us, n) ==
  /\ \A i \in DOMAIN us : i[1] = "memory" => i[2] <= n
  /\ \A i, j \in DOMAIN us :
       i[1] = "memory" /\ j[1] = "memory" /\ us[i].records # {} /\ us[j].records # {} /\ i[2] = j[2] => i = j

(* A unit of a rumour tells its text, and what is made of rumours is one.  *)
RumorTexts(us) ==
  \A i \in DOMAIN us :
    /\ IsRumorId(i) => us[i].facts = {<<"rumor", i[2], "text">>}
    /\ us[i].maker = "rumor_graph" => IsRumorId(i)

(* No version of a text is owed that was not written.                      *)
FactsKnown(ow, w) == \A g \in ow : g[1][1] = "record" => g[1][3] \in Topics /\ g[1][2] \in 1 .. w[g[1][3]]

(* What is still owed of a record, its unit tells, in use or not.          *)
LatestTold(us, ow, w) ==
  \A r \in Topics : \A i \in RecordOf(us, r) : \A g \in ow : g[1] \in About(r, w) => g \in Given(us[i])

Told(us, g) == \E i \in DOMAIN us : DefaultVisible(us[i]) /\ g \in Given(us[i])
Remembers(us, ow) == \A g \in ow : Told(us, g)

Fits(us, w, n) == RecordsFit(us, w) /\ IdsApart(us, n) /\ RumorTexts(us)
Kept(us, ow, w, n) == Fits(us, w, n) /\ FactsKnown(ow, w) /\ LatestTold(us, ow, w) /\ Remembers(us, ow)

(* What a unit tells depends on its facts and its audience alone.          *)
SameTale(u, v) ==
  u.facts = v.facts /\ u.owner = v.owner /\ u.vis = v.vis /\ u.records = v.records /\ u.maker = v.maker /\ u.place = v.place

Retold(us, vs) == DOMAIN vs = DOMAIN us /\ \A i \in DOMAIN us : SameTale(us[i], vs[i])

(* Units that tell the same tell it to the same scopes, as the same records. *)
LEMMA SameTaleMeans ==
  ASSUME NEW u, NEW v, SameTale(u, v)
  PROVE  /\ Given(u) = Given(v) /\ Hears(u) = Hears(v) /\ (IsWorldState(u) <=> IsWorldState(v))
         /\ u.records = v.records /\ u.facts = v.facts /\ u.place = v.place
BY DEF SameTale, Given, Hears, IsWorldState

(* What a unit gives is a fact of it and a scope of its audience, *)
LEMMA GivenPairs ==
  ASSUME NEW u, NEW g \in Given(u)
  PROVE  g[1] \in u.facts /\ g[2] \in Hears(u) /\ g = <<g[1], g[2]>>
BY DEF Given

(* and each such pair. *)
LEMMA GivenOf ==
  ASSUME NEW u, NEW f \in u.facts, NEW s \in Hears(u)
  PROVE  <<f, s>> \in Given(u)
BY DEF Given

(* Units that are marked or archived stay the units they are.              *)
LEMMA RetoldFits ==
  ASSUME NEW us, NEW vs, NEW w, NEW n, Retold(us, vs), Fits(us, w, n)
  PROVE  Fits(vs, w, n) /\ \A r : RecordOf(vs, r) = RecordOf(us, r)
<1>1. DOMAIN vs = DOMAIN us
      /\ \A i \in DOMAIN us : /\ Given(us[i]) = Given(vs[i]) /\ Hears(us[i]) = Hears(vs[i])
                              /\ (IsWorldState(us[i]) <=> IsWorldState(vs[i]))
                              /\ us[i].records = vs[i].records /\ us[i].facts = vs[i].facts /\ us[i].place = vs[i].place
  BY SameTaleMeans DEF Retold
<1>2. RecordsFit(vs, w)
  BY <1>1 DEF Fits, RecordsFit, RecordFits
<1>3. IdsApart(vs, n)
  BY <1>1 DEF Fits, IdsApart
<1>4. RumorTexts(vs)
  <2>1. \A i \in DOMAIN us : vs[i].maker = us[i].maker
    BY DEF Retold, SameTale
  <2> QED BY <1>1, <2>1 DEF Fits, RumorTexts
<1>5. ASSUME NEW r PROVE RecordOf(vs, r) = RecordOf(us, r)
  <2>1. RecordUnits(vs, r) = RecordUnits(us, r)
    BY <1>1 DEF RecordUnits, Carriers
  <2> QED BY <2>1 DEF RecordOf
<1> QED BY <1>2, <1>3, <1>4, <1>5 DEF Fits

(* What is owed and still found afterwards is kept. *)
LEMMA RetoldKept ==
  ASSUME NEW us, NEW vs, NEW ow, NEW some, NEW w, NEW n, Retold(us, vs), Kept(us, ow, w, n),
         some \subseteq ow, Remembers(vs, some)
  PROVE  Kept(vs, some, w, n)
<1>1. Fits(vs, w, n) /\ \A r : RecordOf(vs, r) = RecordOf(us, r)
  BY RetoldFits DEF Kept
<1>2. FactsKnown(some, w)
  BY DEF Kept, FactsKnown
<1>3. \A i \in DOMAIN us : Given(us[i]) = Given(vs[i])
  BY SameTaleMeans DEF Retold
<1>4. \A r : RecordOf(us, r) \subseteq DOMAIN us
  BY DEF RecordOf, Firsts, RecordUnits, Carriers
<1>5. LatestTold(vs, some, w)
  BY <1>1, <1>3, <1>4 DEF Kept, LatestTold
<1> QED BY <1>1, <1>2, <1>5 DEF Kept

(* Units that are consumed or archived tell what they told. *)
LEMMA MarksRetell ==
  ASSUME NEW us, NEW n, Store(us, n), NEW ids
  PROVE  Retold(us, MarkConsumed(us, ids)) /\ Retold(us, Archive(us, ids))
<1>1. \A i \in DOMAIN us : us[i] \in UnitRecords
  BY DEF Store
<1>2. ASSUME NEW u \in UnitRecords
      PROVE  /\ SameTale(u, u) /\ SameTale(u, [u EXCEPT !.state = "archived"])
             /\ SameTale(u, [u EXCEPT !.state = "cold", !.consumed = TRUE])
  BY DEF SameTale, UnitRecords
<1>3. Retold(us, MarkConsumed(us, ids))
  BY <1>1, <1>2 DEF Retold, MarkConsumed
<1>4. Retold(us, Archive(us, ids))
  BY <1>1, <1>2 DEF Retold, Archive
<1> QED BY <1>3, <1>4

(* What loses its units is not owed any more.                              *)
LEMMA ArchiveRemembers ==
  ASSUME NEW us, NEW n, NEW w, NEW ow, NEW ids, NEW lost, Store(us, n), Kept(us, ow, w, n),
         ids \subseteq DOMAIN us, FactsOf(us, ids) \subseteq lost
  PROVE  Kept(Archive(us, ids), Without(ow, lost), w, n)
<1> DEFINE vs == Archive(us, ids)  some == Without(ow, lost)
<1>1. Retold(us, vs)
  BY MarksRetell
<1>2. some \subseteq ow /\ \A g \in some : g[1] \notin lost
  BY DEF Without
<1>3. DOMAIN vs = DOMAIN us /\ \A i \in DOMAIN us : i \notin ids => vs[i] = us[i]
  BY DEF Archive
<1> HIDE DEF vs, some
<1>4. ASSUME NEW g \in some PROVE Told(vs, g)
  <2>1. PICK i \in DOMAIN us : DefaultVisible(us[i]) /\ g \in Given(us[i])
    BY <1>2, <1>4 DEF Kept, Remembers, Told
  <2>2. g[1] \in us[i].facts
    BY <2>1, GivenPairs
  <2>3. i \notin ids
    BY <1>2, <1>4, <2>2 DEF FactsOf
  <2> QED BY <1>3, <2>1, <2>3 DEF Told
<1> QED BY <1>1, <1>2, <1>4, RetoldKept DEF Remembers, vs, some

(* Units that are added.  Their number is the next one.                    *)
Fresh(i, n) == i \in UnitIds /\ i[1] = "memory" /\ (i[2] = n + 1 \/ i[2] = - (n + 1))

(* The id of a new unit is in no store yet. *)
LEMMA FreshIsNew ==
  ASSUME NEW us, NEW n \in Nat, NEW w, Store(us, n), Fits(us, w, n), NEW i, Fresh(i, n)
  PROVE  /\ i \notin DOMAIN us /\ ~ IsRumorId(i) /\ i[2] <= n + 1 /\ 0 <= i[2] + n + 1
         /\ \A j \in DOMAIN us : j[1] = "memory" => j[2] # i[2]
<1>1. i[2] \in {n + 1, - (n + 1)}
  BY DEF Fresh
<1>2. \A j \in DOMAIN us : j[1] = "memory" => j[2] \in Int /\ j[2] <= n /\ 0 <= j[2] + n
  BY DEF Store, Fits, IdsApart, UnitIds
<1>3. \A j \in DOMAIN us : j[1] = "memory" => j[2] # i[2]
  BY <1>1, <1>2
<1>4. i \notin DOMAIN us
  BY <1>3 DEF Fresh
<1>5. i[2] <= n + 1 /\ 0 <= i[2] + n + 1
  BY <1>1
<1> QED BY <1>3, <1>4, <1>5 DEF Fresh, IsRumorId

(* A unit that is no record's, named for records that there are.           *)
PlainUnit(u, w) ==
  ~ IsWorldState(u) /\ u.maker # "rumor_graph" /\ DefaultVisible(u) /\ \A r \in u.records : w[r] > 0

(* Units that are added are no records, and leave the records where they are. *)
LEMMA AddedFits ==
  ASSUME NEW us, NEW n \in Nat, NEW w, NEW new, Store(us, n), Fits(us, w, n),
         \A i \in DOMAIN new : Fresh(i, n) /\ PlainUnit(new[i], w),
         \A i, j \in DOMAIN new : new[i].records # {} /\ new[j].records # {} => i = j
  PROVE  /\ Fits(PutAll(us, new), w, n + 1)
         /\ \A r : RecordOf(PutAll(us, new), r) = RecordOf(us, r)
         /\ \A i \in DOMAIN us : i \in DOMAIN PutAll(us, new) /\ PutAll(us, new)[i] = us[i]
         /\ \A i \in DOMAIN new : i \in DOMAIN PutAll(us, new) /\ PutAll(us, new)[i] = new[i]
<1> DEFINE vs == PutAll(us, new)
<1>1. \A i \in DOMAIN new : /\ i \notin DOMAIN us /\ ~ IsRumorId(i) /\ i[1] = "memory" /\ i[2] <= n + 1
                            /\ \A j \in DOMAIN us : j[1] = "memory" => j[2] # i[2]
  BY FreshIsNew DEF Fresh
<1>2. /\ DOMAIN vs = DOMAIN us \cup DOMAIN new
      /\ \A i \in DOMAIN new : vs[i] = new[i]
      /\ \A i \in DOMAIN us : vs[i] = us[i]
  BY <1>1 DEF PutAll
<1> HIDE DEF vs
<1>3. RecordsFit(vs, w)
  <2>1. ASSUME NEW i \in DOMAIN new PROVE RecordFits(i, vs[i], w)
    BY <1>1, <1>2, <2>1 DEF RecordFits, PlainUnit
  <2>2. ASSUME NEW i \in DOMAIN us PROVE RecordFits(i, vs[i], w)
    BY <1>2, <2>2 DEF Fits, RecordsFit
  <2> QED BY <1>2, <2>1, <2>2 DEF RecordsFit
<1>4. IdsApart(vs, n + 1)
  <2>1. \A j \in DOMAIN us : j[1] = "memory" => j[2] <= n + 1
    BY DEF Store, Fits, IdsApart, UnitIds
  <2>2. ASSUME NEW i \in DOMAIN vs, NEW j \in DOMAIN vs, i[1] = "memory", j[1] = "memory",
               vs[i].records # {}, vs[j].records # {}, i[2] = j[2]
        PROVE  i = j
    <3>1. CASE i \in DOMAIN us /\ j \in DOMAIN us
      BY <1>2, <2>2, <3>1 DEF Fits, IdsApart
    <3>2. CASE i \in DOMAIN new /\ j \in DOMAIN new
      BY <1>2, <2>2, <3>2
    <3> QED BY <1>1, <1>2, <2>2, <3>1, <3>2
  <2> QED BY <1>1, <1>2, <2>1, <2>2 DEF IdsApart
<1>5. RumorTexts(vs)
  BY <1>1, <1>2 DEF Fits, RumorTexts, PlainUnit
<1>6. ASSUME NEW r PROVE RecordOf(vs, r) = RecordOf(us, r)
  <2>1. \A i \in DOMAIN new : ~ IsWorldState(vs[i])
    BY <1>2 DEF PlainUnit
  <2>2. RecordUnits(vs, r) = RecordUnits(us, r)
    BY <1>2, <2>1 DEF RecordUnits, Carriers
  <2> QED BY <2>2 DEF RecordOf
<1>7. Fits(vs, w, n + 1) /\ \A r : RecordOf(vs, r) = RecordOf(us, r)
  BY <1>3, <1>4, <1>5, <1>6 DEF Fits
<1> QED BY <1>2, <1>7 DEF vs

(* What is owed of a record does not depend on other facts.                *)
NoRecords(given) == \A g \in given : g[1][1] # "record"

(* Other facts are of no record. *)
LEMMA OtherFacts ==
  ASSUME NEW ow, NEW w, NEW given, NoRecords(given)
  PROVE  /\ \A r : \A g \in given : g[1] \notin About(r, w)
         /\ FactsKnown(ow, w) => FactsKnown(ow \cup given, w)
BY DEF NoRecords, About, Fact, FactsKnown

(* Units that are added tell what is owed for them. *)
LEMMA AddedRemembers ==
  ASSUME NEW us, NEW n \in Nat, NEW w, NEW ow, NEW new, NEW given, NEW some, Store(us, n), Kept(us, ow, w, n),
         \A i \in DOMAIN new : Fresh(i, n) /\ PlainUnit(new[i], w),
         \A i, j \in DOMAIN new : new[i].records # {} /\ new[j].records # {} => i = j,
         \A g \in given : \E i \in DOMAIN new : g \in Given(new[i]),
         NoRecords(given), some \subseteq ow \cup given
  PROVE  Kept(PutAll(us, new), some, w, n + 1)
<1> DEFINE vs == PutAll(us, new)
<1>1. /\ Fits(vs, w, n + 1) /\ \A r : RecordOf(vs, r) = RecordOf(us, r)
      /\ \A i \in DOMAIN us : i \in DOMAIN vs /\ vs[i] = us[i]
      /\ \A i \in DOMAIN new : i \in DOMAIN vs /\ vs[i] = new[i]
  BY AddedFits DEF Kept
<1> HIDE DEF vs
<1>2. FactsKnown(some, w)
  BY OtherFacts DEF Kept, FactsKnown
<1>3. LatestTold(vs, some, w)
  <2>1. ASSUME NEW r \in Topics, NEW i \in RecordOf(vs, r), NEW g \in some, g[1] \in About(r, w)
        PROVE  g \in Given(vs[i])
    <3>1. g \in ow
      BY <2>1, OtherFacts
    <3>2. i \in RecordOf(us, r) /\ i \in DOMAIN us
      BY <1>1 DEF RecordOf, Firsts, RecordUnits, Carriers
    <3> QED BY <1>1, <2>1, <3>1, <3>2 DEF Kept, LatestTold
  <2> QED BY <2>1 DEF LatestTold
<1>4. ASSUME NEW g \in some PROVE Told(vs, g)
  <2>1. CASE g \in ow
    BY <1>1, <2>1 DEF Kept, Remembers, Told
  <2>2. CASE g \in given
    BY <1>1, <2>2 DEF Told, PlainUnit
  <2> QED BY <2>1, <2>2
<1> QED BY <1>1, <1>2, <1>3, <1>4 DEF Kept, Remembers, vs

(* A crystal takes over what its sources tell.                             *)
LEMMA CrystalRemembers ==
  ASSUME NEW us, NEW n \in Nat, NEW w, NEW ow, NEW i, NEW u, NEW ids, Store(us, n), Kept(us, ow, w, n),
         Fresh(i, n), PlainUnit(u, w), u \in UnitRecords, ids \subseteq DOMAIN us,
         \A j \in ids : Given(us[j]) \subseteq Given(u)
  PROVE  Kept(MarkConsumed(Put(us, i, u), ids), ow, w, n + 1)
<1> DEFINE new == [x \in {i} |-> u]  mid == Put(us, i, u)  vs == MarkConsumed(mid, ids)
<1>1. mid = PutAll(us, new)
  BY DEF Put, PutAll
<1>2. Kept(mid, ow, w, n + 1)
  <2>1. /\ \A x \in DOMAIN new : Fresh(x, n) /\ PlainUnit(new[x], w)
        /\ \A x, y \in DOMAIN new : new[x].records # {} /\ new[y].records # {} => x = y
    OBVIOUS
  <2>2. NoRecords({}) /\ \A g \in {} : \E x \in DOMAIN new : g \in Given(new[x])
    BY DEF NoRecords
  <2> HIDE DEF new, mid
  <2> QED BY <1>1, <2>1, <2>2, AddedRemembers
<1>3. i \notin DOMAIN us /\ 0 <= i[2] + n + 1 /\ i \in UnitIds
  BY FreshIsNew DEF Kept, Fresh
<1>4. mid[i] = u /\ DOMAIN mid = DOMAIN us \cup {i} /\ \A j \in DOMAIN us : mid[j] = us[j]
  BY <1>3 DEF Put
<1>5. Store(mid, n + 1)
  <2>1. Store(us, n + 1)
    BY StoreGrows
  <2>2. i[2] \in Int
    BY <1>3 DEF UnitIds
  <2> HIDE DEF mid
  <2> QED BY <1>3, <1>4, <2>1, <2>2 DEF Store
<1> HIDE DEF mid
<1>6. Retold(mid, vs)
  BY <1>5, MarksRetell
<1>7. DOMAIN vs = DOMAIN mid /\ \A j \in DOMAIN mid : j \notin ids => vs[j] = mid[j]
  BY DEF MarkConsumed
<1> HIDE DEF vs
<1>8. ASSUME NEW g \in ow PROVE Told(vs, g)
  <2>1. PICK j \in DOMAIN us : DefaultVisible(us[j]) /\ g \in Given(us[j])
    BY DEF Kept, Remembers, Told
  <2>2. CASE j \in ids
    <3>1. g \in Given(u) /\ i \in DOMAIN vs /\ vs[i] = u /\ DefaultVisible(u)
      BY <1>3, <1>4, <1>7, <2>1, <2>2 DEF PlainUnit
    <3> QED BY <3>1 DEF Told
  <2>3. CASE j \notin ids
    BY <1>4, <1>7, <2>1, <2>3 DEF Told
  <2> QED BY <2>2, <2>3
<1>9. Kept(vs, ow, w, n + 1)
  BY <1>2, <1>6, <1>8, RetoldKept DEF Remembers
<1> QED BY <1>9 DEF vs, mid

(* The carriers of a record are in an order.                               *)
LEMMA CarriersOrdered ==
  ASSUME NEW us, NEW n \in Nat, NEW w, Store(us, n), Fits(us, w, n), NEW r,
         NEW i \in Carriers(us, r), NEW j \in Carriers(us, r), ~ Precedes(i, j), ~ Precedes(j, i)
  PROVE  i = j
<1>1. /\ i \in DOMAIN us /\ j \in DOMAIN us /\ r \in us[i].records /\ r \in us[j].records
      /\ i \in UnitIds /\ j \in UnitIds
  BY DEF Carriers, Store
<1>2. RecordFits(i, us[i], w) /\ RecordFits(j, us[j], w)
  BY <1>1 DEF Fits, RecordsFit
<1>3. ~ IsRumorId(i) /\ ~ IsRumorId(j)
  BY <1>1, <1>2 DEF RecordFits
<1>4. i[2] \in Int /\ j[2] \in Int
  BY <1>1 DEF UnitIds
<1>5. i[1] \in {"legacy", "state", "memory"} /\ j[1] \in {"legacy", "state", "memory"}
  BY <1>1, <1>3 DEF UnitIds, IsRumorId
<1>6. i[1] = j[1] /\ i[2] = j[2]
  <2>1. Rank(i) \in Nat /\ Rank(j) \in Nat /\ (Rank(i) = Rank(j) => i[1] = j[1])
    BY <1>5 DEF Rank
  <2> QED BY <1>4, <2>1 DEF Precedes
<1>7. CASE i[1] = "memory"
  BY <1>1, <1>6, <1>7 DEF Fits, IdsApart
<1>8. CASE i[1] \in {"legacy", "state"}
  <2>1. i[3] \in us[i].records /\ IsWorldState(us[i]) /\ j[3] \in us[j].records /\ IsWorldState(us[j])
    BY <1>2, <1>6, <1>8 DEF RecordFits
  <2>2. (\E q \in Topics : us[i].records = {q}) /\ (\E q \in Topics : us[j].records = {q})
    BY <1>2, <2>1 DEF RecordFits
  <2>3. i[3] = r /\ j[3] = r
    BY <1>1, <2>1, <2>2
  <2>4. i = <<i[1], i[2], i[3]>> /\ j = <<j[1], j[2], j[3]>>
    BY <1>1, <1>6, <1>8 DEF UnitIds
  <2> QED BY <1>6, <2>3, <2>4
<1> QED BY <1>5, <1>7, <1>8

(* The unit that a record's text is written to.                            *)
Slot(us, r, maker) == AnyOf(Target(us, r, maker))

(* It is the first that carries the record, or the one of its own id. *)
LEMMA SlotFits ==
  ASSUME NEW us, NEW n \in Nat, NEW w, Store(us, n), RumorsApart(us), Fits(us, w, n), NEW r \in Topics,
         NEW maker \in {"migration", "world_state"}
  PROVE  /\ ~ IsRumorId(Slot(us, r, maker))
         /\ Slot(us, r, maker) \in DOMAIN us => Slot(us, r, maker) \in Firsts(Carriers(us, r))
         /\ Slot(us, r, maker) \notin DOMAIN us => Slot(us, r, maker) \in {LegacyId(r), StateId(r)} /\ Carriers(us, r) = {}
         /\ Slot(us, r, maker)[1] \in {"legacy", "state"} => Slot(us, r, maker)[3] = r
<1> DEFINE hit == Slot(us, r, maker)
<1>1. hit \in Target(us, r, maker) /\ hit \in UnitIds /\ ~ IsRumorId(hit)
  BY TargetIsRecord DEF Slot, AnyOf
<1> HIDE DEF hit
<1>2. CASE Carriers(us, r) # {}
  <2>1. hit \in Firsts(Carriers(us, r)) /\ hit \in DOMAIN us /\ r \in us[hit].records
    BY <1>1, <1>2 DEF Target, Firsts, Carriers
  <2>2. RecordFits(hit, us[hit], w)
    BY <2>1 DEF Fits, RecordsFit
  <2>3. hit[1] \in {"legacy", "state"} => hit[3] = r
    BY <2>1, <2>2 DEF RecordFits
  <2> QED BY <1>1, <2>1, <2>3 DEF hit
<1>3. CASE Carriers(us, r) = {}
  <2>1. hit \in {LegacyId(r), StateId(r)}
    BY <1>1, <1>3 DEF Target
  <2>2. hit[1] \in {"legacy", "state"} /\ hit[3] = r
    BY <2>1 DEF LegacyId, StateId
  <2>3. hit \notin DOMAIN us
    <3>1. ASSUME hit \in DOMAIN us PROVE FALSE
      <4>1. r \in us[hit].records
        BY <2>2, <3>1 DEF Fits, RecordsFit, RecordFits
      <4> QED BY <1>3, <3>1, <4>1 DEF Carriers
    <3> QED BY <3>1
  <2> QED BY <1>1, <1>3, <2>1, <2>2, <2>3 DEF hit
<1> QED BY <1>2, <1>3

(* A text written for a record: no other record loses its unit, and what   *)
(* the unit told before is owed no more, or told again.                    *)
LEMMA RewriteFits ==
  ASSUME NEW us, NEW n \in Nat, NEW w \in [Topics -> Nat], NEW v \in [Topics -> Nat], Store(us, n), RumorsApart(us),
         Fits(us, w, n), NEW r \in Topics, NEW maker \in {"migration", "world_state"},
         NEW u, u.records = {r}, u.maker \in {"migration", "world_state"}, u.facts \subseteq About(r, v), Hears(u) = ToldIn(u.place),
         \A q \in Topics : w[q] <= v[q], 0 < v[r]
  PROVE  /\ Fits(Put(us, Slot(us, r, maker), u), v, n)
         /\ RecordOf(Put(us, Slot(us, r, maker), u), r) = {Slot(us, r, maker)}
         /\ \A q \in Topics : q # r => RecordOf(Put(us, Slot(us, r, maker), u), q) = RecordOf(us, q)
                                      /\ Slot(us, r, maker) \notin RecordOf(us, q)
<1> DEFINE hit == Slot(us, r, maker)  vs == Put(us, hit, u)
<1>1. /\ ~ IsRumorId(hit) /\ (hit \in DOMAIN us => hit \in Firsts(Carriers(us, r)))
      /\ (hit \notin DOMAIN us => hit \in {LegacyId(r), StateId(r)} /\ Carriers(us, r) = {})
      /\ (hit[1] \in {"legacy", "state"} => hit[3] = r)
  BY SlotFits
<1>2. DOMAIN vs = DOMAIN us \cup {hit} /\ vs[hit] = u /\ \A i \in DOMAIN us : i # hit => vs[i] = us[i]
  BY DEF Put
<1> HIDE DEF hit, vs
<1>3. hit \in DOMAIN us => r \in us[hit].records
  BY <1>1 DEF Firsts, Carriers
<1>4. \A q \in Topics : About(q, w) \subseteq About(q, v) /\ (w[q] > 0 => v[q] > 0)
  BY DEF About
<1>5. IsWorldState(u)
  BY DEF IsWorldState
<1>6. \A i \in DOMAIN us : us[i].records \subseteq Topics
  BY DEF Store, UnitRecords
<1>7. RecordsFit(vs, v)
  <2>1. RecordFits(hit, u, v)
    BY <1>1, <1>5 DEF RecordFits
  <2>2. ASSUME NEW i \in DOMAIN us PROVE RecordFits(i, us[i], v)
    <3>1. RecordFits(i, us[i], w)
      BY DEF Fits, RecordsFit
    <3>2. \A q \in us[i].records : v[q] > 0
      BY <1>4, <1>6, <3>1 DEF RecordFits
    <3>3. IsWorldState(us[i]) => \E q \in Topics : us[i].records = {q} /\ us[i].facts \subseteq About(q, v)
      BY <1>4, <3>1 DEF RecordFits
    <3> QED BY <3>1, <3>2, <3>3 DEF RecordFits
  <2> QED BY <1>2, <2>1, <2>2 DEF RecordsFit
<1>8. IdsApart(vs, n)
  <2>1. hit[1] = "memory" => hit \in DOMAIN us /\ us[hit].records # {}
    BY <1>1, <1>3 DEF LegacyId, StateId
  <2> QED BY <1>2, <2>1 DEF Fits, IdsApart
<1>9. RumorTexts(vs)
  BY <1>1, <1>2 DEF Fits, RumorTexts
<1>10. RecordOf(vs, r) = {hit}
  <2>1. Carriers(vs, r) = Carriers(us, r) \cup {hit}
    BY <1>2, <1>3 DEF Carriers
  <2>2. hit \in RecordUnits(vs, r) /\ RecordUnits(vs, r) \subseteq Carriers(us, r) \cup {hit}
    BY <1>2, <1>5, <2>1 DEF RecordUnits
  <2>3. \A j \in RecordUnits(vs, r) : ~ Precedes(j, hit)
    <3>1. CASE hit \in DOMAIN us
      BY <1>1, <2>2, <3>1 DEF Firsts
    <3>2. CASE hit \notin DOMAIN us
      <4>1. RecordUnits(vs, r) = {hit} /\ hit \in {<<"legacy", 0, r>>, <<"state", 0, r>>}
        BY <1>1, <2>2, <3>2 DEF LegacyId, StateId
      <4>2. ~ Precedes(<<"state", 0, r>>, <<"state", 0, r>>) /\ ~ Precedes(<<"legacy", 0, r>>, <<"legacy", 0, r>>)
        BY DEF Precedes, Rank
      <4> QED BY <4>1, <4>2
    <3> QED BY <3>1, <3>2
  <2>4. ASSUME NEW j \in RecordUnits(vs, r), ~ Precedes(hit, j) PROVE j = hit
    <3>1. CASE hit \in DOMAIN us
      <4>1. hit \in Carriers(us, r) /\ j \in Carriers(us, r)
        BY <1>1, <2>2, <3>1 DEF Firsts
      <4> QED BY <2>3, <2>4, <4>1, CarriersOrdered
    <3>2. CASE hit \notin DOMAIN us
      BY <1>1, <2>2, <3>2
    <3> QED BY <3>1, <3>2
  <2> QED BY <2>2, <2>3, <2>4 DEF RecordOf, Firsts
<1>11. ASSUME NEW q \in Topics, q # r PROVE RecordOf(vs, q) = RecordOf(us, q) /\ hit \notin RecordOf(us, q)
  <2>1. hit \notin RecordUnits(us, q)
    <3>1. ASSUME hit \in RecordUnits(us, q) PROVE FALSE
      <4>1. hit \in DOMAIN us /\ q \in us[hit].records /\ IsWorldState(us[hit])
        BY <3>1 DEF RecordUnits, Carriers
      <4>2. RecordFits(hit, us[hit], w)
        BY <4>1 DEF Fits, RecordsFit
      <4> QED BY <1>3, <1>11, <4>1, <4>2 DEF RecordFits
    <3> QED BY <3>1
  <2>2. hit \notin RecordUnits(vs, q)
    BY <1>2, <1>11 DEF RecordUnits, Carriers
  <2>3. RecordUnits(vs, q) = RecordUnits(us, q)
    BY <1>2, <2>1, <2>2 DEF RecordUnits, Carriers
  <2> QED BY <2>1, <2>3 DEF RecordOf, Firsts
<1> QED BY <1>7, <1>8, <1>9, <1>10, <1>11 DEF Fits, hit, vs

(* So what is owed after a record is written is told. *)
LEMMA RewriteRemembers ==
  ASSUME NEW us, NEW n \in Nat, NEW w \in [Topics -> Nat], NEW v \in [Topics -> Nat], Store(us, n), RumorsApart(us),
         NEW ow, NEW some, Kept(us, ow, w, n), NEW r \in Topics,
         NEW maker \in {"migration", "world_state"},
         NEW p \in Places, NEW facts \in SUBSET Facts, facts \subseteq About(r, v),
         \A q \in Topics : w[q] <= v[q] /\ (q # r => w[q] = v[q]), 0 < v[r],
         \A g \in some :
           \/ g \in facts \X ToldIn(p)
           \/ g \in ow /\ g[1] \notin About(r, w) /\ (Slot(us, r, maker) \in DOMAIN us => g[1] \notin us[Slot(us, r, maker)].facts)
  PROVE  Kept(Upserted(us, r, p, facts, maker), some, v, n)
<1> DEFINE hit == Slot(us, r, maker)  u == RecordUnit(r, p, facts, maker)  vs == Put(us, hit, u)
           given == facts \X ToldIn(p)
<1>1. vs = Upserted(us, r, p, facts, maker)
  BY DEF Upserted, Slot, AnyOf
<1>2. u \in UnitRecords /\ Given(u) = given
  BY RecordUnitTells
<1>3. /\ u.records = {r} /\ u.maker = maker /\ u.facts = facts /\ Hears(u) = ToldIn(u.place)
      /\ DefaultVisible(u)
  BY DEF RecordUnit, Unit, Hears, ToldIn, DefaultVisible
<1> HIDE DEF u
<1>4. Fits(us, w, n)
  BY DEF Kept
<1>5. /\ Fits(vs, v, n) /\ RecordOf(vs, r) = {hit}
      /\ \A q \in Topics : q # r => RecordOf(vs, q) = RecordOf(us, q) /\ hit \notin RecordOf(us, q)
  BY <1>3, <1>4, RewriteFits
<1>6. DOMAIN vs = DOMAIN us \cup {hit} /\ vs[hit] = u /\ \A i \in DOMAIN us : i # hit => vs[i] = us[i]
  BY DEF Put
<1> HIDE DEF hit, vs
<1>7. \A g \in some :
        \/ g \in given
        \/ g \in ow /\ g[1] \notin About(r, w) /\ (hit \in DOMAIN us => g[1] \notin us[hit].facts)
  BY DEF hit
<1>8. ASSUME NEW g \in given
      PROVE  \E k \in 1 .. v[r] : g[1] = <<"record", k, r>>
  BY <1>8 DEF About, Fact
<1> HIDE DEF given
<1>9. FactsKnown(some, v)
  <2>1. ASSUME NEW g \in some, g[1][1] = "record" PROVE g[1][3] \in Topics /\ g[1][2] \in 1 .. v[g[1][3]]
    <3>1. CASE g \in given
      BY <1>8, <3>1
    <3>2. CASE g \in ow
      <4>1. g[1][3] \in Topics /\ g[1][2] \in 1 .. w[g[1][3]]
        BY <2>1, <3>2 DEF Kept, FactsKnown
      <4> QED BY <4>1
    <3> QED BY <1>7, <3>1, <3>2
  <2> QED BY <2>1 DEF FactsKnown
<1>10. LatestTold(vs, some, v)
  <2>1. ASSUME NEW q \in Topics, NEW i \in RecordOf(vs, q), NEW g \in some, g[1] \in About(q, v)
        PROVE  g \in Given(vs[i])
    <3>1. PICK k \in 1 .. v[q] : g[1] = <<"record", k, q>>
      BY <2>1 DEF About, Fact
    <3>2. CASE q = r
      <4>1. i = hit
        BY <1>5, <3>2
      <4>2. g \in given
        <5>1. ASSUME g \in ow, g[1] \notin About(r, w) PROVE FALSE
          <6>1. g[1][1] = "record" /\ g[1][2] = k /\ g[1][3] = r
            BY <3>1, <3>2
          <6>2. k \in 1 .. w[r]
            BY <5>1, <6>1 DEF Kept, FactsKnown
          <6> QED BY <3>1, <3>2, <5>1, <6>2 DEF About, Fact
        <5> QED BY <1>7, <5>1
      <4> QED BY <1>2, <1>6, <4>1, <4>2
    <3>3. CASE q # r
      <4>1. g \notin given
        BY <1>8, <3>1, <3>3
      <4>2. g \in ow /\ g[1] \in About(q, w)
        BY <1>7, <2>1, <3>3, <4>1 DEF About
      <4>3. i \in RecordOf(us, q) /\ i # hit /\ i \in DOMAIN us
        BY <1>5, <3>3 DEF RecordOf, Firsts, RecordUnits, Carriers
      <4> QED BY <1>6, <4>2, <4>3 DEF Kept, LatestTold
    <3> QED BY <3>2, <3>3
  <2> QED BY <2>1 DEF LatestTold
<1>11. ASSUME NEW g \in some PROVE Told(vs, g)
  <2>1. CASE g \in given
    BY <1>2, <1>3, <1>6, <2>1 DEF Told
  <2>2. CASE g \in ow /\ (hit \in DOMAIN us => g[1] \notin us[hit].facts)
    <3>1. PICK i \in DOMAIN us : DefaultVisible(us[i]) /\ g \in Given(us[i])
      BY <2>2 DEF Kept, Remembers, Told
    <3>2. i # hit
      BY <2>2, <3>1, GivenPairs
    <3> QED BY <1>6, <3>1, <3>2 DEF Told
  <2> QED BY <1>7, <2>1, <2>2
<1>12. Kept(vs, some, v, n)
  BY <1>5, <1>9, <1>10, <1>11 DEF Kept, Remembers
<1> QED BY <1>1, <1>12

(* Rumours change, and what they told with them.                           *)
LEMMA RumoredKept ==
  ASSUME NEW us, NEW vs, NEW n \in Nat, NEW m \in Nat, n <= m, NEW w, NEW ow, NEW given, NEW some, Store(us, n),
         Kept(us, ow, w, n), RumorsApart(us), RumorsApart(vs), RumorTexts(vs),
         \A i \in DOMAIN us : ~ IsRumorId(i) => i \in DOMAIN vs /\ vs[i] = us[i],
         \A i \in DOMAIN vs : ~ IsRumorId(i) => i \in DOMAIN us,
         NoRecords(given), some \subseteq ow \cup given, \A g \in some : Told(vs, g)
  PROVE  Kept(vs, some, w, m)
<1>1. Fits(us, w, n)
  BY DEF Kept
<1>2. RecordsFit(vs, w)
  <2>1. ASSUME NEW i \in DOMAIN vs PROVE RecordFits(i, vs[i], w)
    <3>1. CASE ~ IsRumorId(i)
      BY <1>1, <3>1 DEF Fits, RecordsFit
    <3>2. CASE IsRumorId(i)
      BY <3>2 DEF RumorsApart, RecordFits, IsRumorId, IsWorldState
    <3> QED BY <3>1, <3>2
  <2> QED BY <2>1 DEF RecordsFit
<1>3. IdsApart(vs, m)
  <2>1. \A i \in DOMAIN us : i[1] = "memory" => i[2] <= m
    BY <1>1 DEF Fits, IdsApart, Store, UnitIds
  <2> QED BY <1>1, <2>1 DEF Fits, IdsApart, IsRumorId
<1>4. \A r : RecordOf(vs, r) = RecordOf(us, r) /\ \A i \in RecordOf(us, r) : i \in DOMAIN us /\ ~ IsRumorId(i)
  <2>1. ASSUME NEW r PROVE RecordUnits(vs, r) = RecordUnits(us, r) /\ \A i \in RecordUnits(us, r) : i \in DOMAIN us /\ ~ IsRumorId(i)
    BY DEF RecordUnits, Carriers, RumorsApart
  <2> QED BY <2>1 DEF RecordOf, Firsts
<1>5. FactsKnown(some, w)
  <2>1. FactsKnown(ow \cup given, w)
    BY OtherFacts DEF Kept
  <2> QED BY <2>1 DEF FactsKnown
<1>6. LatestTold(vs, some, w)
  <2>1. ASSUME NEW r \in Topics, NEW i \in RecordOf(vs, r), NEW g \in some, g[1] \in About(r, w)
        PROVE  g \in Given(vs[i])
    <3>1. g \in ow
      BY <2>1, OtherFacts
    <3> QED BY <1>4, <2>1, <3>1 DEF Kept, LatestTold
  <2> QED BY <2>1 DEF LatestTold
<1> QED BY <1>2, <1>3, <1>5, <1>6 DEF Kept, Fits, Remembers

(* The unit of a rumour that lives tells its text and is found.            *)
LEMMA RumorUnitIs ==
  ASSUME NEW x \in RumorRecords
  PROVE  /\ RumorUnit(x).facts = {TextOf(x)} /\ RumorUnit(x).records = {} /\ RumorUnit(x).maker = "rumor_graph"
         /\ Hears(RumorUnit(x)) = Audience(x.owner, x.known)
         /\ x.alive => DefaultVisible(RumorUnit(x))
         /\ RumorId(x.seq)[2] = x.seq /\ IsRumorId(RumorId(x.seq))
         /\ RumorUnit(x).facts = {<<"rumor", RumorId(x.seq)[2], "text">>}
BY DEF RumorUnit, Unit, Hears, TextOf, RumorRecords, DefaultVisible, RumorId, IsRumorId

(* It gives nothing but that text. *)
LEMMA RumorUnitOwes ==
  ASSUME NEW x \in RumorRecords
  PROVE  NoRecords(Given(RumorUnit(x))) /\ \A g \in Given(RumorUnit(x)) : g[1] = TextOf(x)
<1>1. \A g \in Given(RumorUnit(x)) : g[1] = TextOf(x)
  BY RumorUnitIs, GivenPairs
<1> QED BY <1>1 DEF NoRecords, TextOf

(* The unit of a rumour, by the rumour.                                    *)
LEMMA UnitOfRumor ==
  ASSUME NEW us, NEW xs, NEW gone, Mirrored(us, xs, gone), NEW i \in DOMAIN us, IsRumorId(i)
  PROVE  \E x \in RumorsIn(xs) : i = RumorId(x.seq)
BY DEF Mirrored, LiveIds

(* A rumour that is new: those dropped for it are owed no more.            *)
LEMMA SpokenRemembers ==
  ASSUME MemoryInv, NEW us, NEW given, Sound(us, counts.inserts + 1, given), RumorsKept(units, us),
         NEW x \in RumorRecords, x.seq = counts.inserts + 1, Given(RumorUnit(x)) \subseteq given, x.alive,
         NEW n \in Nat, n <= counts.inserts + 1, Store(us, n), NEW w, NEW ow, Kept(us, ow, w, n),
         NEW live, live = Capped(Append(rumors, x)),
         NEW some, \A g \in some :
           \/ g \in Given(RumorUnit(x))
           \/ g \in ow /\ \A y \in RumorsIn(rumors) \ RumorsIn(live) : g[1] # TextOf(y)
  PROVE  Kept(RumorSynced(Pruned(us, live), x), some, w, counts.inserts + 1)
<1> DEFINE mid == Pruned(us, live)  vs == RumorSynced(mid, x)  new == RumorId(x.seq)  m == counts.inserts + 1
<1>1. m \in Nat /\ counts.inserts \in Nat /\ rumors \in Seq(RumorRecords)
  BY DEF MemoryInv, MemoryTypes
<1>2. RumorsApart(vs) /\ Mirrored(vs, live, erased)
  BY SpokenKeeps
<1>3. Mirrored(us, rumors, erased) /\ RumorsApart(us)
  BY MirroredMeans, MirroredKept, ApartKept DEF MemoryInv
<1>4. \A y \in RumorsIn(rumors) : y \in RumorRecords /\ y.seq \in Nat /\ y.seq <= counts.inserts
  <2>1. \A k \in DOMAIN rumors : rumors[k].seq <= counts.inserts
    BY DEF MemoryInv, RumorsNumbered
  <2> QED BY <1>1, <2>1, RumorTypes DEF RumorsIn
<1>5. new \notin DOMAIN us
  <2>1. ASSUME new \in DOMAIN us PROVE FALSE
    <3>1. PICK y \in RumorsIn(rumors) : new = RumorId(y.seq)
      BY <1>3, <2>1, UnitOfRumor, RumorUnitIs
    <3>2. x.seq = y.seq
      BY <1>1, <1>4, <3>1, RumorIds
    <3> QED BY <1>1, <1>4, <3>1, <3>2
  <2> QED BY <2>1
<1>6. /\ DOMAIN mid = {j \in DOMAIN us : us[j].maker = "rumor_graph" => j \in LiveIds(live)}
      /\ \A i \in DOMAIN mid : mid[i] = us[i]
  BY DEF Pruned
<1> HIDE DEF mid
<1>7. DOMAIN vs = DOMAIN mid \cup {new} /\ vs[new] = RumorUnit(x) /\ \A i \in DOMAIN mid : vs[i] = us[i]
  BY <1>5, <1>6 DEF RumorSynced, Put
<1> HIDE DEF vs
<1>8. IsRumorId(new)
  BY RumorUnitIs
<1>9. RumorTexts(us)
  BY DEF Kept, Fits
<1>10. RumorTexts(vs)
  BY <1>6, <1>7, <1>8, <1>9, RumorUnitIs DEF RumorTexts
<1>11. \A i \in DOMAIN us : ~ IsRumorId(i) => i \in DOMAIN vs /\ vs[i] = us[i]
  BY <1>6, <1>7, <1>9 DEF RumorTexts
<1>12. \A i \in DOMAIN vs : ~ IsRumorId(i) => i \in DOMAIN us
  BY <1>6, <1>7, <1>8
<1>13. ASSUME NEW g \in some PROVE Told(vs, g)
  <2>1. CASE g \in Given(RumorUnit(x))
    BY <1>7, <2>1, RumorUnitIs DEF Told
  <2>2. CASE g \in ow /\ \A y \in RumorsIn(rumors) \ RumorsIn(live) : g[1] # TextOf(y)
    <3>1. PICK i \in DOMAIN us : DefaultVisible(us[i]) /\ g \in Given(us[i])
      BY <2>2 DEF Kept, Remembers, Told
    <3>2. i \in DOMAIN mid
      <4>1. ASSUME i \notin DOMAIN mid PROVE FALSE
        <5>1. us[i].maker = "rumor_graph" /\ i \notin LiveIds(live)
          BY <1>6, <4>1
        <5>2. IsRumorId(i) /\ us[i].facts = {<<"rumor", i[2], "text">>}
          BY <1>9, <5>1 DEF RumorTexts
        <5>3. PICK y \in RumorsIn(rumors) : i = RumorId(y.seq)
          BY <1>3, <5>2, UnitOfRumor
        <5>4. y \notin RumorsIn(live)
          BY <5>1, <5>3 DEF LiveIds
        <5>5. g[1] = TextOf(y)
          <6>1. i[2] = y.seq
            BY <1>4, <5>3, RumorIds
          <6> QED BY <3>1, <5>2, <6>1, GivenPairs DEF TextOf
        <5> QED BY <2>2, <5>4, <5>5
      <4> QED BY <4>1
    <3> QED BY <1>7, <3>1, <3>2 DEF Told
  <2> QED BY <2>1, <2>2
<1>14. NoRecords(Given(RumorUnit(x))) /\ some \subseteq ow \cup Given(RumorUnit(x))
  BY RumorUnitOwes
<1>15. Kept(vs, some, w, m)
  BY <1>1, <1>2, <1>3, <1>10, <1>11, <1>12, <1>13, <1>14, RumoredKept
<1> QED BY <1>15 DEF vs, mid, m

(* Rumours that fade are owed no more, the others tell more, if anything.  *)
LEMMA ResyncedRemembers ==
  ASSUME MemoryInv, NEW w, Kept(units, owed, w, counts.inserts),
         NEW xs \in [DOMAIN rumors -> RumorRecords],
         \A k \in DOMAIN rumors : /\ xs[k].seq = rumors[k].seq /\ xs[k].owner = rumors[k].owner
                                  /\ rumors[k].known \subseteq xs[k].known,
         RumorsBecome(xs), RumorsApart(units')
  PROVE  Kept(units', owed', w, counts.inserts)
<1> DEFINE changed == {k \in DOMAIN xs : xs[k] # rumors[k]}
           given == UNION {Given(RumorUnit(xs[k])) : k \in changed}
           new == [i \in {RumorId(xs[k].seq) : k \in changed} |-> RumorUnit(xs[CHOOSE k \in changed : RumorId(xs[k].seq) = i])]
           faded == {TextOf(x) : x \in {y \in RumorsIn(xs) : ~ y.alive}}
<1>1. /\ counts.inserts \in Nat /\ rumors \in Seq(RumorRecords) /\ Store(units, counts.inserts)
      /\ Mirrored(units, rumors, erased) /\ RumorsApart(units) /\ RumorTexts(units)
  BY MirroredMeans DEF MemoryInv, MemoryTypes, Kept, Fits
<1>2. units' = PutAll(units, new) /\ owed' = Without(owed \cup given, faded)
  BY DEF RumorsBecome, Resynced
<1>3. \A k \in DOMAIN rumors : /\ xs[k] \in RumorRecords /\ rumors[k] \in RumorRecords /\ xs[k].seq \in Nat
                               /\ rumors[k].seq = xs[k].seq
  BY <1>1, RumorTypes DEF RumorRecords
<1>4. \A k, l \in DOMAIN rumors : RumorId(xs[k].seq) = RumorId(xs[l].seq) => k = l
  <2>1. \A k, l \in DOMAIN rumors : rumors[k].seq = rumors[l].seq => k = l
    BY DEF MemoryInv, RumorsNumbered
  <2> QED BY <1>3, <2>1, RumorIds
<1>5. changed \subseteq DOMAIN rumors /\ \A k \in DOMAIN rumors : k \notin changed => xs[k] = rumors[k]
  OBVIOUS
<1>6. DOMAIN new = {RumorId(xs[k].seq) : k \in changed}
  OBVIOUS
<1>7. ASSUME NEW k \in changed
      PROVE  RumorId(xs[k].seq) \in DOMAIN new /\ new[RumorId(xs[k].seq)] = RumorUnit(xs[k])
  <2> DEFINE l == CHOOSE l \in changed : RumorId(xs[l].seq) = RumorId(xs[k].seq)
  <2>1. RumorId(xs[k].seq) \in DOMAIN new /\ new[RumorId(xs[k].seq)] = RumorUnit(xs[l])
    OBVIOUS
  <2>2. l \in changed /\ RumorId(xs[l].seq) = RumorId(xs[k].seq)
    OBVIOUS
  <2> HIDE DEF l, new, changed
  <2>3. l = k
    BY <1>4, <1>5, <2>2
  <2> QED BY <2>1, <2>3
<1>8. DOMAIN units' = DOMAIN units \cup DOMAIN new
      /\ (\A i \in DOMAIN new : units'[i] = new[i])
      /\ (\A i \in DOMAIN units : i \notin DOMAIN new => units'[i] = units[i])
  <2> HIDE DEF new
  <2> QED BY <1>2 DEF PutAll
<1>9. \A g \in owed' : (g \in owed \/ g \in given) /\ \A y \in RumorsIn(xs) : ~ y.alive => g[1] # TextOf(y)
  <2> HIDE DEF given, new, changed
  <2> QED BY <1>2 DEF Without
<1>10. \A i \in DOMAIN new : \E k \in changed : i = RumorId(xs[k].seq)
  BY <1>6
<1>11. \A g \in given : \E k \in changed : g \in Given(RumorUnit(xs[k]))
  OBVIOUS
<1> HIDE DEF changed, given, new, faded
<1>12. \A k \in DOMAIN rumors : xs[k] \in RumorsIn(xs)
  BY DEF RumorsIn
<1>13. \A k \in DOMAIN rumors : rumors[k] \in RumorsIn(rumors)
  BY DEF RumorsIn
<1>14. \A i \in DOMAIN new : IsRumorId(i)
  BY <1>3, <1>5, <1>10, RumorUnitIs
<1>15. RumorTexts(units')
  <2>1. ASSUME NEW i \in DOMAIN new PROVE units'[i].facts = {<<"rumor", i[2], "text">>}
    <3>1. PICK k \in changed : i = RumorId(xs[k].seq)
      BY <1>10, <2>1
    <3> QED BY <1>3, <1>5, <1>7, <1>8, <3>1, RumorUnitIs
  <2> QED BY <1>1, <1>8, <1>14, <2>1 DEF RumorTexts
<1>16. ASSUME NEW g \in owed' PROVE Told(units', g)
  <2>1. ASSUME NEW k \in changed, g \in Given(RumorUnit(xs[k])) PROVE Told(units', g)
    <3>1. k \in DOMAIN rumors /\ xs[k] \in RumorRecords /\ xs[k] \in RumorsIn(xs)
      BY <1>3, <1>5, <1>12
    <3>2. g[1] = TextOf(xs[k])
      BY <2>1, <3>1, RumorUnitOwes
    <3>3. xs[k].alive
      BY <1>9, <1>16, <3>1, <3>2 DEF RumorRecords
    <3>4. DefaultVisible(RumorUnit(xs[k]))
      BY <3>1, <3>3, RumorUnitIs
    <3> QED BY <1>7, <1>8, <2>1, <3>4 DEF Told
  <2>2. CASE g \in given
    BY <1>11, <2>1, <2>2
  <2>3. CASE g \in owed
    <3>1. PICK i \in DOMAIN units : DefaultVisible(units[i]) /\ g \in Given(units[i])
      BY <2>3 DEF Kept, Remembers, Told
    <3>2. CASE i \notin DOMAIN new
      BY <1>8, <3>1, <3>2 DEF Told
    <3>3. CASE i \in DOMAIN new
      <4>1. PICK k \in changed : i = RumorId(xs[k].seq)
        BY <1>10, <3>3
      <4>2. k \in DOMAIN rumors /\ i = RumorId(rumors[k].seq) /\ xs[k] \in RumorRecords /\ rumors[k] \in RumorRecords
            /\ rumors[k] \in RumorsIn(rumors) /\ rumors[k].known \subseteq xs[k].known /\ xs[k].owner = rumors[k].owner
        BY <1>3, <1>5, <1>13, <4>1
      <4>3. units[i].owner = rumors[k].owner /\ units[i].vis = rumors[k].known
        <5>1. i \notin erased
          BY <1>1, <1>14, <3>1, <3>3 DEF Mirrored
        <5> QED BY <1>1, <4>2, <5>1 DEF Mirrored
      <4>4. units[i].facts = {<<"rumor", i[2], "text">>} /\ IsRumorId(i)
        BY <1>1, <1>14, <3>3 DEF RumorTexts
      <4>5. RumorUnit(xs[k]).facts = units[i].facts
        BY <4>1, <4>2, <4>4, RumorUnitIs
      <4>6. Hears(units[i]) \subseteq Hears(RumorUnit(xs[k]))
        <5>1. Hears(units[i]) = Audience(rumors[k].owner, rumors[k].known)
          BY <4>3 DEF Hears
        <5>2. Hears(RumorUnit(xs[k])) = Audience(rumors[k].owner, xs[k].known)
          BY <4>2, RumorUnitIs
        <5> QED BY <4>2, <5>1, <5>2 DEF Audience
      <4>7. g \in Given(RumorUnit(xs[k]))
        BY <3>1, <4>5, <4>6 DEF Given
      <4> QED BY <2>1, <4>7
    <3> QED BY <3>2, <3>3
  <2> QED BY <1>9, <2>2, <2>3
<1>17. NoRecords(given)
  BY <1>3, <1>5, <1>11, RumorUnitOwes DEF NoRecords
<1>18. owed' \subseteq owed \cup given
  BY <1>9
<1>19. \A i \in DOMAIN units : ~ IsRumorId(i) => i \in DOMAIN units' /\ units'[i] = units[i]
  BY <1>8, <1>14
<1>20. \A i \in DOMAIN units' : ~ IsRumorId(i) => i \in DOMAIN units
  BY <1>8, <1>14
<1> QED BY <1>1, <1>15, <1>16, <1>17, <1>18, <1>19, <1>20, RumoredKept

(* A rumour that is taken out is owed no more.                             *)
LEMMA RemovedRemembers ==
  ASSUME MemoryInv, NEW w, Kept(units, owed, w, counts.inserts), NEW k \in DOMAIN rumors, RemoveRumor(k),
         RumorsApart(units')
  PROVE  Kept(units', owed', w, counts.inserts)
<1> DEFINE x == rumors[k]  old == RumorId(x.seq)
<1>1. /\ counts.inserts \in Nat /\ rumors \in Seq(RumorRecords) /\ Store(units, counts.inserts)
      /\ RumorsApart(units) /\ RumorTexts(units)
  BY DEF MemoryInv, MemoryTypes, Kept, Fits
<1>2. x \in RumorRecords
  BY <1>1, RumorTypes
<1>3. /\ DOMAIN units' = DOMAIN units \ {old} /\ \A i \in DOMAIN units' : units'[i] = units[i]
      /\ owed' = Without(owed, {TextOf(x)})
  BY DEF RemoveRumor
<1> HIDE DEF x
<1>4. IsRumorId(old) /\ old[2] = x.seq
  BY <1>2, RumorUnitIs
<1> HIDE DEF old
<1>5. RumorTexts(units')
  BY <1>1, <1>3 DEF RumorTexts
<1>6. owed' \subseteq owed \cup {} /\ \A g \in owed' : g[1] # TextOf(x)
  BY <1>3 DEF Without
<1>7. ASSUME NEW g \in owed' PROVE Told(units', g)
  <2>1. PICK i \in DOMAIN units : DefaultVisible(units[i]) /\ g \in Given(units[i])
    BY <1>6 DEF Kept, Remembers, Told
  <2>2. i # old
    BY <1>1, <1>4, <1>6, <2>1, GivenPairs DEF RumorTexts, TextOf
  <2> QED BY <1>3, <2>1, <2>2 DEF Told
<1>8. NoRecords({})
  BY DEF NoRecords
<1>9. /\ \A i \in DOMAIN units : ~ IsRumorId(i) => i \in DOMAIN units' /\ units'[i] = units[i]
      /\ \A i \in DOMAIN units' : ~ IsRumorId(i) => i \in DOMAIN units
  BY <1>3, <1>4
<1> QED BY <1>1, <1>5, <1>6, <1>7, <1>8, <1>9, RumoredKept

-----------------------------------------------------------------------------
(* The invariant, and the steps that keep it.                              *)

ForgetInv == Kept(units, owed, written, counts.inserts) /\ \A r \in SeedTopics : written[r] > 0

(* What it is, now and after a step. *)
LEMMA ForgetMeans ==
  /\ ForgetInv <=> Kept(units, owed, written, counts.inserts) /\ \A r \in SeedTopics : written[r] > 0
  /\ ForgetInv' <=> Kept(units', owed', written', counts'.inserts) /\ \A r \in SeedTopics : written'[r] > 0
BY DEF ForgetInv, Kept, Fits, RecordsFit, RecordFits, IdsApart, RumorTexts, FactsKnown, LatestTold, Remembers, Told,
       RecordOf, Firsts, Precedes, Rank, RecordUnits, Carriers, IsWorldState, IsRumorId, About, Fact, Given, Hears, Audience,
       ToldIn, OwnerScope, VisibilityScopes, DefaultVisible

(* What they say of the store before a step. *)
LEMMA ForgetBefore ==
  ASSUME MemoryInv, ForgetInv
  PROVE  /\ counts.inserts \in Nat /\ Store(units, counts.inserts) /\ RumorsApart(units)
         /\ written \in [Topics -> Nat] /\ flat \in [SeedTopics -> Places]
         /\ Kept(units, owed, written, counts.inserts) /\ \A r \in SeedTopics : written[r] > 0
         /\ \A r \in Topics : About(r, written) = FactsAbout(r)
<1>1. counts.inserts \in Nat /\ RumorsApart(units)
  BY StoreBefore
<1>2. \A r \in Topics : About(r, written) = FactsAbout(r)
  BY DEF About, FactsAbout
<1> QED BY <1>1, <1>2, ForgetMeans DEF MemoryInv, MemoryTypes

(* Counters of a step that inserts nothing, and of one that does. *)
LEMMA ForgetCounts ==
  ASSUME MemoryInv
  PROVE  /\ counts' = Step("tools") \/ counts' = Step("walks") \/ counts' = Step("loads") => counts'.inserts = counts.inserts
         /\ counts' = Insertion("tools") \/ counts' = Insertion("beats") => counts'.inserts = counts.inserts + 1
BY StoreBefore, CountsGrow

(* Units are archived with all that they tell. *)
LEMMA ArchivedForget ==
  ASSUME MemoryInv, ForgetInv, NEW r \in Topics, NEW ids, ids \subseteq DOMAIN units,
         units' = Archive(units, ids), owed' = Without(owed, FactsAbout(r) \cup Entangled(units, ids, r)),
         counts' = Step("tools"), UNCHANGED written
  PROVE  ForgetInv'
<1>1. FactsOf(units, ids) \subseteq FactsAbout(r) \cup Entangled(units, ids, r)
  BY DEF Entangled
<1>2. Kept(units', owed', written, counts.inserts)
  BY <1>1, ForgetBefore, ArchiveRemembers
<1> QED BY <1>2, ForgetBefore, ForgetCounts, ForgetMeans

(* A record that is deactivated or deleted. *)
LEMMA RemovalForget ==
  ASSUME MemoryInv, ForgetInv, NEW r \in Topics, DeactivateRecord(r) \/ DeleteRecord(r)
  PROVE  ForgetInv'
<1>1. Carriers(units, r) \subseteq DOMAIN units /\ Firsts(Carriers(units, r)) \subseteq DOMAIN units
  BY DEF Carriers, Firsts
<1>2. CASE DeactivateRecord(r)
  BY <1>1, <1>2, ArchivedForget DEF DeactivateRecord, UpsertedInactive
<1>3. CASE DeleteRecord(r)
  BY <1>1, <1>3, ArchivedForget DEF DeleteRecord
<1> QED BY <1>2, <1>3

(* A record's text is written anew, over the unit that told it. *)
LEMMA RewrittenForget ==
  ASSUME MemoryInv, ForgetInv, NEW r \in Topics, NEW maker \in {"migration", "world_state"},
         NEW p \in Places, NEW facts \in SUBSET Facts, NEW v \in [Topics -> Nat], written' = v,
         facts \subseteq About(r, v), 0 < v[r],
         \A q \in Topics : written[q] <= v[q] /\ (q # r => written[q] = v[q]),
         units' = Upserted(units, r, p, facts, maker), counts'.inserts = counts.inserts,
         \A g \in owed' :
           \/ g \in facts \X ToldIn(p)
           \/ g \in owed /\ g[1] \notin FactsAbout(r) /\ g[1] \notin Entangled(units, Target(units, r, maker), r)
  PROVE  ForgetInv'
<1>1. Slot(units, r, maker) \in Target(units, r, maker)
  BY ForgetBefore, TargetIsRecord DEF Slot, AnyOf
<1>2. \A g \in owed' :
        \/ g \in facts \X ToldIn(p)
        \/ g \in owed /\ g[1] \notin About(r, written) /\ (Slot(units, r, maker) \in DOMAIN units => g[1] \notin units[Slot(units, r, maker)].facts)
  BY <1>1, ForgetBefore DEF Entangled, FactsOf
<1>3. Kept(units', owed', v, counts.inserts)
  BY <1>2, ForgetBefore, RewriteRemembers
<1>4. \A q \in SeedTopics : v[q] > 0
  <2>1. ASSUME NEW q \in SeedTopics
        PROVE  v[q] > 0
    <3>1. q \in Topics /\ written[q] > 0 /\ written[q] \in Nat /\ v[q] \in Nat /\ written[q] <= v[q]
      BY ForgetBefore, MemoryAssumption
    <3> QED BY <3>1
  <2> QED BY <2>1
<1> QED BY <1>3, <1>4, ForgetMeans

(* A load writes a seed's first text. *)
LEMMA LoadSeedForget ==
  ASSUME MemoryInv, ForgetInv, NEW r \in moment.seeds, LoadSeed(r)
  PROVE  ForgetInv'
<1> DEFINE new == {Fact(r, 1)}
<1>1. r \in SeedTopics /\ r \in Topics /\ flat[r] \in Places
  BY MemoryAssumption DEF MemoryInv, MemoryTypes, Moments
<1>2. /\ units' = Upserted(units, r, flat[r], new, "migration") /\ written' = written /\ counts' = counts
      /\ owed' = Without(owed, FactsAbout(r) \cup Entangled(units, Target(units, r, "migration"), r))
                   \cup (owed \cap (new \X ToldIn(flat[r])))
  BY DEF LoadSeed
<1>3. written \in [Topics -> Nat] /\ 0 < written[r] /\ \A q \in Topics : written[q] <= written[q]
  BY <1>1, ForgetBefore
<1>4. new \in SUBSET Facts /\ new \subseteq About(r, written)
  BY <1>1, <1>3 DEF About, Fact, Facts
<1>5. \A g \in owed' :
        \/ g \in new \X ToldIn(flat[r])
        \/ g \in owed /\ g[1] \notin FactsAbout(r) /\ g[1] \notin Entangled(units, Target(units, r, "migration"), r)
  BY <1>2 DEF Without
<1> HIDE DEF new
<1> QED BY <1>1, <1>2, <1>3, <1>4, <1>5, RewrittenForget

(* Another text, or another placement. *)
LEMMA UpdateForget ==
  ASSUME MemoryInv, ForgetInv, NEW r \in Topics, NEW reviving,
         NEW p \in UNION {Revised(units[i].place) : i \in RecordOf(units, r)}, UpdateRecord(r, p, reviving)
  PROVE  ForgetInv'
<1> DEFINE n == written[r] + 1
           v == [written EXCEPT ![r] = n]
           new == {Fact(r, n)}
<1>1. PICK i \in RecordOf(units, r) : p \in Revised(units[i].place)
  OBVIOUS
<1>2. i \in DOMAIN units /\ Carriers(units, r) # {}
  BY <1>1 DEF RecordOf, Firsts, RecordUnits, Carriers
<1>3. units[i].place \in Places
  BY <1>2 DEF MemoryInv, MemoryTypes, Store, UnitRecords
<1>4. p \in Places
  BY <1>1, <1>3, MemoryAssumption DEF Revised, Places, Placings
<1>5. written \in [Topics -> Nat] /\ n \in Nat /\ 0 < n /\ written[r] \in Nat /\ written[r] <= n
  BY ForgetBefore
<1>6. /\ written' = v /\ units' = Upserted(units, r, p, new, "world_state") /\ counts' = Step("tools")
      /\ owed' = Without(owed, FactsAbout(r) \cup Entangled(units, Target(units, r, "world_state"), r))
                   \cup (new \X ToldIn(p))
  BY DEF UpdateRecord
<1> HIDE DEF n
<1>7. /\ v \in [Topics -> Nat] /\ v[r] = n
      /\ \A q \in Topics : written[q] <= v[q] /\ (q # r => written[q] = v[q])
  <2>1. v \in [Topics -> Nat] /\ v[r] = n /\ \A q \in Topics : q # r => v[q] = written[q]
    BY <1>5
  <2> HIDE DEF v
  <2>2. \A q \in Topics : written[q] \in Nat
    BY <1>5
  <2> QED BY <1>5, <2>1, <2>2
<1> HIDE DEF v
<1>8. new \in SUBSET Facts /\ new \subseteq About(r, v)
  <2>1. n \in 1 .. v[r]
    BY <1>5, <1>7
  <2> QED BY <1>5, <2>1 DEF About, Fact, Facts
<1>9. \A g \in owed' :
        \/ g \in new \X ToldIn(p)
        \/ g \in owed /\ g[1] \notin FactsAbout(r) /\ g[1] \notin Entangled(units, Target(units, r, "world_state"), r)
  BY <1>6 DEF Without
<1>10. 0 < v[r]
  BY <1>5, <1>7
<1> HIDE DEF new
<1>11. written' = v /\ units' = Upserted(units, r, p, new, "world_state") /\ counts'.inserts = counts.inserts
  BY <1>6, ForgetCounts
<1>12. /\ v \in [Topics -> Nat] /\ new \in SUBSET Facts /\ new \subseteq About(r, v)
       /\ \A q \in Topics : written[q] <= v[q] /\ (q # r => written[q] = v[q])
  BY <1>2, <1>7, <1>8
<1> QED BY <1>4, <1>9, <1>10, <1>11, <1>12, RewrittenForget

(* Who hears of a record still does when its participants grow. *)
LEMMA ToldInGrows ==
  ASSUME NEW p \in Places, NEW who \in Folk
  PROVE  ToldIn(p) \subseteq ToldIn([p EXCEPT !.parts = @ \cup {who}])
<1> DEFINE more == p.parts \cup {who}
           q == [p EXCEPT !.parts = more]
<1>1. p.scope \in {"public", "gm", "owner", "participants"} /\ p.parts \subseteq Folk
  BY DEF Places, Placings
<1>2. q.scope = p.scope /\ q.holder = p.holder /\ q.parts = more
  BY DEF Places, Placings
<1> SUFFICES ToldIn(p) \subseteq ToldIn(q)
  OBVIOUS
<1> HIDE DEF q
<1>3. CASE p.scope # "participants"
  BY <1>1, <1>2, <1>3 DEF ToldIn, OwnerScope, VisibilityScopes
<1>4. CASE p.scope = "participants"
  <2>1. OwnerScope(q) \in more /\ more \subseteq Folk
    <3>1. OwnerScope(q) = CHOOSE n \in more : TRUE
      BY <1>2, <1>4 DEF OwnerScope
    <3>2. (CHOOSE n \in more : TRUE) \in more
      OBVIOUS
    <3> QED BY <1>1, <3>1, <3>2
  <2>2. OwnerScope(q) # "gm_private"
    BY <2>1, MemoryAssumption
  <2>3. VisibilityScopes(q) = more \cup {p.holder, "player"}
    BY <1>2, <1>4 DEF VisibilityScopes
  <2>4. VisibilityScopes(p) = p.parts \cup {p.holder, "player"}
    BY <1>4 DEF VisibilityScopes
  <2>5. OwnerScope(p) \in p.parts \cup {p.holder}
    <3>1. CASE p.parts = {}
      BY <1>4, <3>1 DEF OwnerScope
    <3>2. CASE p.parts # {}
      <4>1. (CHOOSE n \in p.parts : TRUE) \in p.parts
        BY <3>2
      <4> QED BY <1>4, <3>2, <4>1 DEF OwnerScope
    <3> QED BY <3>1, <3>2
  <2> HIDE DEF more
  <2>6. p.parts \subseteq more
    BY DEF more
  <2> QED BY <2>2, <2>3, <2>4, <2>5, <2>6 DEF ToldIn, Audience
<1> QED BY <1>3, <1>4

(* The participants of a record grow. *)
LEMMA MergeForget ==
  ASSUME MemoryInv, ForgetInv, NEW r \in Topics, NEW who \in Folk, MergeRecord(r, who)
  PROVE  ForgetInv'
<1>1. PICK i \in RecordOf(units, r) :
        LET u == units[i]
            p == [u.place EXCEPT !.parts = @ \cup {who}]
        IN  /\ units' = Upserted(units, r, p, u.facts, "world_state")
            /\ owed' = Without(owed, Entangled(units, Target(units, r, "world_state"), r)) \cup (u.facts \X ToldIn(p))
  BY DEF MergeRecord
<1> DEFINE u == units[i]
           p == [u.place EXCEPT !.parts = @ \cup {who}]
<1>2. i \in DOMAIN units /\ r \in u.records /\ IsWorldState(u) /\ Carriers(units, r) # {}
  BY <1>1 DEF RecordOf, Firsts, RecordUnits, Carriers
<1>3. u.facts \in SUBSET Facts /\ u.place \in Places
  BY <1>2 DEF MemoryInv, MemoryTypes, Store, UnitRecords
<1>4. p \in Places
  BY <1>3 DEF Places, Placings
<1>5. RecordsFit(units, written) /\ LatestTold(units, owed, written)
  BY ForgetBefore DEF Kept, Fits
<1>6. RecordFits(i, u, written)
  BY <1>2, <1>5 DEF RecordsFit
<1>7. u.facts \subseteq About(r, written) /\ Hears(u) = ToldIn(u.place) /\ written[r] > 0
  BY <1>2, <1>6 DEF RecordFits
<1>8. ToldIn(u.place) \subseteq ToldIn(p)
  BY <1>3, ToldInGrows
<1>9. written' = written /\ written \in [Topics -> Nat] /\ counts'.inserts = counts.inserts
  BY ForgetBefore, ForgetCounts DEF MergeRecord
<1>10. units' = Upserted(units, r, p, u.facts, "world_state")
  BY <1>1
<1>11. owed' = Without(owed, Entangled(units, Target(units, r, "world_state"), r)) \cup (u.facts \X ToldIn(p))
  BY <1>1
<1> HIDE DEF u, p
<1>12. \A g \in owed' :
         \/ g \in u.facts \X ToldIn(p)
         \/ g \in owed /\ g[1] \notin FactsAbout(r) /\ g[1] \notin Entangled(units, Target(units, r, "world_state"), r)
  <2>1. SUFFICES ASSUME NEW g \in owed, g[1] \in FactsAbout(r)
                 PROVE  g \in u.facts \X ToldIn(p)
    BY <1>11 DEF Without
  <2>2. g \in Given(u)
    <3>1. g[1] \in About(r, written)
      BY <2>1, ForgetBefore
    <3> QED BY <1>1, <1>5, <2>1, <3>1 DEF LatestTold, u
  <2> QED BY <1>7, <1>8, <2>2, GivenPairs
<1>13. \A q \in Topics : written[q] <= written[q]
  BY <1>9
<1> QED BY <1>2, <1>3, <1>4, <1>7, <1>9, <1>10, <1>12, <1>13, RewrittenForget

(* A new record, in whose place others may go. *)
LEMMA AddRecordForget ==
  ASSUME MemoryInv, ForgetInv, NEW r \in Topics, NEW p \in Placements, NEW replaced \in SUBSET Goals,
         AddRecord(r, p, replaced)
  PROVE  ForgetInv'
<1> DEFINE hit == UNION {Carriers(units, g) : g \in replaced}
           n == written[r] + 1
           new == {Fact(r, n)}
           lost == UNION {FactsAbout(g) \cup Entangled(units, Carriers(units, g), g) : g \in replaced}
           over == FactsAbout(r) \cup Entangled(units, Target(units, r, "world_state"), r)
           us == Archive(units, hit)
           ow == Without(owed, lost)
           v == [written EXCEPT ![r] = n]
           slot == Slot(us, r, "world_state")
<1>1. p \in Places
  BY PlacementsArePlaces
<1>2. /\ written' = v /\ counts' = Step("tools") /\ units' = Upserted(us, r, p, new, "world_state")
      /\ \A g \in owed' : g \in new \X ToldIn(p) \/ (g \in ow /\ g[1] \notin over)
  <2>1. owed' = Without(owed, lost \cup over) \cup (new \X ToldIn(p))
    BY DEF AddRecord
  <2>2. \A g \in owed' : g \in new \X ToldIn(p) \/ (g \in ow /\ g[1] \notin over)
    BY <2>1 DEF Without
  <2> QED BY <2>2 DEF AddRecord
<1>3. written \in [Topics -> Nat] /\ counts.inserts \in Nat
  BY ForgetBefore
<1>4. hit \subseteq DOMAIN units
  BY DEF Carriers
<1>5. FactsOf(units, hit) \subseteq lost
  <2>1. SUFFICES ASSUME NEW g \in replaced, NEW i \in Carriers(units, g), NEW f \in units[i].facts
                 PROVE  f \in FactsAbout(g) \cup Entangled(units, Carriers(units, g), g)
    BY DEF FactsOf
  <2>2. i \in Carriers(units, g) \cap DOMAIN units
    BY DEF Carriers
  <2>3. f \in FactsOf(units, Carriers(units, g) \cap DOMAIN units)
    BY <2>2 DEF FactsOf
  <2> QED BY <2>3 DEF Entangled
<1> HIDE DEF hit, lost
<1>6. Kept(us, ow, written, counts.inserts)
  BY <1>4, <1>5, ForgetBefore, ArchiveRemembers
<1>7. Store(us, counts.inserts) /\ RumorsApart(us)
  BY StoreBefore, ArchiveKeeps, ApartKept DEF Sound
<1>8. Target(us, r, "world_state") = Target(units, r, "world_state") /\ \A i \in DOMAIN us : us[i].facts = units[i].facts
  <2>1. Retold(units, us)
    BY ForgetBefore, MarksRetell
  <2>2. Carriers(us, r) = Carriers(units, r)
    BY <2>1 DEF Retold, SameTale, Carriers
  <2> QED BY <2>1, <2>2 DEF Retold, SameTale, Target
<1>9. n \in Nat /\ 0 < n /\ written[r] <= n
  BY <1>3
<1>10. DOMAIN us = DOMAIN units
  BY DEF Archive
<1> HIDE DEF us, ow, n, over, slot
<1>11. /\ v \in [Topics -> Nat] /\ v[r] = n
       /\ \A q \in Topics : written[q] <= v[q] /\ (q # r => written[q] = v[q])
  <2>1. v \in [Topics -> Nat] /\ v[r] = n /\ \A q \in Topics : q # r => v[q] = written[q]
    BY <1>3, <1>9
  <2> HIDE DEF v
  <2>2. \A q \in Topics : written[q] \in Nat
    BY <1>3
  <2> QED BY <1>9, <2>1, <2>2
<1> HIDE DEF v
<1>12. new \in SUBSET Facts /\ new \subseteq About(r, v)
  BY <1>9, <1>11 DEF About, Fact, Facts
<1> HIDE DEF new
<1>15. \A g \in owed' :
         \/ g \in new \X ToldIn(p)
         \/ g \in ow /\ g[1] \notin About(r, written) /\ (slot \in DOMAIN us => g[1] \notin us[slot].facts)
  <2>1. slot \in Target(units, r, "world_state")
    BY <1>7, <1>3, <1>8, TargetIsRecord DEF Slot, AnyOf, slot
  <2>2. slot \in DOMAIN us => us[slot].facts \subseteq over
    BY <1>8, <1>10, <2>1 DEF Entangled, FactsOf, over
  <2>3. About(r, written) \subseteq over
    BY ForgetBefore DEF over
  <2> QED BY <1>2, <2>2, <2>3
<1>13. 0 < v[r]
  BY <1>9, <1>11
<1>14. Kept(units', owed', v, counts.inserts)
  BY <1>1, <1>2, <1>3, <1>6, <1>7, <1>11, <1>12, <1>13, <1>15, RewriteRemembers DEF slot
<1>16. \A q \in SeedTopics : v[q] > 0
  <2>1. ASSUME NEW q \in SeedTopics
        PROVE  v[q] > 0
    <3>1. q \in Topics /\ written[q] > 0 /\ written[q] \in Nat /\ v[q] \in Nat /\ written[q] <= v[q]
      BY <1>3, <1>11, ForgetBefore, MemoryAssumption
    <3> QED BY <3>1
  <2> QED BY <2>1
<1> QED BY <1>2, <1>14, <1>16, ForgetCounts, ForgetMeans

(* Units that are added, and what they tell. *)
LEMMA AddedForget ==
  ASSUME MemoryInv, ForgetInv, NEW new, NEW given,
         \A i \in DOMAIN new : Fresh(i, counts.inserts) /\ PlainUnit(new[i], written) /\ NoRecords(Given(new[i])),
         \A i, j \in DOMAIN new : new[i].records # {} /\ new[j].records # {} => i = j,
         given = UNION {Given(new[i]) : i \in DOMAIN new},
         units' = PutAll(units, new), owed' = owed \cup given,
         counts' = Insertion("tools") \/ counts' = Insertion("beats"), UNCHANGED written
  PROVE  ForgetInv'
<1>1. NoRecords(given) /\ \A g \in given : \E i \in DOMAIN new : g \in Given(new[i])
  BY DEF NoRecords
<1>2. \A i \in DOMAIN new : Fresh(i, counts.inserts) /\ PlainUnit(new[i], written)
  OBVIOUS
<1>3. Kept(units', owed', written, counts.inserts + 1)
  BY <1>1, <1>2, ForgetBefore, AddedRemembers
<1> QED BY <1>3, ForgetBefore, ForgetCounts, ForgetMeans

(* The same, of one unit. *)
LEMMA OneAddedForget ==
  ASSUME MemoryInv, ForgetInv, NEW i, Fresh(i, counts.inserts), NEW u, PlainUnit(u, written), NoRecords(Given(u)),
         units' = Put(units, i, u), owed' = owed \cup Given(u),
         counts' = Insertion("tools") \/ counts' = Insertion("beats"), UNCHANGED written
  PROVE  ForgetInv'
<1> DEFINE new == [j \in {i} |-> u]
<1>1. DOMAIN new = {i} /\ new[i] = u /\ units' = PutAll(units, new)
  BY DEF Put, PutAll
<1> HIDE DEF new
<1>2. Given(u) = UNION {Given(new[j]) : j \in DOMAIN new}
  BY <1>1
<1> QED BY <1>1, <1>2, AddedForget

(* The next number is a new one, on either side. *)
LEMMA FreshId ==
  ASSUME NEW n \in Nat, NEW sign \in {1, -1}, NEW role \in Roles
  PROVE  Fresh(MemoryId(sign * (n + 1), role), n)
<1>1. CASE sign = 1
  <2>1. 1 * (n + 1) = n + 1
    OBVIOUS
  <2> QED BY <1>1, <2>1 DEF MemoryId, UnitIds, Fresh
<1>2. CASE sign = -1
  <2>1. (-1) * (n + 1) = - (n + 1) /\ - (n + 1) \in Int
    OBVIOUS
  <2> QED BY <1>2, <2>1 DEF MemoryId, UnitIds, Fresh
<1> QED BY <1>1, <1>2

(* The same, of a unit that carries no record. *)
LEMMA FreshPlain ==
  ASSUME NEW n \in Nat, NEW role \in Roles
  PROVE  Fresh(MemoryId(n + 1, role), n) /\ MemoryId(n + 1, role)[3] = role
BY DEF MemoryId, UnitIds, Fresh

(* A unit as it is made carries no record and is found. *)
LEMMA MadePlain ==
  ASSUME NEW owner, NEW vis, NEW truth, NEW facts, NEW maker, maker # "rumor_graph", NEW w,
         \A f \in facts : f[1] # "record",
         NEW u, u = Unit(owner, vis, truth, facts, maker)
  PROVE  PlainUnit(u, w) /\ NoRecords(Given(u)) /\ u.records = {} /\ u.facts = facts
<1>1. u.records = {} /\ u.maker = maker /\ u.facts = facts /\ DefaultVisible(u)
  BY DEF Unit, DefaultVisible
<1>2. NoRecords(Given(u))
  BY <1>1, GivenPairs DEF NoRecords
<1> QED BY <1>1, <1>2 DEF PlainUnit, IsWorldState

(* A note of the game master, for records that there are. *)
LEMMA NoteForget ==
  ASSUME MemoryInv, ForgetInv, NEW p \in Placements, NEW about \in SUBSET Topics, NoteMemory(p, about)
  PROVE  ForgetInv'
<1> DEFINE n == counts.inserts + 1
           plain == Unit(OwnerScope(p), VisibilityScopes(p), "actual", {<<"note", n, "gm">>}, "gm_tool")
           u == [plain EXCEPT !.records = about]
<1>1. counts.inserts \in Nat
  BY StoreBefore
<1>2. PICK sign \in HashSigns(about) :
        units' = Put(units, MemoryId(sign * n, "note"), u) /\ owed' = owed \cup Given(u)
  BY DEF NoteMemory
<1>3. sign \in {1, -1} /\ "note" \in Roles
  BY DEF HashSigns, Roles
<1>4. Fresh(MemoryId(sign * n, "note"), counts.inserts)
  BY <1>1, <1>3, FreshId
<1>5. u.records = about /\ u.maker = "gm_tool" /\ u.facts = {<<"note", n, "gm">>} /\ u.state = "hot"
  BY DEF Unit
<1> HIDE DEF u
<1>6. PlainUnit(u, written)
  <2>1. \A r \in about : written[r] > 0
    BY DEF NoteMemory
  <2> QED BY <1>5, <2>1 DEF PlainUnit, IsWorldState, DefaultVisible
<1>7. NoRecords(Given(u))
  BY <1>5, GivenPairs DEF NoRecords
<1>8. counts' = Insertion("tools") /\ UNCHANGED written
  BY DEF NoteMemory
<1> QED BY <1>2, <1>4, <1>6, <1>7, <1>8, OneAddedForget

(* A note of a character. *)
LEMMA NpcNoteForget ==
  ASSUME MemoryInv, ForgetInv, NEW n \in Holders, NpcNoteMemory(n)
  PROVE  ForgetInv'
<1> DEFINE u == Unit(n, {n}, "belief", {<<"note", counts.inserts + 1, n>>}, "npc_tool")
           i == MemoryId(counts.inserts + 1, "note")
<1>1. Fresh(i, counts.inserts)
  BY StoreBefore, FreshPlain DEF Roles
<1>2. PlainUnit(u, written) /\ NoRecords(Given(u))
  BY MadePlain
<1>3. /\ units' = Put(units, i, u) /\ owed' = owed \cup Given(u)
      /\ counts' = Insertion("tools") /\ UNCHANGED written
  BY DEF NpcNoteMemory
<1> HIDE DEF u, i
<1> QED BY <1>1, <1>2, <1>3, OneAddedForget

(* The notes of a generated place. *)
LEMMA GeneratedForget ==
  ASSUME MemoryInv, ForgetInv, NEW spot \in Spots, NEW seen, GeneratedPlace(spot, seen)
  PROVE  ForgetInv'
<1> DEFINE n == counts.inserts + 1
           open == Unit(spot, {spot} \cup seen, "actual", {<<"place", n, "note">>}, "location_generator")
           plain == Unit("gm_private", {}, "actual", {<<"place", n, "hidden">>}, "location_generator")
           hidden == [plain EXCEPT !.state = "warm"]
           new == [i \in {MemoryId(n, "note"), MemoryId(n, "hidden")} |-> IF i[3] = "note" THEN open ELSE hidden]
           given == UNION {Given(new[i]) : i \in DOMAIN new}
<1>1. Fresh(MemoryId(n, "note"), counts.inserts) /\ Fresh(MemoryId(n, "hidden"), counts.inserts)
  BY StoreBefore, FreshPlain DEF Roles
<1>2. PlainUnit(open, written) /\ NoRecords(Given(open)) /\ open.records = {}
  BY MadePlain
<1>3. PlainUnit(hidden, written) /\ NoRecords(Given(hidden)) /\ hidden.records = {}
  <2>1. /\ hidden.records = {} /\ hidden.maker = "location_generator" /\ hidden.state = "warm"
        /\ hidden.facts = {<<"place", n, "hidden">>}
    BY DEF Unit
  <2> HIDE DEF hidden
  <2> QED BY <2>1, GivenPairs DEF PlainUnit, IsWorldState, DefaultVisible, NoRecords
<1>4. /\ units' = PutAll(units, new) /\ owed' = owed \cup given
      /\ counts' = Insertion("tools") /\ UNCHANGED written
  BY DEF GeneratedPlace
<1> HIDE DEF open, hidden
<1>5. \A i \in DOMAIN new : /\ Fresh(i, counts.inserts) /\ PlainUnit(new[i], written) /\ NoRecords(Given(new[i]))
                            /\ new[i].records = {}
  BY <1>1, <1>2, <1>3
<1>6. given = UNION {Given(new[i]) : i \in DOMAIN new}
  OBVIOUS
<1> HIDE DEF new, given
<1> QED BY <1>4, <1>5, <1>6, AddedForget

(* The units of a beat, and of what was claimed in it. *)
LEMMA ObservedPlain ==
  ASSUME NEW n \in Nat, NEW there, NEW heard, NEW spot, NEW w,
         NEW new, new = Observed(n + 1, there, heard, spot), NEW i \in DOMAIN new
  PROVE  /\ Fresh(i, n) /\ PlainUnit(new[i], w) /\ NoRecords(Given(new[i])) /\ new[i].records = {}
         /\ \A f \in new[i].facts : f[1] = "beat"
<1> DEFINE said == {<<"beat", n + 1, "said">>}
<1>1. PICK role \in Roles : i = MemoryId(n + 1, role)
  BY DEF Observed, Roles
<1>2. Fresh(i, n) /\ i[3] = role
  BY <1>1, FreshPlain
<1>3. \A f \in said : f[1] # "record" /\ f[1] = "beat"
  OBVIOUS
<1>4. \/ new[i] = Unit(spot, {spot}, "actual", said, "room_observer")
      \/ new[i] = Unit("player", {"player"}, "actual", said, "player_observer")
      \/ new[i] = Unit(role, {}, "actual", said, "scene_observer")
  BY <1>2 DEF Observed
<1>8. \A f \in said : f[1] # "record"
  BY <1>3
<1> HIDE DEF said
<1>5. CASE new[i] = Unit(spot, {spot}, "actual", said, "room_observer")
  BY <1>2, <1>3, <1>8, <1>5, MadePlain
<1>6. CASE new[i] = Unit("player", {"player"}, "actual", said, "player_observer")
  BY <1>2, <1>3, <1>8, <1>6, MadePlain
<1>7. CASE new[i] = Unit(role, {}, "actual", said, "scene_observer")
  BY <1>2, <1>3, <1>8, <1>7, MadePlain
<1> QED BY <1>4, <1>5, <1>6, <1>7

(* The player's action. *)
LEMMA PlayerActsForget ==
  ASSUME MemoryInv, ForgetInv, NEW there, NEW heard, NEW spot, PlayerActs(there, heard, spot)
  PROVE  ForgetInv'
<1> DEFINE new == Observed(counts.inserts + 1, there, heard \cup {"player"}, spot)
           given == UNION {Given(new[i]) : i \in DOMAIN new}
<1>1. \A i \in DOMAIN new : /\ Fresh(i, counts.inserts) /\ PlainUnit(new[i], written) /\ NoRecords(Given(new[i]))
                            /\ new[i].records = {}
  <2>1. new = Observed(counts.inserts + 1, there, heard \cup {"player"}, spot)
    OBVIOUS
  <2> HIDE DEF new
  <2> QED BY <2>1, StoreBefore, ObservedPlain
<1>2. /\ units' = PutAll(units, new) /\ owed' = owed \cup given
      /\ counts' = Insertion("beats") /\ UNCHANGED written
  BY DEF PlayerActs
<1>3. given = UNION {Given(new[i]) : i \in DOMAIN new}
  OBVIOUS
<1> HIDE DEF new, given
<1> QED BY <1>1, <1>2, <1>3, AddedForget

(* The crystals of both. *)
CrystalOf(us, ids, vis, maker, tier, records) ==
  [Unit(us[AnyOf(ids)].owner, vis, us[AnyOf(ids)].truth, FactsOf(us, ids), maker) EXCEPT !.tier = tier, !.records = records]

Gathers(us, ids, u) == \A i \in ids : Given(us[i]) \subseteq Given(u)

(* A crystal tells what each of its sources told, to the same scopes. *)
LEMMA CrystalRetells ==
  ASSUME NEW us, NEW n, NEW w, Store(us, n), Fits(us, w, n), NEW ids, ids # {}, ids \subseteq DOMAIN us, Alike(us, ids),
         NEW tier \in 1..4, NEW records, records \subseteq RecordsOf(us, ids), NEW maker \in {"gm_tool", "crystal"},
         NEW vis, vis = us[AnyOf(ids)].vis, NEW u, u = CrystalOf(us, ids, vis, maker, tier, records)
  PROVE  PlainUnit(u, w) /\ Gathers(us, ids, u)
<1> DEFINE owner == us[AnyOf(ids)].owner
           truth == us[AnyOf(ids)].truth
           facts == FactsOf(us, ids)
<1>1. AnyOf(ids) \in ids
  BY DEF AnyOf
<1>2. \A i \in ids : us[i].owner = owner /\ us[i].vis = vis
  <2>1. \A i \in ids : us[i].owner = owner /\ us[i].vis = us[AnyOf(ids)].vis
    BY <1>1 DEF Alike
  <2> QED BY <2>1
<1> HIDE DEF owner, truth, facts
<1>3. /\ u.owner = owner /\ u.vis = vis /\ u.facts = facts /\ u.maker = maker /\ u.records = records /\ u.state = "hot"
  <2>1. u = [Unit(owner, vis, truth, facts, maker) EXCEPT !.tier = tier, !.records = records]
    BY DEF owner, truth, facts, CrystalOf
  <2> QED BY <2>1 DEF Unit
<1>4. \A r \in records : w[r] > 0
  <2>1. ASSUME NEW r \in records
        PROVE  w[r] > 0
    <3>1. PICK i \in ids : r \in us[i].records
      BY DEF RecordsOf
    <3>2. RecordFits(i, us[i], w)
      BY <3>1 DEF Fits, RecordsFit
    <3> QED BY <3>1, <3>2 DEF RecordFits
  <2> QED BY <2>1
<1>5. PlainUnit(u, w)
  BY <1>3, <1>4 DEF PlainUnit, IsWorldState, DefaultVisible
<1>6. ASSUME NEW i \in ids
      PROVE  Given(us[i]) \subseteq Given(u)
  <2>1. us[i].facts \subseteq u.facts
    BY <1>3 DEF facts, FactsOf
  <2>2. Hears(us[i]) = Hears(u)
    BY <1>2, <1>3 DEF Hears
  <2> QED BY <2>1, <2>2 DEF Given
<1> QED BY <1>5, <1>6 DEF Gathers

(* A crystal is put in and its sources are consumed. *)
LEMMA CrystalForget ==
  ASSUME MemoryInv, ForgetInv, NEW i, Fresh(i, counts.inserts), NEW u \in UnitRecords, PlainUnit(u, written),
         NEW ids, ids \subseteq DOMAIN units, Gathers(units, ids, u),
         units' = MarkConsumed(Put(units, i, u), ids), counts'.inserts = counts.inserts + 1, UNCHANGED <<written, owed>>
  PROVE  ForgetInv'
<1>1. Kept(units', owed, written, counts.inserts + 1)
  BY ForgetBefore, CrystalRemembers DEF Gathers
<1> QED BY <1>1, ForgetBefore, ForgetMeans

(* One that the game master asks for. *)
LEMMA ConsolidateForget ==
  ASSUME MemoryInv, ForgetInv, NEW ids, ids \subseteq DOMAIN units, NEW tier \in 2..4, NEW naming \in BOOLEAN,
         ConsolidateMemory(ids, tier, naming)
  PROVE  ForgetInv'
<1> DEFINE records == IF naming THEN RecordsOf(units, ids) ELSE {}
           first == units[AnyOf(ids)]
           u == [Unit(first.owner, first.vis, first.truth, FactsOf(units, ids), "gm_tool")
                   EXCEPT !.tier = tier, !.records = records]
<1>1. PICK sign \in {1, -1} :
        units' = MarkConsumed(Put(units, MemoryId(sign * (counts.inserts + 1), "crystal"), u), ids)
  BY DEF ConsolidateMemory, HashSigns, AnyOf
<1>2. Sound(units, counts.inserts, allowed) /\ counts \in Counts /\ counts.inserts \in Nat
  BY StoreBefore
<1>3. records \in SUBSET Topics
  BY DEF RecordsOf, MemoryInv, MemoryTypes, Store, UnitRecords
<1>4. ids # {} /\ Alike(units, ids) /\ tier \in 1..4
  BY DEF ConsolidateMemory
<1>5. u \in UnitRecords
  BY <1>2, <1>3, <1>4, CrystalTells
<1>6. Store(units, counts.inserts) /\ Fits(units, written, counts.inserts)
  BY ForgetBefore DEF Kept
<1>7. records \subseteq RecordsOf(units, ids)
  OBVIOUS
<1> DEFINE vis == first.vis
<1>8. u = CrystalOf(units, ids, vis, "gm_tool", tier, records) /\ vis = units[AnyOf(ids)].vis
  BY DEF CrystalOf
<1> HIDE DEF records, u, vis
<1>11. PlainUnit(u, written) /\ Gathers(units, ids, u)
  BY <1>4, <1>6, <1>7, <1>8, CrystalRetells
<1>9. Fresh(MemoryId(sign * (counts.inserts + 1), "crystal"), counts.inserts)
  BY <1>2, FreshId DEF Roles
<1>10. counts'.inserts = counts.inserts + 1 /\ UNCHANGED <<written, owed>>
  BY <1>2, CountsGrow DEF ConsolidateMemory
<1> QED BY <1>1, <1>5, <1>9, <1>10, <1>11, CrystalForget

(* One that the end of the turn makes. *)
LEMMA CrystallizeForget ==
  ASSUME MemoryInv, ForgetInv, Crystallize
  PROVE  ForgetInv'
<1>1. PICK ids \in Batches(units), sign \in {1, -1} :
        units' = MarkConsumed(Put(units, MemoryId(sign * (counts.inserts + 1), "crystal"),
                                  CrystalUnit(units, ids)), ids)
  BY DEF Crystallize, HashSigns
<1> DEFINE first == units[AnyOf(ids)]
           tier == first.tier + 1
           vis == UNION {units[i].vis : i \in ids}
           records == RecordsOf(units, ids)
           u == [Unit(first.owner, vis, first.truth, FactsOf(units, ids), "crystal")
                   EXCEPT !.tier = tier, !.records = records]
<1>2. Sound(units, counts.inserts, allowed) /\ counts \in Counts /\ counts.inserts \in Nat
  BY StoreBefore
<1>3. ids # {} /\ ids \subseteq DOMAIN units /\ Alike(units, ids) /\ tier \in 1..4
  BY BatchesAlike
<1>4. records \in SUBSET Topics
  BY <1>3 DEF RecordsOf, MemoryInv, MemoryTypes, Store, UnitRecords
<1>5. CrystalUnit(units, ids) = u
  BY DEF CrystalUnit, AnyOf
<1>6. Store(units, counts.inserts) /\ Fits(units, written, counts.inserts)
  BY ForgetBefore DEF Kept
<1>7. vis = units[AnyOf(ids)].vis \/ vis = UNION {units[i].vis : i \in ids}
  OBVIOUS
<1>8. records \subseteq RecordsOf(units, ids)
  OBVIOUS
<1> HIDE DEF tier, vis, records
<1>9. u \in UnitRecords
  BY <1>2, <1>3, <1>4, <1>7, CrystalTells
<1>13. u = CrystalOf(units, ids, vis, "crystal", tier, records)
  BY DEF CrystalOf
<1>14. vis = units[AnyOf(ids)].vis
  <2>1. AnyOf(ids) \in ids
    BY <1>3 DEF AnyOf
  <2> QED BY <1>3, <2>1 DEF vis, Alike
<1> HIDE DEF u
<1>10. PlainUnit(u, written) /\ Gathers(units, ids, u)
  BY <1>3, <1>6, <1>8, <1>13, <1>14, CrystalRetells
<1>11. Fresh(MemoryId(sign * (counts.inserts + 1), "crystal"), counts.inserts)
  BY <1>2, FreshId DEF Roles
<1>12. counts'.inserts = counts.inserts + 1 /\ UNCHANGED <<written, owed>>
  BY <1>2 DEF Crystallize, Counts
<1> QED BY <1>1, <1>3, <1>5, <1>9, <1>10, <1>11, <1>12, CrystalForget

(* The units of a beat and of what was claimed in it: what they tell is of the beat. *)
OfBeat(i, u, n, w) ==
  /\ Fresh(i, n) /\ PlainUnit(u, w) /\ u.records = {}
  /\ \A f \in u.facts : f[1] = "beat"

(* Such units are what a beat adds. *)
LEMMA BeatUnits ==
  ASSUME NEW n \in Nat, NEW there, NEW heard, NEW spot, NEW speaker, NEW claims \in BOOLEAN, NEW w,
         NEW new, new = PutAll(Observed(n + 1, there, heard, spot), IF claims THEN Claimed(n + 1, speaker, heard) ELSE << >>)
  PROVE  \A i \in DOMAIN new : OfBeat(i, new[i], n, w)
<1> DEFINE seen == Observed(n + 1, there, heard, spot)
           u == Unit(speaker, {speaker} \cup heard, "claim", {<<"beat", n + 1, "claim">>}, "npc_claim")
           said == IF claims THEN Claimed(n + 1, speaker, heard) ELSE << >>
<1>1. \A i \in DOMAIN seen : OfBeat(i, seen[i], n, w)
  <2>3. seen = Observed(n + 1, there, heard, spot)
    OBVIOUS
  <2> HIDE DEF seen
  <2>1. ASSUME NEW i \in DOMAIN seen
        PROVE  Fresh(i, n) /\ PlainUnit(seen[i], w) /\ seen[i].records = {} /\ \A f \in seen[i].facts : f[1] = "beat"
    BY <2>3, ObservedPlain
  <2> QED BY <2>1 DEF OfBeat
<1>2. \A f \in {<<"beat", n + 1, "claim">>} : f[1] # "record" /\ f[1] = "beat"
  OBVIOUS
<1>3. PlainUnit(u, w) /\ u.records = {} /\ \A f \in u.facts : f[1] = "beat"
  <2> DEFINE facts == {<<"beat", n + 1, "claim">>}
             vis == {speaker} \cup heard
  <2>1. u = Unit(speaker, vis, "claim", facts, "npc_claim")
    OBVIOUS
  <2> HIDE DEF u, facts, vis
  <2>2. \A f \in facts : f[1] # "record" /\ f[1] = "beat"
    BY <1>2 DEF facts
  <2>3. \A f \in facts : f[1] # "record"
    BY <2>2
  <2> QED BY <2>1, <2>2, <2>3, MadePlain
<1>4. Fresh(MemoryId(n + 1, "claim"), n)
  BY FreshPlain DEF Roles
<1>5. Claimed(n + 1, speaker, heard) = [i \in {MemoryId(n + 1, "claim")} |-> u]
  BY DEF Claimed
<1> HIDE DEF u, seen
<1>6. \A i \in DOMAIN said : OfBeat(i, said[i], n, w)
  BY <1>3, <1>4, <1>5 DEF OfBeat
<1>7. new = PutAll(seen, said)
  BY DEF seen
<1> HIDE DEF said
<1> QED BY <1>1, <1>6, <1>7 DEF PutAll

(* A draft becomes a beat, with its claims and its rumour. *)
LEMMA CommitBeatForget ==
  ASSUME MemoryInv, ForgetInv, NEW speaker \in Folk, NEW there, NEW heard, heard \subseteq Folk \cup {"player"},
         NEW spot \in Spots, NEW claims \in BOOLEAN, NEW speech \in BOOLEAN,
         CommitBeat(speaker, there, heard, spot, claims, speech)
  PROVE  ForgetInv'
<1> DEFINE n == counts.inserts + 1
           seen == Observed(n, there, heard, spot)
           said == IF claims THEN Claimed(n, speaker, heard) ELSE << >>
           new == PutAll(seen, said)
           x == RumorOf(n, speaker, there, heard, spot)
           live == Capped(Append(rumors, x))
           us == PutAll(units, new)
           told == UNION {Given(new[i]) : i \in DOMAIN new}
           given == told \cup IF speech THEN Given(RumorUnit(x)) ELSE {}
           dropped == {TextOf(y) : y \in RumorsIn(rumors) \ RumorsIn(IF speech THEN live ELSE rumors)}
<1>1. counts.inserts \in Nat /\ n \in Nat
  BY StoreBefore
<1>2. \A i \in DOMAIN seen : /\ i \in UnitIds /\ ~ IsRumorId(i) /\ 0 <= i[2] + counts.inserts + 1
                             /\ seen[i] \in UnitRecords
  BY <1>1, ObservedUnits
<1>3. \A i \in DOMAIN said : /\ i \in UnitIds /\ ~ IsRumorId(i) /\ 0 <= i[2] + counts.inserts + 1
                             /\ said[i] \in UnitRecords
  BY <1>1, ClaimedUnits
<1>4. \A i \in DOMAIN new : OfBeat(i, new[i], counts.inserts, written)
  BY <1>1, BeatUnits
<1>5. /\ units' = IF speech THEN RumorSynced(Pruned(us, live), x) ELSE us
      /\ counts' = Insertion("beats") /\ UNCHANGED written
  BY DEF CommitBeat
<1>6. owed' = Without(owed, dropped) \cup given
  BY DEF CommitBeat
<1>7. allowed' = allowed \cup given
  BY DEF CommitBeat
<1> HIDE DEF seen, said
<1>8. \A i \in DOMAIN new : /\ i \in UnitIds /\ ~ IsRumorId(i) /\ 0 <= i[2] + counts.inserts + 1
                            /\ new[i] \in UnitRecords /\ Given(new[i]) \subseteq told
  BY <1>2, <1>3 DEF PutAll
<1>9. \A g \in told : /\ g[1][1] = "beat" /\ \E i \in DOMAIN new : g \in Given(new[i])
  <2>1. ASSUME NEW i \in DOMAIN new, NEW g \in Given(new[i])
        PROVE  g[1][1] = "beat"
    BY <1>4, GivenPairs DEF OfBeat
  <2> QED BY <2>1
<1> HIDE DEF new, told
<1>10. Kept(us, owed \cup told, written, n)
  <2>1. NoRecords(told)
    BY <1>9 DEF NoRecords
  <2>2. \A i \in DOMAIN new : Fresh(i, counts.inserts) /\ PlainUnit(new[i], written)
    BY <1>4 DEF OfBeat
  <2>3. \A i, j \in DOMAIN new : new[i].records # {} /\ new[j].records # {} => i = j
    BY <1>4 DEF OfBeat
  <2>4. \A g \in told : \E i \in DOMAIN new : g \in Given(new[i])
    BY <1>9
  <2> QED BY <2>1, <2>2, <2>3, <2>4, ForgetBefore, AddedRemembers
<1>11. Kept(units', owed', written, n)
  <2>1. CASE ~ speech
    <3>1. dropped = {} /\ given = told
      BY <2>1
    <3>2. owed' = owed \cup told
      BY <1>6, <3>1 DEF Without
    <3> QED BY <1>5, <1>10, <2>1, <3>2
  <2>2. CASE speech
    <3>1. Sound(us, n, allowed') /\ RumorsKept(units, us)
      <4>1. Sound(units, n, allowed')
        BY <1>7, StoreBefore, SoundGrows
      <4>2. Sound(new, n, allowed')
        <5>1. ASSUME NEW i \in DOMAIN new PROVE 0 <= i[2] + n
          BY <1>1, <1>8 DEF UnitIds
        <5> QED BY <1>7, <1>8, <5>1 DEF Sound, Store, Discreet
      <4> QED BY <1>8, <4>1, <4>2, PutAllKeeps, PutAllApart
    <3>2. x \in RumorRecords /\ x.seq = n /\ Given(RumorUnit(x)) \subseteq allowed'
      BY <1>1, <1>7, <2>2, RumorOfSpeech
    <3>3. x.alive
      BY DEF RumorOf
    <3>4. ASSUME NEW g \in owed'
          PROVE  \/ g \in Given(RumorUnit(x))
                 \/ g \in owed \cup told /\ \A y \in RumorsIn(rumors) \ RumorsIn(live) : g[1] # TextOf(y)
      <4>1. \A y : g \in told => g[1] # TextOf(y)
        BY <1>9 DEF TextOf
      <4>2. g \in Given(RumorUnit(x)) \/ g \in told \/ (g \in owed /\ g[1] \notin dropped)
        BY <1>6, <2>2 DEF Without
      <4> QED BY <2>2, <4>1, <4>2
    <3>5. live = Capped(Append(rumors, x)) /\ n = counts.inserts + 1 /\ n <= counts.inserts + 1 /\ Store(us, n)
      BY <1>1, <3>1 DEF Sound
    <3>6. units' = RumorSynced(Pruned(us, live), x)
      BY <1>5, <2>2
    <3> HIDE DEF us, x, live, n
    <3>7. Sound(us, counts.inserts + 1, allowed') /\ x.seq = counts.inserts + 1
      BY <3>1, <3>2, <3>5
    <3>8. Kept(RumorSynced(Pruned(us, live), x), owed', written, counts.inserts + 1)
      BY <1>1, <1>10, <3>1, <3>2, <3>3, <3>4, <3>5, <3>7, SpokenRemembers
    <3> QED BY <3>5, <3>6, <3>8
  <2> QED BY <2>1, <2>2
<1> QED BY <1>5, <1>11, ForgetBefore, ForgetCounts, ForgetMeans

(* add_debug_rumor *)
LEMMA DebugRumorForget ==
  ASSUME MemoryInv, ForgetInv, AddDebugRumor
  PROVE  ForgetInv'
<1> DEFINE n == counts.inserts + 1
           x == [seq |-> n, owner |-> "gm_private", known |-> {"gm_private"}, alive |-> TRUE, confirmed |-> FALSE]
           live == Capped(Append(rumors, x))
<1>1. counts.inserts \in Nat /\ n \in Nat
  BY StoreBefore
<1>2. x \in RumorRecords /\ x.seq = n /\ x.alive
  BY <1>1 DEF RumorRecords, Owners
<1>3. /\ units' = RumorSynced(Pruned(units, live), x)
      /\ allowed' = allowed \cup Given(RumorUnit(x))
      /\ owed' = Without(owed, {TextOf(y) : y \in RumorsIn(rumors) \ RumorsIn(live)}) \cup Given(RumorUnit(x))
      /\ counts' = Insertion("tools") /\ UNCHANGED written
  BY DEF AddDebugRumor
<1> HIDE DEF x
<1>4. Sound(units, n, allowed') /\ RumorsKept(units, units)
  BY <1>3, StoreBefore, SoundGrows DEF RumorsKept
<1>5. \A g \in owed' :
        \/ g \in Given(RumorUnit(x))
        \/ g \in owed /\ \A y \in RumorsIn(rumors) \ RumorsIn(live) : g[1] # TextOf(y)
  BY <1>3 DEF Without
<1>6. Given(RumorUnit(x)) \subseteq allowed' /\ live = Capped(Append(rumors, x)) /\ counts.inserts <= counts.inserts + 1
  BY <1>1, <1>3
<1> HIDE DEF live
<1>7. Kept(RumorSynced(Pruned(units, live), x), owed', written, counts.inserts + 1)
  BY <1>1, <1>2, <1>4, <1>5, <1>6, ForgetBefore, SpokenRemembers
<1> QED BY <1>3, <1>7, ForgetBefore, ForgetCounts, ForgetMeans

(* What the invariant says of the units after a step. *)
LEMMA ApartAfter == MemoryInv' => RumorsApart(units')
BY DEF MemoryInv, RumorsApart, IsRumorId

(* Rumours that change. *)
LEMMA SpreadingForget ==
  ASSUME MemoryInv, MemoryInv', ForgetInv,
         \/ \E fading \in SUBSET DOMAIN rumors, reached \in [DOMAIN rumors -> SUBSET Spots] : AdvanceRumors(fading, reached)
         \/ \E path \in Paths : SpreadOnTransition(path)
         \/ \E k \in DOMAIN rumors : ConfirmRumor(k)
  PROVE  ForgetInv'
<1>1. PICK xs \in [DOMAIN rumors -> RumorRecords] :
        /\ RumorsBecome(xs)
        /\ \A k \in DOMAIN rumors : /\ xs[k].seq = rumors[k].seq /\ xs[k].owner = rumors[k].owner
                                    /\ rumors[k].known \subseteq xs[k].known
  BY SpreadingMeans
<1>2. Kept(units', owed', written, counts.inserts)
  BY <1>1, ForgetBefore, ApartAfter, ResyncedRemembers
<1>3. counts'.inserts = counts.inserts /\ written' = written
  BY SpreadingMeans
<1> QED BY <1>2, <1>3, ForgetBefore, ForgetMeans

(* One that is taken out. *)
LEMMA RemoveRumorForget ==
  ASSUME MemoryInv, MemoryInv', ForgetInv, NEW k \in DOMAIN rumors, RemoveRumor(k)
  PROVE  ForgetInv'
<1>1. Kept(units', owed', written, counts.inserts)
  BY ForgetBefore, ApartAfter, RemovedRemembers
<1>2. counts' = Step("tools") /\ UNCHANGED written
  BY DEF RemoveRumor
<1> QED BY <1>1, <1>2, ForgetBefore, ForgetCounts, ForgetMeans

(* A character's memory is reset.  A record whose unit goes is owed no     *)
(* more, so that the unit which stands for it then need not tell it.       *)
LEMMA ResetForget ==
  ASSUME MemoryInv, ForgetInv, NEW n, ResetNpcMemory(n)
  PROVE  ForgetInv'
<1> DEFINE left == Surviving(units, n)
           gone == DOMAIN units \ left
<1>1. units' = [i \in left |-> units[i]] /\ left \subseteq DOMAIN units /\ counts' = Step("tools") /\ UNCHANGED written
  BY DEF ResetNpcMemory, Surviving
<1>2. owed' \subseteq owed
  BY DEF ResetNpcMemory
<1>3. ASSUME NEW g \in owed', NEW i \in gone, g \in Given(units[i])
      PROVE  g[1][1] # "record" /\ \E j \in left : DefaultVisible(units[j]) /\ g \in Given(units[j])
  BY <1>3 DEF ResetNpcMemory
<1> HIDE DEF left
<1>4. DOMAIN units' = left /\ \A i \in left : units'[i] = units[i]
  BY <1>1
<1>5. Kept(units, owed, written, counts.inserts) /\ Store(units, counts.inserts) /\ counts.inserts \in Nat
  BY ForgetBefore
<1>6. Fits(units', written, counts.inserts)
  BY <1>1, <1>4, <1>5 DEF Kept, Fits, RecordsFit, IdsApart, RumorTexts
<1>7. FactsKnown(owed', written)
  BY <1>2, <1>5 DEF Kept, FactsKnown
<1>8. LatestTold(units', owed', written)
  <2>1. ASSUME NEW r \in Topics, NEW j \in RecordOf(units', r), NEW g \in owed', g[1] \in About(r, written)
        PROVE  g \in Given(units'[j])
    <3>1. RecordUnits(units', r) = RecordUnits(units, r) \cap left
      BY <1>1, <1>4 DEF RecordUnits, Carriers
    <3>2. j \in RecordUnits(units, r) /\ j \in left /\ \A i \in RecordUnits(units, r) \cap left : ~ Precedes(i, j)
      BY <2>1, <3>1 DEF RecordOf, Firsts
    <3>3. RecordUnits(units, r) \subseteq DOMAIN units
      BY DEF RecordUnits, Carriers
    <3>4. PICK i \in RecordUnits(units, r) : i \in RecordOf(units, r) /\ \A k \in RecordUnits(units, r) : ~ Precedes(k, i)
      BY <1>5, <3>2, <3>3, SomeFirst DEF RecordOf, Firsts
    <3>5. g \in Given(units[i])
      BY <1>2, <1>5, <2>1, <3>4 DEF Kept, LatestTold
    <3>6. g[1][1] = "record"
      BY <2>1 DEF About, Fact
    <3>7. i \in left
      BY <1>3, <3>3, <3>4, <3>5, <3>6
    <3>8. i \in Carriers(units, r) /\ j \in Carriers(units, r)
      BY <3>2, <3>4 DEF RecordUnits
    <3>9. i = j
      BY <1>5, <3>2, <3>4, <3>7, <3>8, CarriersOrdered DEF Kept
    <3> QED BY <1>4, <3>2, <3>5, <3>9
  <2> QED BY <2>1 DEF LatestTold
<1>9. ASSUME NEW g \in owed'
      PROVE  Told(units', g)
  <2>1. PICK i \in DOMAIN units : DefaultVisible(units[i]) /\ g \in Given(units[i])
    BY <1>2, <1>5 DEF Kept, Remembers, Told
  <2>2. PICK j \in left : DefaultVisible(units[j]) /\ g \in Given(units[j])
    BY <1>3, <2>1
  <2> QED BY <1>4, <2>2 DEF Told
<1>10. Kept(units', owed', written, counts.inserts)
  BY <1>6, <1>7, <1>8, <1>9 DEF Kept, Remembers
<1> QED BY <1>1, <1>10, ForgetBefore, ForgetCounts, ForgetMeans

(* A story begins with its seeds, each told to whom it is placed with. *)
LEMMA ForgetBegins == MemoryInit => ForgetInv
<1> SUFFICES ASSUME MemoryInit PROVE ForgetInv
  OBVIOUS
<1> DEFINE n == counts.inserts
<1>1. MemoryInv /\ n \in Nat /\ written \in [Topics -> Nat] /\ flat \in [SeedTopics -> Places]
  BY MemoryBegins DEF MemoryInv, MemoryTypes
<1>2. \A r \in SeedTopics : written[r] = 1
  BY MemoryAssumption DEF MemoryInit
<1>3. units = Migrated /\ owed = UNION {Given(units[i]) : i \in DOMAIN units}
  BY DEF MemoryInit
<1>4. Store(Migrated, n) /\ \A i \in DOMAIN Migrated : ~ IsRumorId(i)
  BY <1>1, SeedsAreUnits
<1>5. ASSUME NEW i \in DOMAIN Migrated
      PROVE  LET r == i[3]
             IN  /\ r \in SeedTopics /\ r \in Topics /\ i = LegacyId(r) /\ i[1] = "legacy"
                 /\ Migrated[i].records = {r} /\ Migrated[i].maker = "migration" /\ Migrated[i].facts = {Fact(r, 1)}
                 /\ DefaultVisible(Migrated[i]) /\ Hears(Migrated[i]) = ToldIn(Migrated[i].place)
  <2>1. PICK r \in SeedTopics : i = LegacyId(r)
    BY DEF Migrated
  <2>2. i[3] = r /\ i[1] = "legacy"
    BY <2>1 DEF LegacyId
  <2>3. Migrated[i] = RecordUnit(r, flat[r], {Fact(r, 1)}, "migration")
    BY <2>2 DEF Migrated
  <2>4. LET u == RecordUnit(r, flat[r], {Fact(r, 1)}, "migration")
        IN  /\ u.records = {r} /\ u.maker = "migration" /\ u.facts = {Fact(r, 1)}
            /\ DefaultVisible(u) /\ Hears(u) = ToldIn(u.place)
    BY DEF RecordUnit, Unit, Hears, ToldIn, DefaultVisible
  <2> QED BY <2>1, <2>2, <2>3, <2>4, MemoryAssumption
<1> HIDE DEF n
<1>6. Fits(units, written, n)
  <2>1. ASSUME NEW i \in DOMAIN units
        PROVE  RecordFits(i, units[i], written)
    <3>1. units[i].facts \subseteq About(i[3], written)
      BY <1>2, <1>3, <1>5 DEF About
    <3> QED BY <1>2, <1>3, <1>4, <1>5, <3>1 DEF RecordFits, IsWorldState
  <2>2. IdsApart(units, n)
    BY <1>3, <1>5 DEF IdsApart
  <2>3. RumorTexts(units)
    BY <1>3, <1>4, <1>5 DEF RumorTexts
  <2> QED BY <2>1, <2>2, <2>3 DEF Fits, RecordsFit
<1>7. \A g \in owed : \E i \in DOMAIN units : g \in Given(units[i])
  BY <1>3
<1>8. FactsKnown(owed, written)
  <2>1. ASSUME NEW g \in owed
        PROVE  g[1][3] \in Topics /\ g[1][2] \in 1 .. written[g[1][3]]
    <3>1. PICK i \in DOMAIN units : g \in Given(units[i])
      BY <1>7
    <3>2. g[1] = <<"record", 1, i[3]>> /\ i[3] \in SeedTopics /\ i[3] \in Topics
      BY <1>3, <1>5, <3>1, GivenPairs DEF Fact
    <3> QED BY <1>2, <3>2
  <2> QED BY <2>1 DEF FactsKnown
<1>9. LatestTold(units, owed, written)
  <2>1. ASSUME NEW r \in Topics, NEW i \in RecordOf(units, r), NEW g \in owed, g[1] \in About(r, written)
        PROVE  g \in Given(units[i])
    <3>1. i \in DOMAIN units /\ r \in units[i].records
      BY DEF RecordOf, Firsts, RecordUnits, Carriers
    <3>2. i = LegacyId(r)
      BY <1>3, <1>5, <3>1
    <3>3. PICK j \in DOMAIN units : g \in Given(units[j])
      BY <1>7
    <3>4. g[1] = <<"record", 1, j[3]>> /\ j = LegacyId(j[3])
      BY <1>3, <1>5, <3>3, GivenPairs DEF Fact
    <3>5. j[3] = r
      BY <2>1, <3>4 DEF About, Fact
    <3> QED BY <3>2, <3>3, <3>4, <3>5
  <2> QED BY <2>1 DEF LatestTold
<1>10. Remembers(units, owed)
  BY <1>3, <1>5, <1>7 DEF Remembers, Told
<1>11. \A r \in SeedTopics : written[r] > 0
  BY <1>2
<1> QED BY <1>6, <1>8, <1>9, <1>10, <1>11 DEF ForgetInv, Kept, n

(* Every step keeps what is owed told. *)
LEMMA ForgetSteps == MemoryInv /\ MemoryInv' /\ ForgetInv /\ [MemoryNext]_memoryVars => ForgetInv'
<1> SUFFICES ASSUME MemoryInv, MemoryInv', ForgetInv, [MemoryNext]_memoryVars PROVE ForgetInv'
  OBVIOUS
<1>1. CASE RecordSteps
  <2>1. CASE \E r \in Topics, p \in Placements, replaced \in SUBSET Goals : AddRecord(r, p, replaced)
    BY <2>1, AddRecordForget
  <2>2. CASE \E r \in Topics, reviving \in BOOLEAN :
               \E p \in UNION {Revised(units[i].place) : i \in RecordOf(units, r)} : UpdateRecord(r, p, reviving)
    BY <2>2, UpdateForget
  <2>3. CASE \E r \in Topics : DeactivateRecord(r) \/ DeleteRecord(r)
    BY <2>3, RemovalForget
  <2>4. CASE \E r \in Topics, who \in Folk : MergeRecord(r, who)
    BY <2>4, MergeForget
  <2> QED BY <1>1, <2>1, <2>2, <2>3, <2>4 DEF RecordSteps
<1>2. CASE NoteSteps
  <2>1. ASSUME NEW p \in Placements, NEW about \in {{}} \cup {{r} : r \in Topics}, NoteMemory(p, about)
        PROVE  ForgetInv'
    <3>1. about \in SUBSET Topics
      OBVIOUS
    <3> QED BY <2>1, <3>1, NoteForget
  <2>2. ASSUME NEW n \in Holders, NpcNoteMemory(n)
        PROVE  ForgetInv'
    BY <2>2, NpcNoteForget
  <2>3. ASSUME NEW spot \in Spots, NEW seen \in {{}, {"player"}}, GeneratedPlace(spot, seen)
        PROVE  ForgetInv'
    BY <2>3, GeneratedForget
  <2> QED BY <1>2, <2>1, <2>2, <2>3 DEF NoteSteps
<1>3. CASE Consolidations
  <2>1. PICK i \in DOMAIN units, j \in DOMAIN units, tier \in 2..4, naming \in BOOLEAN :
          ConsolidateMemory({i, j}, tier, naming)
    BY <1>3 DEF Consolidations
  <2> QED BY <2>1, ConsolidateForget
<1>4. CASE PlayerBeats
  BY <1>4, PlayerActsForget DEF PlayerBeats
<1>5. CASE CharacterBeats
  <2>1. PICK there \in SUBSET Folk, spot \in Spots :
          \E heard \in SUBSET (there \cup {"player"}), claims, speech \in BOOLEAN :
            \E speaker \in heard \cap there : CommitBeat(speaker, there, heard, spot, claims, speech)
    BY <1>5 DEF CharacterBeats
  <2>2. PICK heard \in SUBSET (there \cup {"player"}), claims \in BOOLEAN, speech \in BOOLEAN :
          \E speaker \in heard \cap there : CommitBeat(speaker, there, heard, spot, claims, speech)
    BY <2>1
  <2>3. PICK speaker \in Folk : CommitBeat(speaker, there, heard, spot, claims, speech)
    BY <2>2
  <2>4. heard \subseteq Folk \cup {"player"}
    OBVIOUS
  <2> QED BY <2>3, <2>4, CommitBeatForget
<1>6. CASE RumorSteps
  BY <1>6, SpreadingForget, RemoveRumorForget, DebugRumorForget, ResetForget DEF RumorSteps
<1>7. CASE Crystallize \/ \E r \in moment.seeds : LoadSeed(r)
  BY <1>7, LoadSeedForget, CrystallizeForget
<1>8. CASE CloseBeats \/ EndTurn \/ LoadSave \/ UNCHANGED memoryVars
  <2>1. UNCHANGED <<units, owed, written>> /\ counts'.inserts = counts.inserts
    BY <1>8, ForgetCounts DEF CloseBeats, EndTurn, LoadSave, memoryVars
  <2> QED BY <2>1, ForgetBefore, ForgetMeans
<1> QED BY <1>1, <1>2, <1>3, <1>4, <1>5, <1>6, <1>7, <1>8 DEF MemoryNext

(* maybe_consolidate_memory_semantic, mark_consumed, the writers of        *)
(* records: whatever is merged, consumed, rewritten, archived and loaded,  *)
(* what a scope was given and may still count on is in a unit that a       *)
(* default recall finds.                                                   *)
THEOREM NothingIsForgotten == MemorySpec => []NothingForgotten
<1>1. MemoryInit => MemoryInv /\ ForgetInv
  BY MemoryBegins, ForgetBegins
<1>2. (MemoryInv /\ ForgetInv) /\ [MemoryNext]_memoryVars => (MemoryInv /\ ForgetInv)'
  BY MemorySteps, ForgetSteps
<1>3. MemoryInv /\ ForgetInv => NothingForgotten
  BY DEF ForgetInv, Kept, Remembers, Told, NothingForgotten
<1> QED BY <1>1, <1>2, <1>3, PTL DEF MemorySpec
=============================================================================
