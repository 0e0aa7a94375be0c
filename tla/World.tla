------------------------------- MODULE World -------------------------------
(***************************************************************************)
(* The world of a running game (gml-world/src/world.rs) and the tools of   *)
(* the game master that change it (gml-orchestrator/src/turn.rs).          *)
(*                                                                         *)
(* The canon is the source of truth; beside it the world keeps copies that *)
(* every tool has to bring up to date by hand: its own clock, the live     *)
(* scene the player and the model see, the item store of the places the    *)
(* player is not at, the whereabouts row and the card of every character,  *)
(* the inventory.  A tool runs to its end before the next one starts (a    *)
(* turn holds its chat's lock), so a tool is one action; the answers of    *)
(* the location creator and of the character generator are inputs.  The    *)
(* tool calls of one turn are modelled: the turn number is constant.       *)
(***************************************************************************)
EXTENDS Canon

CONSTANTS
    Seeds,          \* canons a new game can start from
    SeedItems,      \* item stores the starting scene can have
    Heads,          \* names of items
    Profiles,       \* [cost, risk] the location creator can give a way
    Amounts,        \* minutes of a relocation or of a time advance
    MaxClock, MaxPlaces, MaxEdges     \* bounds of the model

ASSUME WorldConstants ==
    /\ \A f \in Profiles : f.cost \in Nat /\ f.risk \in Risks
    /\ Amounts \subseteq Nat
    /\ \A items \in SeedItems : /\ IsFiniteSet(items)
                                 /\ \A item \in items : item.head \in Heads

(* A new game starts from the canon of its opening scene, or from that of  *)
(* the world generator.                                                    *)
OfScene(c) == c = FromScene(c.player, {e[2] : e \in DOMAIN c.edges}, DOMAIN c.at)

OfWorldgen(c) ==
    \E other \in Rooms \ {c.player} :
        LET way == <<"way", c.player, other>> IN
        /\ way \in DOMAIN c.edges
        /\ c.edges[way].cost \in Nat
        /\ c = FromWorldgen(c.player, other,
                            [cost |-> c.edges[way].cost, risk |-> c.edges[way].risk])

ASSUME SeedsAssumption ==
    \A c \in Seeds : c.player \in Rooms /\ (OfScene(c) \/ OfWorldgen(c))

VARIABLES
    canon,          \* World.world_canon
    time,           \* World.time.absolute_minutes
    scene,          \* World.scene: the place, who is present, who of them
                    \* can see and hear, and the items
    stash,          \* World.place_items: place -> the items left there
    rows,           \* World.npc_whereabouts: actor -> [at, status]
    cards,          \* World.npcs: actor -> the life status on the card
    bag             \* World.player_character.inventory

vars == <<canon, time, scene, stash, rows, cards, bag>>

-----------------------------------------------------------------------------
(* The derived scene. *)

\* build_current_view: who is present is derived from the canon, and all who
\* are present see and hear.
View(c, items) ==
    [place |-> c.player, present |-> ActorsAt(c, c.player),
     aware |-> ActorsAt(c, c.player), items |-> items]

Stored(store, place) == IF place \in DOMAIN store THEN store[place] ELSE {}

\* refresh_scene_from_canon: a change of place leaves the live items in the
\* store of the old place and takes those of the new one.
RefreshedStash(c, s) ==
    IF s.place # c.player THEN Inserted(stash, s.place, s.items) ELSE stash

\* Mutant of RefreshedScene: the live items come along.
RefreshedSceneCarried(c, s) == View(c, s.items \cup Stored(stash, c.player))

RefreshedScene(c, s) ==
    View(c, IF s.place # c.player THEN Stored(RefreshedStash(c, s), c.player)
            ELSE s.items)

\* ensure_npc_whereabouts, over the cards that exist.
Ensured(r, s, known) ==
    [a \in known |->
        IF a \in s.present THEN [at |-> s.place, status |-> "present"]
        ELSE IF a \notin DOMAIN r THEN [at |-> None, status |-> "unknown"]
        ELSE IF r[a].status = "present" THEN [r[a] EXCEPT !.status = "known"]
        ELSE r[a]]

\* A tool commits canon c, refreshes the scene from it and exports the scene.
Commit(c) ==
    /\ canon' = c
    /\ scene' = RefreshedScene(c, scene)
    /\ stash' = RefreshedStash(c, scene)

Export == rows' = Ensured(rows, scene', DOMAIN cards')

Bounded(c) ==
    /\ c.clock <= MaxClock
    /\ Cardinality(DOMAIN c.places) <= MaxPlaces
    /\ Cardinality(DOMAIN c.edges) <= MaxEdges

-----------------------------------------------------------------------------
(* Initial states: load_seed_for_locale, from_worldgen. *)

Init ==
    /\ canon \in Seeds
    /\ time = canon.clock
    /\ \E items \in SeedItems : scene = View(canon, items)
    /\ stash = << >>
    /\ cards = [a \in DOMAIN canon.at |-> IF canon.alive[a] THEN "alive" ELSE "dead"]
    /\ rows = Ensured(<< >>, scene, DOMAIN cards)
    /\ bag = {}

-----------------------------------------------------------------------------
(* The location creator.                                                   *)
(*                                                                         *)
(* A request r has the route (an edge or None) and the target (a place or  *)
(* None) it names, and whether the player enters.  An answer g has a name  *)
(* for a new place, the direction and the profile of the entry, and        *)
(* whether it adds an exit to somewhere not yet named.                     *)

Answers == [place : Rooms, dir : Directions, profile : Profiles, hook : BOOLEAN]

\* requires_entry_transition in run_generate_location.
NeedsEntry(c, r) ==
    r.target = None
    \/ r.target # IF r.enter /\ r.route # None THEN c.edges[r.route].from ELSE c.player

EntryFrom(c, r) == IF r.route # None THEN c.edges[r.route].from ELSE c.player

\* The place the answer is about.
Placed(c, r, g) ==
    IF r.target # None THEN r.target
    ELSE IF r.route # None /\ c.edges[r.route].to # None THEN c.edges[r.route].to
    ELSE g.place

Passage(c, r, place) ==
    IF r.route # None /\ c.edges[r.route].passage # None
    THEN c.edges[r.route].passage
    ELSE <<"entry", EntryFrom(c, r), place>>

Forward(c, r, place) == IF r.route # None THEN r.route ELSE <<"fwd", Passage(c, r, place)>>

Backs(c, r, place) ==
    {e \in Exits(c, place) : /\ c.edges[e].to = EntryFrom(c, r)
                             /\ c.edges[e].passage = Passage(c, r, place)}

Back(c, r, place) ==
    IF Backs(c, r, place) # {} THEN CHOOSE e \in Backs(c, r, place) : TRUE
    ELSE <<"rev", Passage(c, r, place)>>

\* CreatePlace or UpdatePlace, with the flag the commit gives it.
PlaceCommitted(c, r, place) ==
    LET visited == r.enter \/ place = c.player IN
    IF place \in DOMAIN c.places THEN Furnished(c, place, visited)
    ELSE NewPlace(c, place, visited)

\* The entry and its return way, in the order they are staged.
EntryEdge(c, r, g, place) ==
    Edge(EntryFrom(c, r), place, Passage(c, r, place), g.dir, g.profile, TRUE)

ReturnEdge(c, r, g, place) ==
    Edge(place, EntryFrom(c, r), Passage(c, r, place), g.dir, g.profile, TRUE)

EntryStaged(c, r, g, place) ==
    LET c1 == PlaceCommitted(c, r, place)
        c2 == Linked(c1, Forward(c, r, place), EntryEdge(c, r, g, place))
    IN IF g.dir = "two"
       THEN Linked(c2, Back(c, r, place), ReturnEdge(c, r, g, place))
       ELSE c2

\* Everything that can refuse the entry before or while it is staged.
EntryAccepted(c, r, g, place) ==
    LET fwd == Forward(c, r, place)
        c1 == PlaceCommitted(c, r, place)
        c2 == Linked(c1, fwd, EntryEdge(c, r, g, place))
    IN /\ r.route # None /\ c.edges[r.route].to # None
            => c.edges[r.route].to = place
       /\ EntryFrom(c, r) # place
       /\ fwd \in DOMAIN c.edges /\ c.edges[fwd].made /\ c.edges[fwd].dir \in Directions
            => c.edges[fwd].dir = g.dir
       /\ g.dir = "one" => Backs(c, r, place) = {}
       /\ Cardinality(Backs(c, r, place)) <= 1
       /\ LinkFits(c1, fwd, EntryEdge(c, r, g, place))
       /\ g.dir = "two" =>
              LinkFits(c2, Back(c, r, place), ReturnEdge(c, r, g, place))

\* An exit to somewhere not yet named, once per place and answer.
Hooked(c, g, place) ==
    LET passage == <<"exit", place>>
        e == <<"fwd", passage>>
    IN IF g.hook /\ e \notin DOMAIN c.edges
       THEN Linked(c, e, Edge(place, None, passage, g.dir, g.profile, TRUE))
       ELSE c

\* commit_generated_location: the canons the staged actions can end in, the
\* empty set when one of them is refused.
CommitLocation(c, r, g) ==
    LET entry == NeedsEntry(c, r)
        place == IF entry THEN Placed(c, r, g) ELSE r.target
        staged == Hooked(IF entry THEN EntryStaged(c, r, g, place)
                         ELSE PlaceCommitted(c, r, place), g, place)
        fwd == Forward(c, r, place)
    IN IF entry /\ ~ EntryAccepted(c, r, g, place) THEN {}
       ELSE IF ~ r.enter \/ place = c.player THEN {staged}
       ELSE IF entry /\ CanMove(staged, fwd) THEN Moves(staged, fwd)
       ELSE {}

\* The creator fills the place the player is at, or fails to.
Filled(c) ==
    {c} \cup UNION {CommitLocation(c, [route |-> None, target |-> c.player,
                                       enter |-> FALSE], g) : g \in Answers}

\* The canon's clock is copied when the player is at the place an entry led to
\* (sync_canon_move_time), and not when the way was stopped.
EnteredTime(c, r, place) ==
    IF r.enter /\ NeedsEntry(canon, r) /\ c.player = place THEN c.clock ELSE time

\* run_generate_location with commit, as a tool and as the way through an
\* exit nobody has completed.
Generate(r) ==
    \E g \in Answers :
        \E c \in CommitLocation(canon, r, g) :
            /\ Bounded(c)
            /\ Commit(c)
            /\ time' = EnteredTime(c, r, IF NeedsEntry(canon, r) THEN Placed(canon, r, g)
                                         ELSE r.target)
            /\ UNCHANGED <<cards, bag>>
            /\ Export

GenerateLocation ==
    \E route \in DOMAIN canon.edges \cup {None}, enter \in BOOLEAN,
       target \in DOMAIN canon.places \cup {None} :
        Generate([route |-> route, target |-> target, enter |-> enter])

-----------------------------------------------------------------------------
(* Moving. *)

\* A tool that moved the player copies the canon's clock and refreshes.
Travelled(c) ==
    /\ Bounded(c)
    /\ Commit(c)
    /\ time' = c.clock
    /\ UNCHANGED <<cards, bag>>
    /\ Export

NeedsCreator(t) ==
    \/ t.to = None \/ Shell(canon, t.to)
    \/ ~ Explicit(t) \/ ~ Profiled(t)

\* move_player.  What the player reaches is filled when it has no content: a
\* road situation always, a place only when it is bare.
MovePlayer(e) ==
    /\ e \in DOMAIN canon.edges
    /\ canon.edges[e].from = canon.player
    /\ canon.edges[e].open
    /\ IF NeedsCreator(canon.edges[e]) \/ Asymmetric(canon, e)
       THEN Generate([route |-> e, target |-> canon.edges[e].to, enter |-> TRUE])
       ELSE /\ CanMove(canon, e)
            /\ \E c \in Moves(canon, e) :
                   LET bare == c.player # canon.edges[e].to
                               \/ ~ c.places[c.player].filled
                   IN \E d \in (IF bare THEN Filled(c) ELSE {c}) : Travelled(d)

\* travel_to, with the plan that the travel networks or the creator give.
TravelTo(place) ==
    /\ place \in DOMAIN canon.places \ {canon.player}
    /\ canon.places[place].visited
    /\ \E plan \in Profiles :
           \E c \in Travels(canon, [id |-> <<"journey", place, canon.clock>>,
                                    from |-> canon.player, to |-> place,
                                    minutes |-> plan.cost, risk |-> plan.risk,
                                    planned |-> TRUE]) :
               \E d \in (IF c.player # place THEN Filled(c) ELSE {c}) : Travelled(d)

RelocatePlayer(place, minutes) ==
    /\ CanRelocate(canon, place)
    /\ Travelled(Relocated(canon, place, minutes))

CreatePassage(from, to) ==
    \E dir \in Directions, profile \in Profiles :
        LET passage == <<"passage", from, to>>
            c == PassageCreated(canon, passage, from, to, dir, profile)
        IN /\ CanCreatePassage(canon, passage, from, to, dir, profile)
           /\ Bounded(c)
           /\ Commit(c)
           /\ UNCHANGED <<time, cards, bag>>
           /\ Export

SetPassageState(e, open) ==
    /\ e \in DOMAIN canon.edges
    /\ StateTarget(canon, e)
    /\ Commit(PassageSet(canon, e, open))
    /\ UNCHANGED <<time, cards, bag>>
    /\ Export

-----------------------------------------------------------------------------
(* Time. *)

\* advance_time, and long_rest with its eight hours.  The player's sheet that
\* a long rest restores is left out.
AdvanceTime(minutes) ==
    /\ time + minutes <= MaxClock
    /\ time' = time + minutes
    /\ Commit([canon EXCEPT !.clock = time + minutes])
    /\ UNCHANGED <<rows, cards, bag>>

-----------------------------------------------------------------------------
(* Characters. *)

\* sync_canon_actor, from the scene and the row the tool has just written.
Synced(a, present, row) ==
    ActorMoved(canon, a,
               IF a \in present THEN canon.player
               ELSE IF row.at \in DOMAIN canon.places THEN row.at ELSE None)

\* Mutant of MoveNpc: the presence is written to the scene and no further.
MoveNpcInScene(a, present, place) ==
    /\ a \in DOMAIN cards
    /\ scene' = [scene EXCEPT !.present = IF present THEN @ \cup {a} ELSE @ \ {a}]
    /\ UNCHANGED <<canon, time, stash, cards, bag>>
    /\ Export

\* move_npc: the presence is written to the scene, written through to the
\* canon, and the scene is built again from the canon.
MoveNpc(a, present, place) ==
    /\ a \in DOMAIN cards
    /\ LET seen == IF present THEN scene.present \cup {a} ELSE scene.present \ {a}
           row == IF present THEN [at |-> scene.place, status |-> "present"]
                  ELSE [at |-> place,
                        status |-> IF place = None THEN "unknown" ELSE "known"]
       IN /\ Commit(Synced(a, seen, row))
          /\ rows' = Ensured([Ensured(rows, scene, DOMAIN cards) EXCEPT ![a] = row],
                             scene', DOMAIN cards)
    /\ UNCHANGED <<time, cards, bag>>

\* set_npc_whereabouts: a row of its own only for someone who is not present.
SetNpcWhereabouts(a, place) ==
    /\ a \in DOMAIN cards
    /\ LET row == IF a \in scene.present
                  THEN [at |-> scene.place, status |-> "present"]
                  ELSE [at |-> place,
                        status |-> IF place = None THEN "unknown" ELSE "known"]
       IN /\ Commit(Synced(a, scene.present, row))
          /\ rows' = Ensured([Ensured(rows, scene, DOMAIN cards) EXCEPT ![a] = row],
                             scene', DOMAIN cards)
    /\ UNCHANGED <<time, cards, bag>>

\* commit_generated_npc: the actor and the card are made together; one that
\* is not to be seen where the player is goes out of play again.
GenerateNpc(a, present, home) ==
    LET place == IF present THEN canon.player ELSE home
        hidden == ~ present /\ place = canon.player
        made == ActorCreated(canon, a, place, TRUE)
        known == DOMAIN cards \cup {a}
        row == [at |-> None, status |-> "known"]
    IN /\ a \notin DOMAIN canon.at \cup DOMAIN cards
       /\ place \in DOMAIN canon.places
       /\ Commit(IF hidden THEN ActorMoved(made, a, None) ELSE made)
       /\ cards' = Inserted(cards, a, "alive")
       /\ rows' = IF hidden
                  THEN Ensured([Ensured(rows, scene, known) EXCEPT ![a] = row],
                               scene', known)
                  ELSE Ensured(rows, scene, known)
       /\ UNCHANGED <<time, bag>>

\* update_npc and update_npc_character: the card alone.
UpdateNpc(a, life) ==
    /\ a \in DOMAIN cards
    /\ cards' = [cards EXCEPT ![a] = life]
    /\ UNCHANGED <<canon, time, scene, stash, rows, bag>>

-----------------------------------------------------------------------------
(* The scene. *)

\* The canon of a scene written for the current place: its place described,
\* and every listed character there.
Staged(listed) ==
    LET c == [canon EXCEPT !.places[canon.player].filled = TRUE,
                           !.places[canon.player].visited = TRUE]
        here == [a \in DOMAIN c.at |-> IF a \in listed THEN c.player ELSE c.at[a]]
    IN [c EXCEPT !.at = here,
                 !.occ = [p \in DOMAIN @ |->
                             IF p = c.player THEN @[p] \cup listed
                             ELSE {a \in @[p] : ~ (a \in listed /\ c.at[a] = p)}]]

\* set_scene, the tool: who is not listed stays.
SetScene(listed, items) ==
    /\ listed \subseteq DOMAIN cards
    /\ LET c == Staged(listed)
           s == [scene EXCEPT !.items = items]
       IN /\ canon' = c
          /\ scene' = RefreshedScene(c, s)
          /\ stash' = RefreshedStash(c, s)
    /\ rows' = Ensured([a \in DOMAIN cards |->
                           IF a \in listed
                           THEN [at |-> canon.player, status |-> "present"]
                           ELSE Ensured(rows, scene, DOMAIN cards)[a]],
                       scene', DOMAIN cards)
    /\ UNCHANGED <<time, cards, bag>>

\* World::set_scene behind the debug patch: who is not listed goes out of
\* play, and the listed dead are alive again.
PatchScene(listed, items) ==
    /\ listed \subseteq DOMAIN cards
    /\ LET gone == ActorsAt(canon, canon.player) \ listed
           s0 == Staged(listed)
           c == [s0 EXCEPT
                    !.alive = [a \in DOMAIN @ |-> @[a] \/ a \in listed],
                    !.at = [a \in DOMAIN @ |-> IF a \in gone THEN None ELSE @[a]],
                    !.occ[s0.player] = @ \ gone]
       IN /\ canon' = c
          /\ scene' = View(c, items)
          /\ stash' = stash
          /\ rows' = Ensured([a \in DOMAIN cards |->
                                 IF a \in gone
                                 THEN [at |-> canon.player, status |-> "unknown"]
                                 ELSE Ensured(rows, scene, DOMAIN cards)[a]],
                             scene', DOMAIN cards)
    /\ UNCHANGED <<time, cards, bag>>

-----------------------------------------------------------------------------
(* Items. *)

\* take_item: the item leaves the scene; its name enters the inventory, where
\* a name is kept once.
TakeItem(item) ==
    /\ item \in scene.items
    /\ scene' = [scene EXCEPT !.items = @ \ {item}]
    /\ bag' = bag \cup {item.head}
    /\ UNCHANGED <<canon, time, stash, cards>>
    /\ Export

\* drop_item: an item of that name, with an id no item here has.
DropItem(head) ==
    /\ head \in bag
    /\ LET used == {item.id : item \in scene.items}
           id == CHOOSE n \in 1 .. Cardinality(used) + 1 : n \notin used
       IN scene' = [scene EXCEPT !.items = @ \cup {[head |-> head, id |-> id]}]
    /\ bag' = bag \ {head}
    /\ UNCHANGED <<canon, time, stash, cards>>
    /\ Export

-----------------------------------------------------------------------------
Next ==
    \/ \E e \in DOMAIN canon.edges : MovePlayer(e)
    \/ GenerateLocation
    \/ \E place \in DOMAIN canon.places : TravelTo(place)
    \/ \E place \in DOMAIN canon.places, minutes \in Amounts : RelocatePlayer(place, minutes)
    \/ \E from, to \in DOMAIN canon.places : CreatePassage(from, to)
    \/ \E e \in DOMAIN canon.edges, open \in BOOLEAN : SetPassageState(e, open)
    \/ \E minutes \in Amounts : AdvanceTime(minutes)
    \/ \E a \in Actors, present \in BOOLEAN, place \in DOMAIN canon.places \cup {None} :
           \/ MoveNpc(a, present, place)
           \/ SetNpcWhereabouts(a, place)
           \/ GenerateNpc(a, present, IF place = None THEN canon.player ELSE place)
    \/ \E a \in Actors, life \in {"alive", "dead"} : UpdateNpc(a, life)
    \/ \E listed \in SUBSET Actors :
           \/ \E items \in SeedItems : SetScene(listed, items)
           \/ \E items \in SeedItems : PatchScene(listed, items)
    \/ \E item \in scene.items : TakeItem(item)
    \/ \E head \in bag : DropItem(head)

Spec == Init /\ [][Next]_vars

-----------------------------------------------------------------------------
(* What makes the world correct. *)

\* Every store holds what it should.
WorldTypeOK ==
    /\ canon.player \in DOMAIN canon.places
    /\ DOMAIN canon.occ = DOMAIN canon.places
    /\ DOMAIN canon.alive = DOMAIN canon.at
    /\ \A a \in DOMAIN canon.at : canon.at[a] \in DOMAIN canon.places \cup {None}
    /\ \A e \in DOMAIN canon.edges :
           /\ canon.edges[e].from \in DOMAIN canon.places
           /\ canon.edges[e].to \in DOMAIN canon.places \cup {None}
    /\ time \in Nat
    /\ DOMAIN rows = DOMAIN cards
    /\ bag \subseteq Heads

\* The live scene is the canon's: the player's place, which has been completed
\* and counts as visited, and exactly the living who are there, whichever tool
\* moved whom.  Who is listed as an occupant of a place is there, and where a
\* row places someone it claims to know about is where the canon has them.  The
\* world's clock may wait for the canon's and never runs ahead of it, so that
\* what is due by the canon is due for the player.
ViewsAgree ==
    /\ time <= canon.clock
    /\ scene.place = canon.player
    /\ scene.present = ActorsAt(canon, canon.player)
    /\ canon.places[canon.player].visited
    /\ ~ Shell(canon, canon.player)
    /\ \A p \in DOMAIN canon.occ : \A a \in canon.occ[p] : canon.at[a] = p
    /\ \A a \in DOMAIN rows :
           rows[a].status # "unknown" /\ rows[a].at \in DOMAIN canon.places
               => canon.at[a] = rows[a].at

\* The edges of a physical passage are one edge, or two that run opposite
\* ways between the same places in the same time and at the same risk; an
\* edge that leads nowhere yet may be the first of two.
PassagePaired ==
    \A e, o \in DOMAIN canon.edges :
        LET t == canon.edges[e]  u == canon.edges[o] IN
        e # o /\ t.passage # None /\ t.passage = u.passage =>
            /\ t.dir = "two" /\ u.dir = "two"
            /\ t.from = u.to /\ t.to = u.from
            /\ t.cost = u.cost /\ t.risk = u.risk

\* The copies of a name: in the inventory, in the live scene, and in the
\* stores of the places the player is not at.
Copies(head) ==
    (IF head \in bag THEN 1 ELSE 0)
    + Cardinality({item \in scene.items : item.head = head})
    + Cardinality({left \in (DOMAIN stash \ {scene.place})
                                 \X UNION {stash[p] : p \in DOMAIN stash} :
                       left[2] \in stash[left[1]] /\ left[2].head = head})

\* A scene written anew.
Rewritten ==
    \E listed \in SUBSET DOMAIN cards, items \in SeedItems :
        SetScene(listed, items) \/ PatchScene(listed, items)

\* Taking, dropping and walking never make an item twice.
NothingConjured ==
    [][(\E head \in Heads : Copies(head)' > Copies(head)) => Rewritten]_vars

\* validator.rs: "cannot rewind the clock".
ClockNeverRewinds == [][canon'.clock >= canon.clock]_vars
=============================================================================
