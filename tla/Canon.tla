------------------------------- MODULE Canon -------------------------------
(***************************************************************************)
(* The world canon and its engine (gml-world/src/canon).  The engine is    *)
(* the only thing that turns a proposed action into committed canon: every *)
(* action is first validated, and one that is refused changes nothing.     *)
(* The module has no state of its own: a canon is a record, each action is *)
(* a guard (validator.rs) and an effect (engine.rs), and World.tla         *)
(* composes them as the game-master tools do.                              *)
(*                                                                         *)
(* A canon c has                                                           *)
(*   player   the place the player is at         clock   its clock         *)
(*   places   place -> [visited, shell, filled]  occ     place -> actors   *)
(*   edges    directed transitions               journey an interrupted    *)
(*   at       actor -> place, None out of play           journey, or None  *)
(*   alive    actor -> its canon status is not "dead"                      *)
(*                                                                         *)
(* Names, descriptions, kinds, regions, memory and the event log are left  *)
(* out: no guard of these actions reads them.  A transition whose label,   *)
(* kind, cost or risk is missing has cost 0 and risk "unset".  `visible`   *)
(* is written only when an edge is made, and only a seed makes a hidden    *)
(* one, which no action can then use: hidden edges are left out.           *)
(***************************************************************************)
EXTENDS Naturals, FiniteSets

CONSTANTS
    Rooms,          \* ids that seeds and the location creator give to places
    Actors,         \* ids of the characters
    None,           \* an empty id
    Threshold,      \* SITUATION_THRESHOLD_MINUTES: shorter ways are quiet
    RoadBudget      \* gen_budget leaves room for a road situation

ASSUME CanonConstants ==
    /\ None \notin Rooms
    /\ \A r \in Rooms : r[1] # "site"        \* an id shows its kind (stable_id)
    /\ Threshold \in Nat \ {0}
    /\ RoadBudget \in BOOLEAN

Risks == {"none", "some", "certain"}
Directions == {"one", "two"}

\* An entry is inserted in a map; one that is there is kept.
Inserted(f, key, value) ==
    [x \in DOMAIN f \cup {key} |-> IF x = key THEN value ELSE f[x]]

InsertedOnce(f, key, value) ==
    IF key \in DOMAIN f THEN f ELSE Inserted(f, key, value)

-----------------------------------------------------------------------------
\* Passages: the directed edges that carry one passage id.

Members(c, passage) == {e \in DOMAIN c.edges : c.edges[e].passage = passage}

Explicit(t) == t.passage # None /\ t.dir \in Directions

Profiled(t) == t.cost > 0 /\ t.risk \in Risks

\* Mutant of PassageFits: the edges of a passage are counted, not compared.
PassageCounts(c, e, t) ==
    Explicit(t) /\ Cardinality(Members(c, t.passage) \ {e}) <= 1

\* Edge e of passage t.passage may run from t.from to t.to.
PassageFits(c, e, t) ==
    LET others == Members(c, t.passage) \ {e} IN
    /\ Explicit(t)
    /\ Cardinality(others) <= 1
    /\ \A o \in others : /\ t.dir = "two"
                         /\ c.edges[o].dir = t.dir
                         /\ c.edges[o].from = t.to
                         /\ c.edges[o].to = t.from

\* The other side of a two-way passage, where exactly one edge can be it.
OtherSide(c, e) ==
    LET t == c.edges[e] IN
    {o \in Members(c, t.passage) \ {e} : /\ c.edges[o].dir = "two"
                                         /\ c.edges[o].from = t.to
                                         /\ c.edges[o].to = t.from}

Asymmetric(c, e) ==
    LET t == c.edges[e] IN
    /\ t.dir = "two" /\ t.passage # None
    /\ Cardinality(OtherSide(c, e)) = 1
    /\ \E o \in OtherSide(c, e) : \/ c.edges[o].cost # t.cost
                                  \/ c.edges[o].risk # t.risk

\* One whole physical passage is selected by edge e.
StateTarget(c, e) ==
    LET t == c.edges[e] IN
    /\ Explicit(t)
    /\ IF t.dir = "one"
       THEN Members(c, t.passage) = {e}
       ELSE /\ Cardinality(Members(c, t.passage)) = 2
            /\ \A o \in Members(c, t.passage) : c.edges[o].dir = "two"
            /\ OtherSide(c, e) # {}

Exits(c, place) == {e \in DOMAIN c.edges : c.edges[e].from = place}

-----------------------------------------------------------------------------
\* Places and passages.

Shell(c, place) == place \in DOMAIN c.places /\ c.places[place].shell

\* Mutant of NewPlace: the place is not entered among the occupants.
NewPlaceUnoccupied(c, place, visited) ==
    [c EXCEPT !.places = Inserted(@, place, [visited |-> visited, shell |-> FALSE,
                                             filled |-> TRUE])]

NewPlace(c, place, visited) ==
    [c EXCEPT !.places = Inserted(@, place, [visited |-> visited, shell |-> FALSE,
                                             filled |-> TRUE]),
              !.occ = Inserted(@, place, {})]

\* UpdatePlace proposed by the location creator completes a shell.
Furnished(c, place, visited) ==
    [c EXCEPT !.places[place] = [visited |-> @.visited \/ visited,
                                 shell |-> FALSE, filled |-> TRUE]]

\* CreateTransition and ConfigureTransition share what they refuse; the
\* second keeps where the edge starts, whether it is open and who made it.
LinkFits(c, e, t) ==
    /\ t.from \in DOMAIN c.places
    /\ t.to # None => t.to \in DOMAIN c.places
    /\ e \in DOMAIN c.edges => t.to # None
    /\ PassageFits(c, e, t)
    /\ Profiled(t)

Linked(c, e, t) ==
    [c EXCEPT !.edges =
        IF e \in DOMAIN @
        THEN [@ EXCEPT ![e].passage = t.passage, ![e].dir = t.dir,
                       ![e].to = t.to, ![e].cost = t.cost, ![e].risk = t.risk]
        ELSE Inserted(@, e, t)]

Edge(from, to, passage, dir, profile, made) ==
    [from |-> from, to |-> to, passage |-> passage, dir |-> dir,
     cost |-> profile.cost, risk |-> profile.risk, open |-> TRUE, made |-> made]

CanCreatePassage(c, passage, from, to, dir, profile) ==
    /\ Members(c, passage) = {}
    /\ {<<"fwd", passage>>, <<"rev", passage>>} \cap DOMAIN c.edges = {}
    /\ from \in DOMAIN c.places /\ to \in DOMAIN c.places /\ from # to
    /\ ~ Shell(c, from) /\ ~ Shell(c, to)
    /\ dir \in Directions /\ Profiled(profile)

PassageCreated(c, passage, from, to, dir, profile) ==
    LET there == Edge(from, to, passage, dir, profile, TRUE)
        back == Edge(to, from, passage, dir, profile, TRUE)
        ways == Inserted(c.edges, <<"fwd", passage>>, there)
    IN [c EXCEPT !.edges = IF dir = "two" THEN Inserted(ways, <<"rev", passage>>, back)
                           ELSE ways]

\* SetPassageState: every edge of the selected passage, whatever its side.
PassageSet(c, e, open) ==
    [c EXCEPT !.edges =
        [x \in DOMAIN @ |-> IF @[x].passage = @[e].passage
                            THEN [@[x] EXCEPT !.open = open] ELSE @[x]]]

-----------------------------------------------------------------------------
\* Moving the player.

CanMove(c, e) ==
    LET t == c.edges[e] IN
    /\ e \in DOMAIN c.edges
    /\ t.from = c.player
    /\ t.open
    /\ Explicit(t)
    /\ t.to # None /\ t.to \in DOMAIN c.places /\ ~ Shell(c, t.to)
    /\ Profiled(t)
    /\ ~ Asymmetric(c, e)

\* The minutes after which a road situation can stop a way.
Situations(minutes, risk) ==
    IF RoadBudget /\ minutes > Threshold /\ risk # "none"
    THEN 1 .. (minutes - 1) ELSE {}

Arrived(c, way) ==
    [c EXCEPT !.clock = @ + way.minutes,
              !.player = way.to,
              !.places[way.to].visited = TRUE,
              !.journey = IF @ # None /\ @.at = way.from THEN None ELSE @]

\* The way is stopped after `elapsed` minutes at a new place with two one-way
\* exits: the rest of the way, and the way back.
Stopped(c, way, elapsed) ==
    LET site == <<"site", way.id, c.clock, elapsed>>
        Segment(to, minutes) == Edge(site, to, <<"road", site, to>>, "one",
                                     [cost |-> minutes, risk |-> way.risk], FALSE)
        onward == InsertedOnce(c.edges, <<"road", site, way.to>>,
                               Segment(way.to, way.minutes - elapsed))
    IN [c EXCEPT !.places = InsertedOnce(@, site, [visited |-> TRUE, shell |-> FALSE,
                                                   filled |-> TRUE]),
                 !.occ = InsertedOnce(@, site, {}),
                 !.edges = InsertedOnce(onward, <<"road", site, way.from>>,
                                        Segment(way.from, elapsed)),
                 !.clock = @ + elapsed,
                 !.player = site,
                 !.journey = IF way.planned THEN [at |-> site, dest |-> way.to]
                             ELSE @]

\* execute_player_travel: the roll of the road decides.
Travels(c, way) ==
    LET stops == Situations(way.minutes, way.risk) IN
    {Stopped(c, way, elapsed) : elapsed \in stops}
    \cup (IF stops # {} /\ way.risk = "certain" THEN {} ELSE {Arrived(c, way)})

Moves(c, e) ==
    Travels(c, [id |-> e, from |-> c.edges[e].from, to |-> c.edges[e].to,
                minutes |-> c.edges[e].cost, risk |-> c.edges[e].risk,
                planned |-> FALSE])

CanRelocate(c, place) ==
    place # c.player /\ place \in DOMAIN c.places /\ ~ Shell(c, place)

Relocated(c, place, minutes) ==
    [c EXCEPT !.clock = @ + minutes, !.player = place, !.journey = None,
              !.places[place].visited = TRUE]

-----------------------------------------------------------------------------
\* Characters.

ActorsAt(c, place) == {a \in DOMAIN c.at : c.at[a] = place /\ c.alive[a]}

\* MoveActor, and set_canon_actor_location in the legacy world: leave the
\* occupants of the old place, enter those of the new one.
ActorMoved(c, a, place) ==
    [c EXCEPT !.at[a] = place,
              !.occ = [p \in DOMAIN @ |->
                           IF p = place THEN @[p] \cup {a}
                           ELSE IF p = c.at[a] THEN @[p] \ {a} ELSE @[p]]]

ActorCreated(c, a, place, alive) ==
    [c EXCEPT !.at = Inserted(@, a, place),
              !.alive = Inserted(@, a, alive),
              !.occ = [p \in DOMAIN @ |-> IF p = place THEN @[p] \cup {a} ELSE @[p]]]

-----------------------------------------------------------------------------
\* The canons a game starts from.

\* from_scene: the place of the scene, its people, and its exits, which lead
\* nowhere yet and have neither passage nor profile.
FromScene(place, exits, people) ==
    [player |-> place, clock |-> 0, journey |-> None,
     places |-> [p \in {place} |-> [visited |-> TRUE, shell |-> FALSE, filled |-> TRUE]],
     occ |-> [p \in {place} |-> people],
     at |-> [a \in people |-> place],
     alive |-> [a \in people |-> TRUE],
     edges |-> [e \in {<<"scene", x>> : x \in exits} |-> [from |-> place, to |-> None, passage |-> None,
                                dir |-> "unset", cost |-> 0, risk |-> "unset",
                                open |-> TRUE, made |-> FALSE]]]

\* link_two_way of the world generator.
LinkTwoWay(c, a, b, profile) ==
    LET passage == <<"link", a, b>>
        there == InsertedOnce(c.edges, <<"way", a, b>>,
                              Edge(a, b, passage, "two", profile, FALSE))
    IN [c EXCEPT !.edges = InsertedOnce(there, <<"way", b, a>>,
                                        Edge(b, a, passage, "two", profile, FALSE))]

\* from_worldgen: nobody yet, and the start linked to a place that is a shell.
FromWorldgen(start, other, profile) ==
    LET c == FromScene(start, {}, {})
        d == [c EXCEPT !.places = Inserted(@, other, [visited |-> FALSE, shell |-> TRUE,
                                                      filled |-> TRUE]),
                       !.occ = Inserted(@, other, {})]
    IN LinkTwoWay(d, start, other, profile)
=============================================================================
