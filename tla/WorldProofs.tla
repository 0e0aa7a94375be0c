------------------------------ MODULE WorldProofs ------------------------------
(***************************************************************************)
(* Proofs about World and Canon, for any rooms, actors, seeds and answers  *)
(* of the creators.  A tool is one step, made of several actions on the    *)
(* canon and of the copies brought up to date by hand; the lemmas follow   *)
(* that: what each action on a canon leaves is sound, then what each tool  *)
(* does with it.  Three arguments: the canon and its copies, the passages, *)
(* and the items.  The last theorem is about the parts together, which     *)
(* share no variable: each keeps its own invariant under its own steps and *)
(* under those that leave it alone.                                        *)
(***************************************************************************)
EXTENDS MCParts, GrokAuthProofs, ConversationProofs, TurnFeedProofs

\* The fields of a canon, of a place and of an edge.
CanonFields == {"player", "clock", "journey", "places", "occ", "at", "alive", "edges"}
PlaceFields == {"visited", "shell", "filled"}
EdgeFields == {"from", "to", "passage", "dir", "cost", "risk", "open", "made"}

\* Canon d agrees with canon c on some fields.
Agree(c, d, fields) == DOMAIN d = CanonFields /\ \A x \in fields : d[x] = c[x]

-----------------------------------------------------------------------------
(* Places and entries. *)

\* What NewPlace writes.
LEMMA NewPlaceIs ==
  ASSUME NEW c, DOMAIN c = CanonFields, NEW place, NEW visited, NEW d, d = NewPlace(c, place, visited)
  PROVE  /\ Agree(c, d, CanonFields \ {"places", "occ"})
         /\ d.places = Inserted(c.places, place, [visited |-> visited, shell |-> FALSE, filled |-> TRUE])
         /\ d.occ = Inserted(c.occ, place, {})
BY DEF NewPlace, Agree, CanonFields

\* What Furnished writes.
LEMMA FurnishedIs ==
  ASSUME NEW c, DOMAIN c = CanonFields, NEW place, NEW visited, NEW d, d = Furnished(c, place, visited)
  PROVE  /\ Agree(c, d, CanonFields \ {"places"})
         /\ d.places = [c.places EXCEPT ![place] = [visited |-> c.places[place].visited \/ visited,
                                 shell |-> FALSE, filled |-> TRUE]]
BY DEF Furnished, Agree, CanonFields

\* What Linked writes: an existing edge is configured, a new one entered.
LEMMA LinkedIs ==
  ASSUME NEW c, DOMAIN c = CanonFields, NEW e, NEW t, NEW d, d = Linked(c, e, t)
  PROVE  /\ Agree(c, d, CanonFields \ {"edges"})
         /\ d.edges = IF e \in DOMAIN c.edges
            THEN [c.edges EXCEPT ![e].passage = t.passage, ![e].dir = t.dir,
                       ![e].to = t.to, ![e].cost = t.cost, ![e].risk = t.risk]
            ELSE Inserted(c.edges, e, t)
BY DEF Linked, Agree, CanonFields

\* The player is at a place that is visited; what is visited is complete, and
\* the site of a stop is visited from the start.
PlacesFit(c) ==
  /\ c.player \in DOMAIN c.places
  /\ c.places[c.player].visited
  /\ \A p \in DOMAIN c.places :
        /\ DOMAIN c.places[p] = PlaceFields
        /\ c.places[p].visited => ~ c.places[p].shell
        /\ p[1] = "site" => c.places[p].visited

\* Who is listed at a place is there.
PeopleFit(c) ==
  /\ DOMAIN c.occ = DOMAIN c.places
  /\ DOMAIN c.alive = DOMAIN c.at
  /\ \A a \in DOMAIN c.at : c.at[a] \in DOMAIN c.places \cup {None}
  /\ \A p \in DOMAIN c.occ : \A a \in c.occ[p] : a \in DOMAIN c.at /\ c.at[a] = p

\* An edge runs between places of the canon, or to somewhere not yet named.
EdgeFit(c, t) ==
     /\ DOMAIN t = EdgeFields
     /\ t.from \in DOMAIN c.places
     /\ t.to \in DOMAIN c.places \cup {None}
     /\ t.cost \in Nat
EdgesFit(c) == \A e \in DOMAIN c.edges : EdgeFit(c, c.edges[e])
CanonFit(c) == DOMAIN c = CanonFields /\ c.clock \in Nat /\ PlacesFit(c) /\ PeopleFit(c) /\ EdgesFit(c)

\* d is c with places or edges built; nobody moved and no time passed.
Built(c, d) ==
  /\ Agree(c, d, {"player", "clock", "at", "alive"})
  /\ DOMAIN c.places \subseteq DOMAIN d.places

\* A place that is created or completed leaves a sound canon; every place keeps.
LEMMA PlaceCommittedFit ==
  ASSUME NEW c, CanonFit(c), NEW r, r.enter \in BOOLEAN, NEW place, place \in Rooms \cup DOMAIN c.places,
         NEW d, d = PlaceCommitted(c, r, place)
  PROVE  /\ CanonFit(d) /\ Built(c, d) /\ d.edges = c.edges
         /\ place \in DOMAIN d.places
<1> DEFINE visited == r.enter \/ place = c.player
<1>1. visited \in BOOLEAN
  OBVIOUS
<1> HIDE DEF visited
<1>2. CASE place \in DOMAIN c.places
  <2>1. d = Furnished(c, place, visited)
    BY <1>2 DEF PlaceCommitted, visited
  <2>2. /\ Agree(c, d, CanonFields \ {"places"})
        /\ d.places = [c.places EXCEPT ![place] = [visited |-> c.places[place].visited \/ visited,
                                 shell |-> FALSE, filled |-> TRUE]]
    BY <2>1, FurnishedIs DEF CanonFit
  <2>3. DOMAIN d.places = DOMAIN c.places
    BY <2>2
  <2>4. Agree(c, d, CanonFields \ {"places"}) =>
        /\ d.player = c.player /\ d.clock = c.clock /\ d.at = c.at /\ d.alive = c.alive
        /\ d.occ = c.occ /\ d.edges = c.edges
        /\ DOMAIN d = CanonFields
    BY DEF Agree, CanonFields
  <2>5. PlacesFit(d)
    <3>1. \A p \in DOMAIN c.places \ {place} : d.places[p] = c.places[p]
      BY <2>2
    <3>2. d.places[place] = [visited |-> c.places[place].visited \/ visited,
                             shell |-> FALSE, filled |-> TRUE]
      BY <1>2, <2>2
    <3>3. /\ DOMAIN d.places[place] = PlaceFields
          /\ d.places[place].shell = FALSE
          /\ c.places[place].visited => d.places[place].visited
      <4> DEFINE mark == c.places[place].visited \/ visited
      <4>1. d.places[place] = [visited |-> mark, shell |-> FALSE, filled |-> TRUE]
        BY <3>2
      <4>2. c.places[place].visited => mark
        OBVIOUS
      <4> HIDE DEF mark
      <4>3. DOMAIN d.places[place] = PlaceFields /\ d.places[place].shell = FALSE
            /\ d.places[place].visited = mark
        BY <4>1 DEF PlaceFields
      <4> QED BY <4>2, <4>3
    <3> HIDE DEF visited
    <3>4. d.player = c.player
      BY <2>2, <2>4
    <3>5. d.places[d.player].visited
      <4>1. CASE d.player = place
        BY <3>3, <3>4, <4>1 DEF CanonFit, PlacesFit
      <4>2. CASE d.player # place
        BY <3>1, <3>4, <4>2 DEF CanonFit, PlacesFit
      <4> QED BY <4>1, <4>2
    <3>6. ASSUME NEW p \in DOMAIN d.places
          PROVE  /\ DOMAIN d.places[p] = PlaceFields
                 /\ d.places[p].visited => ~ d.places[p].shell
                 /\ p[1] = "site" => d.places[p].visited
      <4>1. CASE p = place
        BY <1>2, <3>3, <4>1 DEF CanonFit, PlacesFit
      <4>2. CASE p # place
        BY <2>3, <3>1, <4>2 DEF CanonFit, PlacesFit
      <4> QED BY <4>1, <4>2
    <3> QED BY <2>3, <3>4, <3>5, <3>6 DEF CanonFit, PlacesFit
  <2>6. PeopleFit(d) /\ EdgesFit(d)
    BY <2>2, <2>3, <2>4 DEF CanonFit, PeopleFit, EdgesFit, EdgeFit
  <2> QED BY <1>2, <2>2, <2>3, <2>4, <2>5, <2>6 DEF CanonFit, Built, Agree
<1>3. CASE place \notin DOMAIN c.places
  <2>1. d = NewPlace(c, place, visited)
    BY <1>3 DEF PlaceCommitted, visited
  <2>2. /\ Agree(c, d, CanonFields \ {"places", "occ"})
         /\ d.places = Inserted(c.places, place, [visited |-> visited, shell |-> FALSE, filled |-> TRUE])
         /\ d.occ = Inserted(c.occ, place, {})
    BY <2>1, NewPlaceIs DEF CanonFit
  <2>3. DOMAIN d.places = DOMAIN c.places \cup {place}
    BY <2>2 DEF Inserted
  <2>4. Agree(c, d, CanonFields \ {"places", "occ"}) =>
        /\ d.player = c.player /\ d.clock = c.clock /\ d.at = c.at /\ d.alive = c.alive /\ d.edges = c.edges
        /\ DOMAIN d = CanonFields
    BY DEF Agree, CanonFields
  <2>5. PlacesFit(d)
    <3>1. \A p \in DOMAIN c.places : d.places[p] = c.places[p]
      BY <1>3, <2>2 DEF Inserted
    <3>2. d.places[place] = [visited |-> visited, shell |-> FALSE, filled |-> TRUE]
      BY <2>2 DEF Inserted
    <3>3. place[1] # "site"
      BY <1>3, CanonConstants
    <3>4. d.player = c.player /\ d.player # place
      BY <1>3, <2>2, <2>4 DEF CanonFit, PlacesFit
    <3>5. ASSUME NEW p \in DOMAIN d.places
          PROVE  /\ DOMAIN d.places[p] = PlaceFields
                 /\ d.places[p].visited => ~ d.places[p].shell
                 /\ p[1] = "site" => d.places[p].visited
      <4>1. CASE p = place
        BY <3>2, <3>3, <4>1 DEF PlaceFields
      <4>2. CASE p # place
        BY <2>3, <3>1, <4>2 DEF CanonFit, PlacesFit
      <4> QED BY <4>1, <4>2
    <3>6. d.places[d.player].visited
      BY <3>1, <3>4 DEF CanonFit, PlacesFit
    <3> QED BY <2>3, <3>4, <3>5, <3>6 DEF CanonFit, PlacesFit
  <2>6. PeopleFit(d)
    <3>1. \A p \in DOMAIN c.occ : d.occ[p] = c.occ[p]
      BY <1>3, <2>2 DEF Inserted, CanonFit, PeopleFit
    <3>2. d.occ[place] = {} /\ DOMAIN d.occ = DOMAIN c.occ \cup {place}
      BY <2>2 DEF Inserted
    <3>3. DOMAIN d.occ = DOMAIN d.places
      BY <2>3, <3>2 DEF CanonFit, PeopleFit
    <3>4. ASSUME NEW p \in DOMAIN d.occ, NEW a \in d.occ[p]
          PROVE  a \in DOMAIN d.at /\ d.at[a] = p
      BY <2>2, <2>4, <3>1, <3>2, <3>4 DEF CanonFit, PeopleFit
    <3> QED BY <2>2, <2>3, <2>4, <3>3, <3>4 DEF CanonFit, PeopleFit
  <2>7. EdgesFit(d)
    BY <2>2, <2>3, <2>4 DEF CanonFit, EdgesFit, EdgeFit
  <2> QED BY <1>3, <2>2, <2>3, <2>4, <2>5, <2>6, <2>7 DEF CanonFit, Built, Agree
<1> QED BY <1>2, <1>3

\* An edge between places that are there leaves a sound canon.
LEMMA LinkedFit ==
  ASSUME NEW c, CanonFit(c), NEW e, NEW t, EdgeFit(c, t), NEW d, d = Linked(c, e, t)
  PROVE  /\ CanonFit(d) /\ Built(c, d)
         /\ d.places = c.places
<1>1. /\ Agree(c, d, CanonFields \ {"edges"})
      /\ d.edges = IF e \in DOMAIN c.edges
            THEN [c.edges EXCEPT ![e].passage = t.passage, ![e].dir = t.dir,
                       ![e].to = t.to, ![e].cost = t.cost, ![e].risk = t.risk]
            ELSE Inserted(c.edges, e, t)
  BY LinkedIs DEF CanonFit
<1>2. Agree(c, d, CanonFields \ {"edges"}) =>
        /\ d.player = c.player /\ d.clock = c.clock /\ d.at = c.at /\ d.alive = c.alive
        /\ d.occ = c.occ /\ d.places = c.places
        /\ DOMAIN d = CanonFields
    BY DEF Agree, CanonFields
<1>3. EdgesFit(d)
  <2>1. CASE e \in DOMAIN c.edges
    <3>1. DOMAIN d.edges = DOMAIN c.edges /\ \A x \in DOMAIN c.edges \ {e} : d.edges[x] = c.edges[x]
      BY <1>1, <2>1
    <3>2. d.edges[e] = [c.edges[e] EXCEPT !.passage = t.passage, !.dir = t.dir,
                       !.to = t.to, !.cost = t.cost, !.risk = t.risk]
      BY <1>1, <2>1
    <3>3. EdgeFit(c, d.edges[e])
      BY <2>1, <3>2 DEF CanonFit, EdgesFit, EdgeFit, EdgeFields
    <3> QED BY <1>1, <1>2, <3>1, <3>3 DEF CanonFit, EdgesFit, EdgeFit
  <2>2. CASE e \notin DOMAIN c.edges
    <3>1. DOMAIN d.edges = DOMAIN c.edges \cup {e} /\ d.edges[e] = t
          /\ \A x \in DOMAIN c.edges : d.edges[x] = c.edges[x]
      BY <1>1, <2>2 DEF Inserted
    <3> QED BY <1>1, <1>2, <3>1 DEF CanonFit, EdgesFit, EdgeFit
  <2> QED BY <2>1, <2>2
<1>4. PlacesFit(d) /\ PeopleFit(d)
  BY <1>1, <1>2 DEF CanonFit, PlacesFit, PeopleFit
<1> QED BY <1>1, <1>2, <1>3, <1>4 DEF CanonFit, Built, Agree

\* The staged entry, with its place, leaves a sound canon.
LEMMA EntryFits ==
  ASSUME NEW c, CanonFit(c), NEW r, r.enter \in BOOLEAN, r.route \in DOMAIN c.edges \cup {None},
         NEW g \in Answers, NEW place, place \in Rooms \cup DOMAIN c.places,
         EntryAccepted(c, r, g, place),
         NEW d, d = EntryStaged(c, r, g, place)
  PROVE  CanonFit(d) /\ Built(c, d) /\ place \in DOMAIN d.places
<1> DEFINE c1 == PlaceCommitted(c, r, place)
           from == EntryFrom(c, r)
           fwd == Forward(c, r, place)
           there == EntryEdge(c, r, g, place)
           c2 == Linked(c1, fwd, there)
           back == ReturnEdge(c, r, g, place)
           rev == Back(c, r, place)
<1>1. LinkFits(c1, fwd, there) /\ (g.dir = "two" => LinkFits(c2, rev, back))
  BY DEF EntryAccepted
<1>2. d = IF g.dir = "two" THEN Linked(c2, rev, back) ELSE c2
  BY DEF EntryStaged
<1>3. g.profile.cost \in Nat
  BY WorldConstants DEF Answers
<1>4. from \in DOMAIN c.places
  BY DEF EntryFrom, CanonFit, EdgesFit, EdgeFit, PlacesFit
<1>5. /\ there = Edge(from, place, Passage(c, r, place), g.dir, g.profile, TRUE)
      /\ back = Edge(place, from, Passage(c, r, place), g.dir, g.profile, TRUE)
  BY DEF EntryEdge, ReturnEdge
<1> HIDE DEF c1
<1>6. CanonFit(c1) /\ Built(c, c1) /\ place \in DOMAIN c1.places
  BY PlaceCommittedFit DEF c1
<1> HIDE DEF fwd, there, c2, back, rev, from
<1>7. EdgeFit(c1, there) /\ EdgeFit(c1, back)
  BY <1>3, <1>4, <1>5, <1>6 DEF Edge, EdgeFit, EdgeFields, Built
<1>8. CanonFit(c2) /\ Built(c1, c2) /\ c2.places = c1.places
  BY <1>6, <1>7, LinkedFit DEF c2
<1>9. CASE g.dir = "two"
  <2>1. EdgeFit(c2, back)
    BY <1>7, <1>8 DEF EdgeFit
  <2>2. CanonFit(d) /\ Built(c2, d) /\ d.places = c2.places
    BY <1>2, <1>8, <1>9, <2>1, LinkedFit
  <2> QED BY <1>6, <1>8, <2>2 DEF Built, Agree
<1>10. CASE g.dir # "two"
  BY <1>2, <1>6, <1>8, <1>10 DEF Built, Agree
<1> QED BY <1>9, <1>10

\* An exit to somewhere not yet named leaves a sound canon.
LEMMA HookedFits ==
  ASSUME NEW c, CanonFit(c), NEW g \in Answers, NEW place \in DOMAIN c.places,
         NEW d, d = Hooked(c, g, place)
  PROVE  CanonFit(d) /\ Built(c, d) /\ d.places = c.places
<1> DEFINE e == <<"fwd", <<"exit", place>>>>
           t == Edge(place, None, <<"exit", place>>, g.dir, g.profile, TRUE)
<1>1. d = IF g.hook /\ e \notin DOMAIN c.edges THEN Linked(c, e, t) ELSE c
  BY DEF Hooked
<1>2. EdgeFit(c, t)
  BY WorldConstants DEF Edge, EdgeFit, EdgeFields, Answers
<1> HIDE DEF e, t
<1>3. CASE g.hook /\ e \notin DOMAIN c.edges
  BY <1>1, <1>2, <1>3, LinkedFit
<1>4. CASE ~ (g.hook /\ e \notin DOMAIN c.edges)
  BY <1>1, <1>4 DEF Built, Agree, CanonFit
<1> QED BY <1>3, <1>4

-----------------------------------------------------------------------------
(* Moving the player. *)

\* d is reached from c while no actor moved: time never runs back.
Walked(c, d) ==
  /\ Agree(c, d, {"at", "alive"})
  /\ DOMAIN c.places \subseteq DOMAIN d.places
  /\ c.clock <= d.clock

\* A way the player can take.
WayFits(c, way) ==
  /\ way.from \in DOMAIN c.places
  /\ way.to \in DOMAIN c.places /\ ~ Shell(c, way.to)
  /\ way.minutes \in Nat

\* Steps of a canon compose.
LEMMA WalkedOn ==
  ASSUME NEW c, NEW d, NEW f, CanonFit(c), CanonFit(d), CanonFit(f), Walked(d, f), Built(c, d) \/ Walked(c, d)
  PROVE Walked(c, f)
BY DEF Walked, Built, Agree, CanonFit

\* What is built is a step of a canon that takes no time.
LEMMA BuiltWalks ==
  ASSUME NEW c, NEW d, CanonFit(c), Built(c, d)
  PROVE Walked(c, d)
BY DEF Walked, Built, Agree, CanonFit

\* The player may be put at a place that is complete, which is then visited.
LEMMA VisitedFit ==
  ASSUME NEW c, CanonFit(c), NEW place \in DOMAIN c.places, ~ Shell(c, place), NEW d,
         DOMAIN d = CanonFields, d.clock \in Nat, d.player = place,
         d.places = [c.places EXCEPT ![place].visited = TRUE],
         d.occ = c.occ, d.at = c.at, d.alive = c.alive, d.edges = c.edges
  PROVE  CanonFit(d)
<1>1. DOMAIN d.places = DOMAIN c.places /\ \A p \in DOMAIN c.places \ {place} : d.places[p] = c.places[p]
  OBVIOUS
<1>2. d.places[place] = [c.places[place] EXCEPT !.visited = TRUE]
  OBVIOUS
<1>3. /\ DOMAIN d.places[place] = PlaceFields /\ d.places[place].visited
      /\ ~ d.places[place].shell
  BY <1>2 DEF CanonFit, PlacesFit, PlaceFields, Shell
<1>4. ASSUME NEW p \in DOMAIN d.places
          PROVE  /\ DOMAIN d.places[p] = PlaceFields
                 /\ d.places[p].visited => ~ d.places[p].shell
                 /\ p[1] = "site" => d.places[p].visited
  <2>1. CASE p = place
    BY <1>3, <2>1
  <2>2. CASE p # place
    BY <1>1, <2>2 DEF CanonFit, PlacesFit
  <2> QED BY <2>1, <2>2
<1>5. PlacesFit(d)
  BY <1>1, <1>3, <1>4 DEF PlacesFit
<1>6. PeopleFit(d) /\ EdgesFit(d)
  BY <1>1 DEF CanonFit, PeopleFit, EdgesFit, EdgeFit
<1> QED BY <1>5, <1>6 DEF CanonFit

\* What an arrival writes.
LEMMA ArrivedIs ==
  ASSUME NEW c, DOMAIN c = CanonFields, NEW way, NEW d, d = Arrived(c, way)
  PROVE  /\ DOMAIN d = CanonFields
         /\ d.clock = c.clock + way.minutes /\ d.player = way.to
         /\ d.places = [c.places EXCEPT ![way.to].visited = TRUE]
         /\ d.occ = c.occ /\ d.at = c.at /\ d.alive = c.alive /\ d.edges = c.edges
<1> DEFINE clock == c.clock + way.minutes
           places == [c.places EXCEPT ![way.to].visited = TRUE]
           journey == IF c.journey # None /\ c.journey.at = way.from THEN None ELSE c.journey
<1>1. d = [c EXCEPT !.clock = clock, !.player = way.to, !.places = places, !.journey = journey]
  BY DEF Arrived
<1> HIDE DEF clock, places, journey
<1>2. /\ DOMAIN d = CanonFields
      /\ d.clock = clock /\ d.player = way.to /\ d.places = places
      /\ d.occ = c.occ /\ d.at = c.at /\ d.alive = c.alive /\ d.edges = c.edges
  BY <1>1 DEF CanonFields
<1> QED BY <1>2 DEF clock, places

\* An arrival leaves a sound canon.
LEMMA ArrivedFit ==
  ASSUME NEW c, CanonFit(c), NEW way, WayFits(c, way), NEW d, d = Arrived(c, way)
  PROVE  CanonFit(d) /\ Walked(c, d) /\ d.player = way.to /\ d.edges = c.edges
<1>1. DOMAIN c = CanonFields /\ c.clock \in Nat /\ way.minutes \in Nat
  BY DEF CanonFit, WayFits
<1>2. /\ DOMAIN d = CanonFields
         /\ d.clock = c.clock + way.minutes /\ d.player = way.to
         /\ d.places = [c.places EXCEPT ![way.to].visited = TRUE]
         /\ d.occ = c.occ /\ d.at = c.at /\ d.alive = c.alive /\ d.edges = c.edges
  BY <1>1, ArrivedIs
<1>3. d.clock \in Nat /\ c.clock <= d.clock
  BY <1>1, <1>2
<1>4. CanonFit(d)
  <2>1. way.to \in DOMAIN c.places /\ ~ Shell(c, way.to)
    BY DEF WayFits
  <2> QED BY <1>2, <1>3, <2>1, VisitedFit
<1> QED BY <1>2, <1>3, <1>4 DEF Walked, Agree

\* The site of a stop and its two ways.
SiteOf(c, way, elapsed) == <<"site", way.id, c.clock, elapsed>>
RoadId(site, to) == <<"road", site, to>>
RoadEdge(site, to, minutes, risk) ==
  Edge(site, to, <<"road", site, to>>, "one", [cost |-> minutes, risk |-> risk], FALSE)

\* What a stop on the road writes.
LEMMA StoppedIs ==
  ASSUME NEW c, DOMAIN c = CanonFields, NEW way, NEW elapsed, NEW d, d = Stopped(c, way, elapsed),
         NEW site, site = SiteOf(c, way, elapsed)
  PROVE  /\ DOMAIN d = CanonFields
         /\ d.clock = c.clock + elapsed /\ d.player = site
         /\ d.places = InsertedOnce(c.places, site, [visited |-> TRUE, shell |-> FALSE, filled |-> TRUE])
         /\ d.occ = InsertedOnce(c.occ, site, {})
         /\ d.at = c.at /\ d.alive = c.alive
         /\ d.edges = InsertedOnce(InsertedOnce(c.edges, RoadId(site, way.to),
                                             RoadEdge(site, way.to, way.minutes - elapsed, way.risk)),
                                RoadId(site, way.from), RoadEdge(site, way.from, elapsed, way.risk))
<1> DEFINE clock == c.clock + elapsed
           places == InsertedOnce(c.places, site, [visited |-> TRUE, shell |-> FALSE, filled |-> TRUE])
           occ == InsertedOnce(c.occ, site, {})
           edges == InsertedOnce(InsertedOnce(c.edges, RoadId(site, way.to),
                                             RoadEdge(site, way.to, way.minutes - elapsed, way.risk)),
                                RoadId(site, way.from), RoadEdge(site, way.from, elapsed, way.risk))
           journey == IF way.planned THEN [at |-> site, dest |-> way.to] ELSE c.journey
<1>1. d = [c EXCEPT !.places = places, !.occ = occ, !.edges = edges, !.clock = clock,
                    !.player = site, !.journey = journey]
  BY DEF Stopped, SiteOf, RoadId, RoadEdge
<1> HIDE DEF clock, places, occ, edges, journey
<1>2. /\ DOMAIN d = CanonFields
      /\ d.clock = clock /\ d.player = site /\ d.places = places /\ d.occ = occ /\ d.edges = edges
      /\ d.at = c.at /\ d.alive = c.alive
  BY <1>1 DEF CanonFields
<1> QED BY <1>2 DEF clock, places, occ, edges

\* An entry is added, and none is overwritten.
LEMMA InsertedOnceIs ==
  ASSUME NEW f, NEW k, NEW v
  PROVE  /\ DOMAIN InsertedOnce(f, k, v) = DOMAIN f \cup {k}
         /\ \A x \in DOMAIN f : InsertedOnce(f, k, v)[x] = f[x]
         /\ k \notin DOMAIN f => InsertedOnce(f, k, v)[k] = v
BY DEF InsertedOnce, Inserted

\* A stop on the road leaves a sound canon, with the player at a visited site.
LEMMA StoppedFit ==
  ASSUME NEW c, CanonFit(c), NEW way, WayFits(c, way), NEW elapsed \in Nat, elapsed <= way.minutes,
         NEW d, d = Stopped(c, way, elapsed)
  PROVE  CanonFit(d) /\ Walked(c, d)
<1> DEFINE site == SiteOf(c, way, elapsed)
           rest == RoadEdge(site, way.to, way.minutes - elapsed, way.risk)
           back == RoadEdge(site, way.from, elapsed, way.risk)
           onward == InsertedOnce(c.edges, RoadId(site, way.to), rest)
           there == [visited |-> TRUE, shell |-> FALSE, filled |-> TRUE]
<1>0. site[1] = "site"
  BY DEF SiteOf
<1>1. DOMAIN c = CanonFields /\ c.clock \in Nat /\ way.minutes \in Nat
      /\ way.from \in DOMAIN c.places /\ way.to \in DOMAIN c.places
  BY DEF CanonFit, WayFits
<1>2. /\ DOMAIN d = CanonFields
         /\ d.clock = c.clock + elapsed /\ d.player = site
         /\ d.places = InsertedOnce(c.places, site, there)
         /\ d.occ = InsertedOnce(c.occ, site, {})
         /\ d.at = c.at /\ d.alive = c.alive
         /\ d.edges = InsertedOnce(onward, RoadId(site, way.from), back)
  BY <1>1, StoppedIs
<1>3. site[1] = "site"
  BY <1>0
<1>4. DOMAIN rest = EdgeFields /\ rest.from = site /\ rest.to = way.to /\ rest.cost \in Nat
  BY <1>1 DEF RoadEdge, Edge, EdgeFields
<1>5. DOMAIN back = EdgeFields /\ back.from = site /\ back.to = way.from /\ back.cost \in Nat
  BY DEF RoadEdge, Edge, EdgeFields
<1>6. DOMAIN there = PlaceFields /\ there.visited /\ ~ there.shell
  BY DEF PlaceFields
<1>7. d.clock \in Nat /\ c.clock <= d.clock
  BY <1>1, <1>2
<1> HIDE DEF site, rest, back, onward, there
<1>8. /\ DOMAIN d.places = DOMAIN c.places \cup {site}
      /\ \A x \in DOMAIN c.places : d.places[x] = c.places[x]
      /\ site \notin DOMAIN c.places => d.places[site] = there
  BY <1>2 DEF InsertedOnce, Inserted
<1>9. /\ DOMAIN d.occ = DOMAIN c.occ \cup {site}
      /\ \A x \in DOMAIN c.occ : d.occ[x] = c.occ[x]
      /\ site \notin DOMAIN c.occ => d.occ[site] = {}
  BY <1>2 DEF InsertedOnce, Inserted
<1>10. ASSUME NEW e \in DOMAIN d.edges
       PROVE  d.edges[e] \in {rest, back} \/ (e \in DOMAIN c.edges /\ d.edges[e] = c.edges[e])
  <2>1. ASSUME NEW x \in DOMAIN onward
        PROVE  onward[x] = rest \/ (x \in DOMAIN c.edges /\ onward[x] = c.edges[x])
    BY DEF onward, InsertedOnce, Inserted
  <2>2. d.edges[e] = back \/ (e \in DOMAIN onward /\ d.edges[e] = onward[e])
    BY <1>2 DEF InsertedOnce, Inserted
  <2> QED BY <2>1, <2>2
<1>11. EdgesFit(d)
  BY <1>1, <1>4, <1>5, <1>8, <1>10 DEF CanonFit, EdgesFit, EdgeFit
<1>12. PeopleFit(d)
  <2>1. ASSUME NEW p \in DOMAIN d.occ, NEW a \in d.occ[p]
        PROVE  a \in DOMAIN d.at /\ d.at[a] = p
    <3>1. p \in DOMAIN c.occ
      BY <1>9, <2>1
    <3> QED BY <1>2, <1>9, <2>1, <3>1 DEF CanonFit, PeopleFit
  <2> QED BY <1>2, <1>8, <1>9, <2>1 DEF CanonFit, PeopleFit
<1>13. PlacesFit(d)
  <2>1. d.player = site /\ site \in DOMAIN d.places
    BY <1>2, <1>8
  <2>2. d.places[site].visited
    <3>1. CASE site \in DOMAIN c.places
      BY <1>3, <1>8, <3>1 DEF CanonFit, PlacesFit
    <3> QED BY <1>6, <1>8, <3>1
  <2>3. ASSUME NEW p \in DOMAIN d.places
        PROVE  /\ DOMAIN d.places[p] = PlaceFields
               /\ d.places[p].visited => ~ d.places[p].shell
               /\ p[1] = "site" => d.places[p].visited
    <3>1. CASE p \in DOMAIN c.places
      BY <1>8, <3>1 DEF CanonFit, PlacesFit
    <3>2. CASE p \notin DOMAIN c.places
      <4>1. d.places[p] = there
        BY <1>8, <3>2
      <4> QED BY <1>6, <4>1
    <3> QED BY <3>1, <3>2
  <2> QED BY <2>1, <2>2, <2>3 DEF PlacesFit
<1> QED BY <1>2, <1>7, <1>8, <1>11, <1>12, <1>13 DEF CanonFit, Walked, Agree

\* However the roll of the road decides, the canon is sound.
LEMMA TravelsFit ==
  ASSUME NEW c, CanonFit(c), NEW way, WayFits(c, way), NEW d \in Travels(c, way)
  PROVE  CanonFit(d) /\ Walked(c, d)
<1> DEFINE stops == Situations(way.minutes, way.risk)
<1>1. \A elapsed \in stops : elapsed \in Nat /\ elapsed <= way.minutes
  BY DEF Situations, WayFits
<1>2. (\E elapsed \in stops : d = Stopped(c, way, elapsed)) \/ d = Arrived(c, way)
  BY DEF Travels
<1> HIDE DEF stops
<1>3. CASE d = Arrived(c, way)
  BY <1>3, ArrivedFit
<1>4. ASSUME NEW elapsed \in stops, d = Stopped(c, way, elapsed)
      PROVE  CanonFit(d) /\ Walked(c, d)
  BY <1>1, <1>4, StoppedFit
<1> QED BY <1>2, <1>3, <1>4

\* A move that the validator lets through leaves a sound canon.
LEMMA MovesFit ==
  ASSUME NEW c, CanonFit(c), NEW e, CanMove(c, e), NEW d \in Moves(c, e)
  PROVE  CanonFit(d) /\ Walked(c, d)
<1> DEFINE way == [id |-> e, from |-> c.edges[e].from, to |-> c.edges[e].to,
                minutes |-> c.edges[e].cost, risk |-> c.edges[e].risk,
                planned |-> FALSE]
<1>1. d \in Travels(c, way)
  BY DEF Moves
<1>2. WayFits(c, way)
  BY DEF WayFits, CanMove, CanonFit, EdgesFit, EdgeFit
<1> HIDE DEF way
<1> QED BY <1>1, <1>2, TravelsFit

\* Whatever the creator answers, what a commit of its place leaves is sound.
LEMMA CommitFits ==
  ASSUME NEW c, CanonFit(c), NEW r, r.enter \in BOOLEAN, r.route \in DOMAIN c.edges \cup {None},
         r.target \in DOMAIN c.places \cup {None},
         NEW g \in Answers, NEW d \in CommitLocation(c, r, g)
  PROVE  CanonFit(d) /\ Walked(c, d)
<1> DEFINE enters == NeedsEntry(c, r)
           place == IF enters THEN Placed(c, r, g) ELSE r.target
           built == IF enters THEN EntryStaged(c, r, g, place) ELSE PlaceCommitted(c, r, place)
           staged == Hooked(built, g, place)
           fwd == Forward(c, r, place)
<1>1. ~ enters \/ EntryAccepted(c, r, g, place)
  BY DEF CommitLocation
<1>2. d = staged \/ (CanMove(staged, fwd) /\ d \in Moves(staged, fwd))
  BY DEF CommitLocation
<1>3. place \in Rooms \cup DOMAIN c.places
  <2>1. CASE ~ enters
    BY <2>1 DEF NeedsEntry, EntryFrom, CanonFit, PlacesFit, EdgesFit, EdgeFit
  <2>2. CASE enters
    BY <2>2 DEF Placed, Answers, CanonFit, EdgesFit, EdgeFit
  <2> QED BY <2>1, <2>2
<1> HIDE DEF place, enters, fwd
<1>4. CanonFit(built) /\ Built(c, built) /\ place \in DOMAIN built.places
  BY <1>1, <1>3, EntryFits, PlaceCommittedFit
<1> HIDE DEF built
<1>5. CanonFit(staged) /\ Built(built, staged)
  BY <1>4, HookedFits
<1> HIDE DEF staged
<1>6. Walked(c, staged)
  BY <1>4, <1>5, BuiltWalks, WalkedOn
<1>7. CASE d = staged
  BY <1>5, <1>6, <1>7
<1>8. CASE CanMove(staged, fwd) /\ d \in Moves(staged, fwd)
  BY <1>5, <1>6, <1>8, MovesFit, WalkedOn
<1> QED BY <1>2, <1>7, <1>8

\* Filling the place of the player leaves a sound canon.
LEMMA FilledFits ==
  ASSUME NEW c, CanonFit(c), NEW d \in Filled(c)
  PROVE  CanonFit(d) /\ Walked(c, d)
<1> DEFINE r == [route |-> None, target |-> c.player, enter |-> FALSE]
<1>1. d = c \/ \E g \in Answers : d \in CommitLocation(c, r, g)
  BY DEF Filled
<1>2. r.enter \in BOOLEAN /\ r.route \in DOMAIN c.edges \cup {None} /\ r.target \in DOMAIN c.places \cup {None}
  BY DEF CanonFit, PlacesFit
<1> HIDE DEF r
<1>3. CASE d = c
  BY <1>3 DEF Walked, Agree, CanonFit
<1> QED BY <1>1, <1>2, <1>3, CommitFits

-----------------------------------------------------------------------------
(* Time, passages and characters. *)

\* A canon stays sound when its clock or its journey changes.
LEMMA SameClockFit ==
  ASSUME NEW c, CanonFit(c), NEW d, Agree(c, d, CanonFields \ {"clock", "journey"}), d.clock \in Nat
  PROVE  CanonFit(d)
<1>1. /\ DOMAIN d = CanonFields
      /\ d.player = c.player /\ d.places = c.places /\ d.occ = c.occ /\ d.at = c.at /\ d.alive = c.alive
      /\ d.edges = c.edges
  BY DEF Agree, CanonFields
<1> QED BY <1>1 DEF CanonFit, PlacesFit, PeopleFit, EdgesFit, EdgeFit

\* A relocation leaves a sound canon.
LEMMA RelocatedFit ==
  ASSUME NEW c, CanonFit(c), NEW place, CanRelocate(c, place), NEW minutes \in Nat,
         NEW d, d = Relocated(c, place, minutes)
  PROVE  CanonFit(d) /\ Walked(c, d)
<1> DEFINE clock == c.clock + minutes
           places == [c.places EXCEPT ![place].visited = TRUE]
<1>1. d = [c EXCEPT !.clock = clock, !.player = place, !.journey = None, !.places = places]
  BY DEF Relocated
<1>2. clock \in Nat /\ c.clock <= clock
  BY DEF CanonFit
<1>3. places = [c.places EXCEPT ![place].visited = TRUE] /\ DOMAIN places = DOMAIN c.places
  OBVIOUS
<1> HIDE DEF clock, places
<1>4. /\ DOMAIN d = CanonFields
      /\ d.clock = clock /\ d.player = place /\ d.places = places
      /\ d.occ = c.occ /\ d.at = c.at /\ d.alive = c.alive /\ d.edges = c.edges
  BY <1>1 DEF CanonFields, CanonFit
<1>5. place \in DOMAIN c.places /\ ~ Shell(c, place)
  BY DEF CanRelocate
<1>6. CanonFit(d)
  BY <1>2, <1>3, <1>4, <1>5, VisitedFit
<1> QED BY <1>2, <1>3, <1>4, <1>6 DEF Walked, Agree

\* A canon stays sound when its edges change and each of them is sound.
LEMMA EdgesChangedFit ==
  ASSUME NEW c, CanonFit(c), NEW d, Agree(c, d, CanonFields \ {"edges"}),
         \A e \in DOMAIN d.edges : EdgeFit(c, d.edges[e])
  PROVE  CanonFit(d) /\ Walked(c, d)
<1>1. /\ DOMAIN d = CanonFields
      /\ d.player = c.player /\ d.places = c.places /\ d.occ = c.occ /\ d.at = c.at /\ d.alive = c.alive
      /\ d.clock = c.clock
  BY DEF Agree, CanonFields
<1> QED BY <1>1 DEF CanonFit, PlacesFit, PeopleFit, EdgesFit, EdgeFit, Walked, Agree

\* An entry of an extended map is the new one or an old one.
LEMMA InsertedFits ==
  ASSUME NEW f, NEW k, NEW v, NEW x \in DOMAIN Inserted(f, k, v)
  PROVE  \/ x = k /\ Inserted(f, k, v)[x] = v
         \/ x \in DOMAIN f /\ Inserted(f, k, v)[x] = f[x]
BY DEF Inserted

\* A new passage leaves a sound canon.
LEMMA PassageCreatedFit ==
  ASSUME NEW c, CanonFit(c), NEW passage, NEW from, NEW to, NEW dir, NEW profile \in Profiles,
         CanCreatePassage(c, passage, from, to, dir, profile),
         NEW d, d = PassageCreated(c, passage, from, to, dir, profile)
  PROVE  CanonFit(d) /\ Walked(c, d)
<1> DEFINE there == Edge(from, to, passage, dir, profile, TRUE)
           back == Edge(to, from, passage, dir, profile, TRUE)
           ways == Inserted(c.edges, <<"fwd", passage>>, there)
           edges == IF dir = "two" THEN Inserted(ways, <<"rev", passage>>, back) ELSE ways
<1>1. d = [c EXCEPT !.edges = edges]
  BY DEF PassageCreated
<1>2. EdgeFit(c, there) /\ EdgeFit(c, back)
  BY WorldConstants DEF Edge, EdgeFit, EdgeFields, CanCreatePassage
<1> HIDE DEF there, back
<1>3. \A e \in DOMAIN ways : EdgeFit(c, ways[e])
  BY <1>2, InsertedFits DEF CanonFit, EdgesFit
<1>4. \A e \in DOMAIN edges : EdgeFit(c, edges[e])
  BY <1>2, <1>3, InsertedFits
<1> HIDE DEF edges
<1>5. Agree(c, d, CanonFields \ {"edges"}) /\ d.edges = edges
  BY <1>1 DEF Agree, CanonFields, CanonFit
<1> QED BY <1>4, <1>5, EdgesChangedFit

\* Opening or closing a passage leaves a sound canon.
LEMMA PassageSetFit ==
  ASSUME NEW c, CanonFit(c), NEW e, NEW open, NEW d, d = PassageSet(c, e, open)
  PROVE  CanonFit(d) /\ Walked(c, d)
<1> DEFINE edges == [x \in DOMAIN c.edges |-> IF c.edges[x].passage = c.edges[e].passage
                            THEN [c.edges[x] EXCEPT !.open = open] ELSE c.edges[x]]
<1>1. d = [c EXCEPT !.edges = edges]
  BY DEF PassageSet
<1>2. ASSUME NEW x \in DOMAIN edges
      PROVE  EdgeFit(c, edges[x])
  <2>1. EdgeFit(c, c.edges[x])
    BY DEF CanonFit, EdgesFit
  <2>2. EdgeFit(c, [c.edges[x] EXCEPT !.open = open])
    BY <2>1 DEF EdgeFit, EdgeFields
  <2> QED BY <2>1, <2>2
<1> HIDE DEF edges
<1>3. Agree(c, d, CanonFields \ {"edges"}) /\ d.edges = edges
  BY <1>1 DEF Agree, CanonFields, CanonFit
<1> QED BY <1>2, <1>3, EdgesChangedFit

\* A moved actor is where it was put, and listed nowhere else.
LEMMA ActorMovedFit ==
  ASSUME NEW c, CanonFit(c), NEW a \in DOMAIN c.at, NEW place \in DOMAIN c.places \cup {None},
         NEW d, d = ActorMoved(c, a, place)
  PROVE  /\ CanonFit(d)
         /\ Agree(c, d, CanonFields \ {"at", "occ"})
         /\ d.at = [c.at EXCEPT ![a] = place]
<1> DEFINE at == [c.at EXCEPT ![a] = place]
           occ == [p \in DOMAIN c.occ |-> IF p = place THEN c.occ[p] \cup {a}
                               ELSE IF p = c.at[a] THEN c.occ[p] \ {a} ELSE c.occ[p]]
<1>1. d = [c EXCEPT !.at = at, !.occ = occ]
  BY DEF ActorMoved
<1>2. DOMAIN at = DOMAIN c.at /\ DOMAIN occ = DOMAIN c.occ
      /\ \A b \in DOMAIN at : at[b] \in DOMAIN c.places \cup {None}
  BY DEF CanonFit, PeopleFit
<1>3. ASSUME NEW p \in DOMAIN occ, NEW b \in occ[p] PROVE b \in DOMAIN at /\ at[b] = p
  BY <1>3 DEF CanonFit, PeopleFit
<1>4. at = [c.at EXCEPT ![a] = place]
  OBVIOUS
<1> HIDE DEF at, occ
<1>5. /\ Agree(c, d, CanonFields \ {"at", "occ"})
      /\ d.at = at /\ d.occ = occ
  BY <1>1 DEF Agree, CanonFields, CanonFit
<1>6. Agree(c, d, CanonFields \ {"at", "occ"}) =>
      /\ DOMAIN d = CanonFields
      /\ d.player = c.player /\ d.places = c.places /\ d.alive = c.alive
      /\ d.clock = c.clock /\ d.edges = c.edges
  BY DEF Agree, CanonFields
<1>7. PeopleFit(d)
  BY <1>2, <1>3, <1>5, <1>6 DEF CanonFit, PeopleFit
<1>8. PlacesFit(d) /\ EdgesFit(d)
  BY <1>5, <1>6 DEF CanonFit, PlacesFit, EdgesFit, EdgeFit
<1> QED BY <1>4, <1>5, <1>6, <1>7, <1>8 DEF CanonFit

\* A new actor is where it was put.
LEMMA ActorCreatedFit ==
  ASSUME NEW c, CanonFit(c), NEW a, a \notin DOMAIN c.at, NEW place \in DOMAIN c.places, NEW alive,
         NEW d, d = ActorCreated(c, a, place, alive)
  PROVE  /\ CanonFit(d)
         /\ Agree(c, d, CanonFields \ {"at", "occ", "alive"})
         /\ d.at = Inserted(c.at, a, place)
<1> DEFINE at == Inserted(c.at, a, place)
           life == Inserted(c.alive, a, alive)
           occ == [p \in DOMAIN c.occ |-> IF p = place THEN c.occ[p] \cup {a} ELSE c.occ[p]]
<1>1. d = [c EXCEPT !.at = at, !.alive = life, !.occ = occ]
  BY DEF ActorCreated
<1>2. /\ DOMAIN at = DOMAIN c.at \cup {a} /\ DOMAIN life = DOMAIN c.alive \cup {a}
      /\ DOMAIN occ = DOMAIN c.occ /\ at = Inserted(c.at, a, place)
      /\ \A b \in DOMAIN at : at[b] \in DOMAIN c.places \cup {None}
  BY DEF CanonFit, PeopleFit, Inserted
<1>3. ASSUME NEW p \in DOMAIN occ, NEW b \in occ[p] PROVE b \in DOMAIN at /\ at[b] = p
  BY <1>3 DEF CanonFit, PeopleFit, Inserted
<1> HIDE DEF at, occ, life
<1>5. /\ Agree(c, d, CanonFields \ {"at", "occ", "alive"})
      /\ d.at = at /\ d.occ = occ /\ d.alive = life
  BY <1>1 DEF Agree, CanonFields, CanonFit
<1>6. Agree(c, d, CanonFields \ {"at", "occ", "alive"}) =>
      /\ DOMAIN d = CanonFields
      /\ d.player = c.player /\ d.places = c.places
      /\ d.clock = c.clock /\ d.edges = c.edges
  BY DEF Agree, CanonFields
<1>7. PeopleFit(d)
  BY <1>2, <1>3, <1>5, <1>6 DEF CanonFit, PeopleFit
<1>8. PlacesFit(d) /\ EdgesFit(d)
  BY <1>5, <1>6 DEF CanonFit, PlacesFit, EdgesFit, EdgeFit
<1> QED BY <1>2, <1>5, <1>6, <1>7, <1>8 DEF CanonFit

\* The canon of a written scene is sound, the listed at the place of the player.
LEMMA StagedFit ==
  ASSUME CanonFit(canon), NEW listed, listed \subseteq DOMAIN canon.at, NEW d, d = Staged(listed)
  PROVE  /\ CanonFit(d)
         /\ Agree(canon, d, {"player", "clock", "alive", "edges"})
         /\ d.at = [a \in DOMAIN canon.at |-> IF a \in listed THEN canon.player ELSE canon.at[a]]
         /\ DOMAIN d.places = DOMAIN canon.places
<1> DEFINE places == [canon.places EXCEPT ![canon.player].filled = TRUE, ![canon.player].visited = TRUE]
           c == [canon EXCEPT !.places[canon.player].filled = TRUE,
                           !.places[canon.player].visited = TRUE]
           at == [a \in DOMAIN canon.at |-> IF a \in listed THEN canon.player ELSE canon.at[a]]
           occ == [p \in DOMAIN canon.occ |->
                             IF p = canon.player THEN canon.occ[p] \cup listed
                             ELSE {a \in canon.occ[p] : ~ (a \in listed /\ canon.at[a] = p)}]
<1>1. DOMAIN canon = CanonFields /\ canon.player \in DOMAIN canon.places
  BY DEF CanonFit, PlacesFit
<1>2. /\ Agree(canon, c, CanonFields \ {"places"}) /\ c.places = places
  <2>1. /\ DOMAIN c = CanonFields
        /\ c.player = canon.player /\ c.clock = canon.clock /\ c.journey = canon.journey
        /\ c.occ = canon.occ /\ c.at = canon.at /\ c.alive = canon.alive /\ c.edges = canon.edges
    BY <1>1 DEF CanonFields
  <2>2. c.places = places
    BY <1>1 DEF CanonFields
  <2> QED BY <2>1, <2>2 DEF Agree, CanonFields
<1>3. Agree(canon, c, CanonFields \ {"places"}) =>
        /\ DOMAIN c = CanonFields
        /\ c.player = canon.player /\ c.clock = canon.clock
        /\ c.occ = canon.occ /\ c.at = canon.at /\ c.alive = canon.alive /\ c.edges = canon.edges
  BY DEF Agree, CanonFields
<1>4. d = [c EXCEPT !.at = [a \in DOMAIN c.at |-> IF a \in listed THEN c.player ELSE c.at[a]],
                 !.occ = [p \in DOMAIN c.occ |->
                             IF p = c.player THEN c.occ[p] \cup listed
                             ELSE {a \in c.occ[p] : ~ (a \in listed /\ c.at[a] = p)}]]
  BY DEF Staged
<1> HIDE DEF c
<1>5. d = [c EXCEPT !.at = at, !.occ = occ]
  <2> DEFINE here == [a \in DOMAIN c.at |-> IF a \in listed THEN c.player ELSE c.at[a]]
             there == [p \in DOMAIN c.occ |->
                          IF p = c.player THEN c.occ[p] \cup listed
                          ELSE {a \in c.occ[p] : ~ (a \in listed /\ c.at[a] = p)}]
  <2>1. d = [c EXCEPT !.at = here, !.occ = there]
    BY <1>4
  <2>2. c.player = canon.player /\ c.at = canon.at /\ c.occ = canon.occ
    BY <1>2, <1>3
  <2>3. here = at
    BY <2>2
  <2>4. there = occ
    BY <2>2
  <2> HIDE DEF here, there, at, occ
  <2> QED BY <2>1, <2>3, <2>4
<1>6. /\ DOMAIN places = DOMAIN canon.places
      /\ \A p \in DOMAIN places : /\ DOMAIN places[p] = PlaceFields
                                  /\ places[p].shell = canon.places[p].shell
                                  /\ p = canon.player => places[p].visited
                                  /\ p # canon.player => places[p] = canon.places[p]
  BY <1>1 DEF CanonFit, PlacesFit, PlaceFields
<1>7. DOMAIN at = DOMAIN canon.at /\ DOMAIN occ = DOMAIN canon.occ
      /\ \A b \in DOMAIN at : at[b] \in DOMAIN canon.places \cup {None}
  BY DEF CanonFit, PeopleFit, PlacesFit
<1>8. ASSUME NEW p \in DOMAIN occ, NEW b \in occ[p] PROVE b \in DOMAIN at /\ at[b] = p
  <2>1. CASE p = canon.player
    BY <1>8, <2>1 DEF CanonFit, PeopleFit
  <2>2. CASE p # canon.player
    BY <1>8, <2>2 DEF CanonFit, PeopleFit
  <2> QED BY <2>1, <2>2
<1>9. at = [a \in DOMAIN canon.at |-> IF a \in listed THEN canon.player ELSE canon.at[a]]
  OBVIOUS
<1> HIDE DEF at, occ, places
<1>10. /\ DOMAIN d = CanonFields
       /\ d.player = canon.player /\ d.clock = canon.clock
       /\ d.alive = canon.alive /\ d.edges = canon.edges
       /\ d.at = at /\ d.occ = occ /\ d.places = places
  BY <1>2, <1>3, <1>5 DEF CanonFields
<1>11. PeopleFit(d)
  BY <1>6, <1>7, <1>8, <1>10 DEF CanonFit, PeopleFit
<1>12. PlacesFit(d)
  BY <1>1, <1>6, <1>10 DEF CanonFit, PlacesFit
<1>13. EdgesFit(d)
  BY <1>6, <1>10 DEF CanonFit, EdgesFit, EdgeFit
<1> QED BY <1>6, <1>9, <1>10, <1>11, <1>12, <1>13 DEF CanonFit, Agree

\* The canon of a patched scene.
Patched(s0, listed, gone) ==
  [s0 EXCEPT
     !.alive = [a \in DOMAIN @ |-> @[a] \/ a \in listed],
     !.at = [a \in DOMAIN @ |-> IF a \in gone THEN None ELSE @[a]],
     !.occ[s0.player] = @ \ gone]

\* So is that of a patched scene, whose unlisted are nowhere.
LEMMA PatchedFit ==
  ASSUME CanonFit(canon), NEW listed, listed \subseteq DOMAIN canon.at, NEW gone,
         gone = ActorsAt(canon, canon.player) \ listed,
         NEW s0, s0 = Staged(listed),
         NEW d, d = Patched(s0, listed, gone)
  PROVE  /\ CanonFit(d)
         /\ Agree(canon, d, {"player", "clock", "edges"})
         /\ d.at = [a \in DOMAIN canon.at |-> IF a \in gone THEN None
                       ELSE IF a \in listed THEN canon.player ELSE canon.at[a]]
         /\ listed \subseteq ActorsAt(d, d.player)
<1> DEFINE life == [a \in DOMAIN s0.alive |-> s0.alive[a] \/ a \in listed]
           at == [a \in DOMAIN s0.at |-> IF a \in gone THEN None ELSE s0.at[a]]
           occ == [s0.occ EXCEPT ![s0.player] = s0.occ[s0.player] \ gone]
<1>1. /\ CanonFit(s0)
      /\ Agree(canon, s0, {"player", "clock", "alive", "edges"})
      /\ s0.at = [a \in DOMAIN canon.at |-> IF a \in listed THEN canon.player ELSE canon.at[a]]
      /\ DOMAIN s0.places = DOMAIN canon.places
  BY StagedFit
<1>2. Agree(canon, s0, {"player", "clock", "alive", "edges"}) =>
      s0.player = canon.player /\ s0.clock = canon.clock /\ s0.alive = canon.alive /\ s0.edges = canon.edges
  BY DEF Agree
<1>3. d = [s0 EXCEPT !.alive = life, !.at = at, !.occ = occ]
  BY DEF Patched
<1>4. /\ DOMAIN life = DOMAIN s0.alive /\ DOMAIN at = DOMAIN s0.at /\ DOMAIN occ = DOMAIN s0.occ
      /\ \A b \in DOMAIN at : at[b] \in DOMAIN s0.places \cup {None}
  BY <1>1 DEF CanonFit, PeopleFit
<1>5. ASSUME NEW p \in DOMAIN occ, NEW b \in occ[p] PROVE b \in DOMAIN at /\ at[b] = p
  <2>1. b \in s0.occ[p] /\ (p = s0.player => b \notin gone)
    BY <1>5
  <2>2. b \in DOMAIN s0.at /\ s0.at[b] = p
    BY <1>1, <1>5, <2>1 DEF CanonFit, PeopleFit
  <2>3. b \in gone => p = s0.player
    BY <1>1, <1>2, <2>2 DEF ActorsAt
  <2> QED BY <2>1, <2>2, <2>3
<1>6. at = [a \in DOMAIN canon.at |-> IF a \in gone THEN None
                       ELSE IF a \in listed THEN canon.player ELSE canon.at[a]]
  BY <1>1
<1>10. \A a \in listed : a \in DOMAIN at /\ at[a] = canon.player /\ life[a]
  <2>1. listed \subseteq DOMAIN s0.alive
    BY <1>1, <1>2 DEF CanonFit, PeopleFit
  <2> QED BY <1>6, <2>1
<1> HIDE DEF life, at, occ
<1>7. /\ DOMAIN d = CanonFields
      /\ d.player = s0.player /\ d.places = s0.places /\ d.clock = s0.clock /\ d.edges = s0.edges
      /\ d.at = at /\ d.occ = occ /\ d.alive = life
  BY <1>1, <1>3 DEF CanonFields, CanonFit
<1>8. PeopleFit(d)
  <2>1. DOMAIN s0.occ = DOMAIN s0.places /\ DOMAIN s0.alive = DOMAIN s0.at
    BY <1>1 DEF CanonFit, PeopleFit
  <2> QED BY <1>4, <1>5, <1>7, <2>1 DEF PeopleFit
<1>9. PlacesFit(d) /\ EdgesFit(d)
  BY <1>1, <1>7 DEF CanonFit, PlacesFit, EdgesFit, EdgeFit
<1>11. listed \subseteq ActorsAt(d, d.player)
  BY <1>2, <1>1, <1>7, <1>10 DEF ActorsAt
<1> QED BY <1>1, <1>2, <1>6, <1>7, <1>8, <1>9, <1>11 DEF CanonFit, Agree

-----------------------------------------------------------------------------
(* The copies of the canon. *)

\* A row that claims to know where its character is is right.
RowFit(c, a, row) == DOMAIN row = {"at", "status"} /\ (row.status # "unknown" => c.at[a] = row.at)

RowsFit ==
  /\ DOMAIN cards = DOMAIN canon.at /\ DOMAIN rows = DOMAIN cards
  /\ \A a \in DOMAIN rows : RowFit(canon, a, rows[a])

\* The scene is the view of the canon.
SceneFit == scene = View(canon, scene.items)

\* A finite set of items with names.
Good(items) == IsFiniteSet(items) /\ \A item \in items : item.head \in Heads

ItemsFit ==
  /\ bag \subseteq Heads
  /\ Good(scene.items)
  /\ IsFiniteSet(DOMAIN stash)
  /\ \A p \in DOMAIN stash : Good(stash[p])

\* The world's clock may wait for the canon's.
ClockFit == time \in Nat /\ time <= canon.clock

\* The inductive invariant.  The rows and the clock need the canon to be sound;
\* a tool can rely on a scene that is the view of the canon as it begins.
WorldInv == CanonFit(canon) /\ RowsFit /\ SceneFit /\ ItemsFit /\ ClockFit

\* What the invariant says of the copies.
LEMMA InvAgrees == ASSUME WorldInv PROVE ViewsAgree /\ WorldTypeOK
<1> USE DEF WorldInv
<1>1. scene.place = canon.player /\ scene.present = ActorsAt(canon, canon.player)
  BY DEF SceneFit, View
<1>2. canon.places[canon.player].visited /\ ~ Shell(canon, canon.player)
  BY DEF CanonFit, PlacesFit, Shell
<1>3. \A p \in DOMAIN canon.occ : \A a \in canon.occ[p] : canon.at[a] = p
  BY DEF CanonFit, PeopleFit
<1>4. ViewsAgree
  BY <1>1, <1>2, <1>3 DEF ClockFit, RowsFit, RowFit, ViewsAgree
<1>5. WorldTypeOK
  BY DEF CanonFit, PlacesFit, PeopleFit, EdgesFit, EdgeFit, ClockFit, RowsFit, ItemsFit, WorldTypeOK
<1> QED BY <1>4, <1>5

\* What EnsuredFits needs, and what it gives.
Seen(c, s) == \A a \in s.present : c.at[a] = s.place
Ready(c, s, r, known) == \A a \in known : a \in DOMAIN r => a \in s.present \/ RowFit(c, a, r[a])
RowsOf(c, q, known) == DOMAIN q = known /\ \A a \in known : RowFit(c, a, q[a])

\* The rows that ensure_npc_whereabouts leaves fit the canon the scene is of.
LEMMA EnsuredFits ==
  ASSUME NEW c, NEW s, Seen(c, s), NEW r, NEW known, Ready(c, s, r, known),
         NEW q, q = Ensured(r, s, known)
  PROVE  RowsOf(c, q, known)
<1> USE DEF Seen, Ready, RowsOf
<1>1. DOMAIN q = known
  BY DEF Ensured
<1>2. ASSUME NEW a \in known PROVE RowFit(c, a, q[a])
  <2>1. CASE a \in s.present
    <3>1. q[a] = [at |-> s.place, status |-> "present"]
      BY <2>1 DEF Ensured
    <3> QED BY <2>1, <3>1 DEF RowFit
  <2>2. CASE a \notin s.present /\ a \notin DOMAIN r
    <3>1. q[a] = [at |-> None, status |-> "unknown"]
      BY <2>2 DEF Ensured
    <3> QED BY <3>1 DEF RowFit
  <2>3. CASE a \notin s.present /\ a \in DOMAIN r /\ r[a].status = "present"
    <3>1. q[a] = [r[a] EXCEPT !.status = "known"]
      BY <2>3 DEF Ensured
    <3>2. RowFit(c, a, r[a])
      BY <2>3
    <3> QED BY <2>3, <3>1, <3>2 DEF RowFit
  <2>4. CASE a \notin s.present /\ a \in DOMAIN r /\ r[a].status # "present"
    <3>1. q[a] = r[a]
      BY <2>4 DEF Ensured
    <3> QED BY <2>4, <3>1
  <2> QED BY <2>1, <2>2, <2>3, <2>4
<1> QED BY <1>1, <1>2

\* A refreshed scene is the view of its canon.
LEMMA CommitScene ==
  ASSUME NEW c, NEW s, NEW new, new = RefreshedScene(c, s)
  PROVE  new = View(c, new.items) /\ new.place = c.player /\ new.present = ActorsAt(c, c.player)
BY DEF RefreshedScene, View

\* what is kept of the items by a refresh
LEMMA RefreshItems ==
  ASSUME ItemsFit, NEW c, NEW s, Good(s.items),
         scene' = RefreshedScene(c, s), stash' = RefreshedStash(c, s), bag' = bag
  PROVE  ItemsFit'
<1>1. IsFiniteSet(DOMAIN stash') /\ \A p \in DOMAIN stash' : Good(stash'[p])
  <2>1. CASE s.place = c.player
    BY <2>1 DEF RefreshedStash, ItemsFit
  <2>2. CASE s.place # c.player
    <3>1. stash' = Inserted(stash, s.place, s.items)
      BY <2>2 DEF RefreshedStash
    <3>2. DOMAIN stash' = DOMAIN stash \cup {s.place}
      BY <3>1 DEF Inserted
    <3>3. IsFiniteSet(DOMAIN stash')
      BY <3>2, FS_AddElement DEF ItemsFit
    <3> QED BY <3>1, <3>3, InsertedFits DEF ItemsFit
  <2> QED BY <2>1, <2>2
<1>2. Good(scene'.items)
  <2>1. Good({})
    BY FS_EmptySet DEF Good
  <2>2. scene'.items = IF s.place # c.player THEN Stored(RefreshedStash(c, s), c.player) ELSE s.items
    BY DEF RefreshedScene, View
  <2> QED BY <1>1, <2>1, <2>2 DEF Stored
<1> QED BY <1>1, <1>2 DEF ItemsFit, Good

\* a tool that leaves the whereabouts of the actors alone
LEMMA CommitHolds ==
  ASSUME WorldInv, NEW c, CanonFit(c), c.at = canon.at, Commit(c), Export, cards' = cards, bag' = bag
  PROVE  (CanonFit(canon) /\ RowsFit /\ SceneFit /\ ItemsFit)'
<1> USE DEF WorldInv
<1>1. canon' = c /\ scene' = RefreshedScene(c, scene) /\ stash' = RefreshedStash(c, scene)
  BY DEF Commit
<1>2. CanonFit(canon')
  BY <1>1
<1>3. scene' = View(c, scene'.items) /\ Seen(c, scene')
  BY <1>1, CommitScene DEF ActorsAt, Seen
<1>4. ItemsFit'
  BY <1>1, RefreshItems DEF ItemsFit
<1>5. Ready(c, scene', rows, DOMAIN cards)
  BY DEF RowsFit, RowFit, Ready
<1>6. rows' = Ensured(rows, scene', DOMAIN cards)
  BY DEF Export
<1>7. RowsOf(c, rows', DOMAIN cards)
  BY <1>3, <1>5, <1>6, EnsuredFits
<1>8. RowsFit'
  BY <1>1, <1>7 DEF RowsFit, RowsOf
<1> QED BY <1>1, <1>2, <1>3, <1>4, <1>8 DEF SceneFit

-----------------------------------------------------------------------------
(* The tools. *)

\* A request the location creator can be given.
CreatorRequest(r) ==
  /\ r.enter \in BOOLEAN /\ r.route \in DOMAIN canon.edges \cup {None}
  /\ r.target \in DOMAIN canon.places \cup {None}

\* The location creator, as a tool and behind an exit.
LEMMA GenerateKeeps ==
  ASSUME WorldInv, NEW r, CreatorRequest(r), Generate(r)
  PROVE  WorldInv'
<1>1. PICK g \in Answers : \E c \in CommitLocation(canon, r, g) :
            /\ Commit(c)
            /\ time' = EnteredTime(c, r, IF NeedsEntry(canon, r) THEN Placed(canon, r, g)
                                         ELSE r.target)
            /\ UNCHANGED <<cards, bag>>
            /\ Export
  BY DEF Generate
<1>2. PICK c \in CommitLocation(canon, r, g) :
            /\ Commit(c)
            /\ time' = EnteredTime(c, r, IF NeedsEntry(canon, r) THEN Placed(canon, r, g)
                                         ELSE r.target)
            /\ UNCHANGED <<cards, bag>>
            /\ Export
  BY <1>1
<1>3. CanonFit(c) /\ Walked(canon, c)
  BY CommitFits DEF CreatorRequest, WorldInv
<1>4. c.at = canon.at /\ canon.clock <= c.clock /\ c.clock \in Nat /\ canon.clock \in Nat
  BY <1>3 DEF Walked, Agree, WorldInv, CanonFit
<1>5. (CanonFit(canon) /\ RowsFit /\ SceneFit /\ ItemsFit)'
  BY <1>2, <1>3, <1>4, CommitHolds
<1>6. canon' = c /\ time' \in {time, c.clock}
  BY <1>2 DEF Commit, EnteredTime
<1>7. ClockFit'
  BY <1>4, <1>6 DEF ClockFit, WorldInv
<1> QED BY <1>5, <1>7 DEF WorldInv

\* A tool that moved the player from a sound canon to a sound one.
LEMMA TravelledKeeps ==
  ASSUME WorldInv, NEW c, CanonFit(c), Walked(canon, c), Travelled(c)
  PROVE  WorldInv'
<1>1. c.at = canon.at /\ c.clock \in Nat
  BY DEF Walked, Agree, CanonFit
<1>2. (CanonFit(canon) /\ RowsFit /\ SceneFit /\ ItemsFit)'
  BY <1>1, CommitHolds DEF Travelled
<1>3. ClockFit'
  BY <1>1 DEF Travelled, Commit, ClockFit
<1> QED BY <1>2, <1>3 DEF WorldInv

\* move_player.
LEMMA MovePlayerKeeps ==
  ASSUME WorldInv, NEW e \in DOMAIN canon.edges, MovePlayer(e)
  PROVE  WorldInv'
<1> DEFINE r == [route |-> e, target |-> canon.edges[e].to, enter |-> TRUE]
<1>1. CASE Generate(r)
  <2>1. CreatorRequest(r)
    BY DEF CreatorRequest, WorldInv, CanonFit, EdgesFit, EdgeFit
  <2> HIDE DEF r
  <2> QED BY <1>1, <2>1, GenerateKeeps
<1>2. CASE ~ Generate(r)
  <2>1. CanMove(canon, e)
        /\ \E c \in Moves(canon, e) : \E d \in Filled(c) \cup {c} : Travelled(d)
    BY <1>2 DEF MovePlayer
  <2>2. PICK c \in Moves(canon, e) : \E d \in Filled(c) \cup {c} : Travelled(d)
    BY <2>1
  <2>3. PICK d \in Filled(c) \cup {c} : Travelled(d)
    BY <2>2
  <2>4. CanonFit(c) /\ Walked(canon, c)
    BY <2>1, MovesFit DEF WorldInv
  <2>5. CanonFit(d) /\ Walked(canon, d)
    BY <2>4, FilledFits, WalkedOn DEF WorldInv
  <2> QED BY <2>3, <2>5, TravelledKeeps
<1> QED BY <1>1, <1>2

\* travel_to.
LEMMA TravelToKeeps ==
  ASSUME WorldInv, NEW place \in DOMAIN canon.places, TravelTo(place)
  PROVE  WorldInv'
<1>1. PICK plan \in Profiles :
        \E c \in Travels(canon, [id |-> <<"journey", place, canon.clock>>,
                                    from |-> canon.player, to |-> place,
                                    minutes |-> plan.cost, risk |-> plan.risk,
                                    planned |-> TRUE]) :
             \E d \in Filled(c) \cup {c} : Travelled(d)
  BY DEF TravelTo
<1> DEFINE way == [id |-> <<"journey", place, canon.clock>>,
                                    from |-> canon.player, to |-> place,
                                    minutes |-> plan.cost, risk |-> plan.risk,
                                    planned |-> TRUE]
<1>2. WayFits(canon, way)
  <2>1. ~ Shell(canon, place)
    BY DEF TravelTo, Shell, WorldInv, CanonFit, PlacesFit
  <2>2. plan.cost \in Nat /\ canon.player \in DOMAIN canon.places
    BY WorldConstants DEF WorldInv, CanonFit, PlacesFit
  <2> QED BY <2>1, <2>2 DEF WayFits
<1>3. \E c \in Travels(canon, way) : \E d \in Filled(c) \cup {c} : Travelled(d)
  BY <1>1
<1> HIDE DEF way
<1>4. PICK c \in Travels(canon, way) : \E d \in Filled(c) \cup {c} : Travelled(d)
  BY <1>3
<1>5. PICK d \in Filled(c) \cup {c} : Travelled(d)
  BY <1>4
<1>6. CanonFit(c) /\ Walked(canon, c)
  BY <1>2, TravelsFit DEF WorldInv
<1>7. CanonFit(d) /\ Walked(canon, d)
  BY <1>6, FilledFits, WalkedOn DEF WorldInv
<1> QED BY <1>5, <1>7, TravelledKeeps

\* relocate_player.
LEMMA RelocateKeeps ==
  ASSUME WorldInv, NEW place \in DOMAIN canon.places, NEW minutes \in Amounts, RelocatePlayer(place, minutes)
  PROVE  WorldInv'
<1>1. minutes \in Nat
  BY WorldConstants
<1> DEFINE c == Relocated(canon, place, minutes)
<1>2. CanonFit(c) /\ Walked(canon, c)
  BY <1>1, RelocatedFit DEF RelocatePlayer, WorldInv
<1>3. Travelled(c)
  BY DEF RelocatePlayer
<1> HIDE DEF c
<1> QED BY <1>2, <1>3, TravelledKeeps

\* a tool that changes the ways of the canon and no clock
LEMMA QuietKeeps ==
  ASSUME WorldInv, NEW c, CanonFit(c), Walked(canon, c), Commit(c), Export, UNCHANGED <<time, cards, bag>>
  PROVE  WorldInv'
<1>1. c.at = canon.at /\ c.clock \in Nat /\ canon.clock \in Nat /\ canon.clock <= c.clock
  BY DEF Walked, Agree, CanonFit, WorldInv
<1>2. (CanonFit(canon) /\ RowsFit /\ SceneFit /\ ItemsFit)'
  BY <1>1, CommitHolds
<1>3. ClockFit'
  BY <1>1 DEF Commit, ClockFit, WorldInv
<1> QED BY <1>2, <1>3 DEF WorldInv

\* create_passage.
LEMMA CreatePassageKeeps ==
  ASSUME WorldInv, NEW from \in DOMAIN canon.places, NEW to \in DOMAIN canon.places, CreatePassage(from, to)
  PROVE  WorldInv'
<1> DEFINE passage == <<"passage", from, to>>
<1>1. PICK dir \in Directions, profile \in Profiles :
        /\ CanCreatePassage(canon, passage, from, to, dir, profile)
        /\ Commit(PassageCreated(canon, passage, from, to, dir, profile))
        /\ UNCHANGED <<time, cards, bag>>
        /\ Export
  BY DEF CreatePassage
<1> DEFINE c == PassageCreated(canon, passage, from, to, dir, profile)
<1> HIDE DEF passage
<1>2. CanonFit(c) /\ Walked(canon, c)
  BY <1>1, PassageCreatedFit DEF WorldInv
<1>3. Commit(c)
  BY <1>1
<1> HIDE DEF c
<1> QED BY <1>1, <1>2, <1>3, QuietKeeps

\* set_passage_state.
LEMMA SetPassageKeeps ==
  ASSUME WorldInv, NEW e \in DOMAIN canon.edges, NEW open \in BOOLEAN, SetPassageState(e, open)
  PROVE  WorldInv'
<1> DEFINE c == PassageSet(canon, e, open)
<1>1. CanonFit(c) /\ Walked(canon, c)
  BY PassageSetFit DEF WorldInv
<1>2. Commit(c) /\ Export /\ UNCHANGED <<time, cards, bag>>
  BY DEF SetPassageState
<1> HIDE DEF c
<1> QED BY <1>1, <1>2, QuietKeeps

\* advance_time: the canon's clock is set to the world's, which it never trails.
LEMMA AdvanceTimeKeeps ==
  ASSUME WorldInv, NEW minutes \in Amounts, AdvanceTime(minutes)
  PROVE  WorldInv'
<1> DEFINE later == time + minutes
           c == [canon EXCEPT !.clock = later]
<1>1. later \in Nat
  BY WorldConstants DEF WorldInv, ClockFit
<1>2. time' = later /\ Commit(c) /\ UNCHANGED <<rows, cards, bag>>
  BY DEF AdvanceTime
<1> HIDE DEF later
<1>3. Agree(canon, c, CanonFields \ {"clock"}) /\ c.clock = later
  BY DEF Agree, CanonFields, WorldInv, CanonFit
<1>4. CanonFit(c)
  BY <1>1, <1>3, SameClockFit DEF WorldInv, Agree
<1>5. c.at = canon.at
  BY <1>3 DEF Agree, CanonFields
<1> HIDE DEF c
<1>6. canon' = c /\ scene' = RefreshedScene(c, scene) /\ stash' = RefreshedStash(c, scene)
  BY <1>2 DEF Commit
<1>7. ItemsFit'
  BY <1>2, <1>6, RefreshItems DEF WorldInv, ItemsFit
<1>8. SceneFit'
  BY <1>6, CommitScene DEF SceneFit
<1>9. RowsFit'
  BY <1>2, <1>5, <1>6 DEF RowsFit, RowFit, WorldInv
<1>10. ClockFit'
  BY <1>1, <1>2, <1>3, <1>6 DEF ClockFit
<1> QED BY <1>4, <1>6, <1>7, <1>8, <1>9, <1>10 DEF WorldInv

\* A tool that writes canon, scene and rows, once the rows fit.
LEMMA RewriteCore ==
  ASSUME WorldInv, NEW c, CanonFit(c), c.clock = canon.clock, canon' = c,
         NEW s, Good(s.items), scene' = RefreshedScene(c, s), stash' = RefreshedStash(c, s),
         DOMAIN cards' = DOMAIN c.at, RowsOf(c, rows', DOMAIN cards'),
         UNCHANGED <<time, bag>>
  PROVE  WorldInv'
<1> USE DEF WorldInv
<1>1. scene' = View(c, scene'.items)
  BY CommitScene
<1>2. ItemsFit'
  BY RefreshItems
<1>4. RowsFit'
  BY DEF RowsFit, RowsOf
<1> QED BY <1>1, <1>2, <1>4 DEF SceneFit, ClockFit

\* The same, with the rows that ensure_npc_whereabouts leaves.
LEMMA RewriteHolds ==
  ASSUME WorldInv, NEW c, CanonFit(c), c.clock = canon.clock, canon' = c,
         NEW s, Good(s.items), scene' = RefreshedScene(c, s), stash' = RefreshedStash(c, s),
         NEW r, rows' = Ensured(r, scene', DOMAIN cards'), DOMAIN cards' = DOMAIN c.at,
         Ready(c, scene', r, DOMAIN cards'),
         UNCHANGED <<time, bag>>
  PROVE  WorldInv'
<1>1. Seen(c, scene')
  BY CommitScene DEF ActorsAt, Seen
<1>2. RowsOf(c, rows', DOMAIN cards')
  BY <1>1, EnsuredFits
<1> QED BY <1>2, RewriteCore

\* the rows at the start of a tool
LEMMA EnsuredNow ==
  ASSUME WorldInv
  PROVE  RowsOf(canon, Ensured(rows, scene, DOMAIN cards), DOMAIN cards)
<1>1. Ready(canon, scene, rows, DOMAIN cards)
  BY DEF WorldInv, RowsFit, Ready
<1>2. Seen(canon, scene)
  BY DEF WorldInv, SceneFit, View, ActorsAt, Seen
<1> QED BY <1>1, <1>2, EnsuredFits

\* An actor is moved and its row written, and the two agree.
LEMMA ActorToolHolds ==
  ASSUME WorldInv, NEW a \in DOMAIN cards, NEW place \in DOMAIN canon.places \cup {None},
         NEW row, DOMAIN row = {"at", "status"}, row.status # "unknown" => row.at = place,
         Commit(ActorMoved(canon, a, place)),
         rows' = Ensured([Ensured(rows, scene, DOMAIN cards) EXCEPT ![a] = row], scene', DOMAIN cards),
         UNCHANGED <<time, cards, bag>>
  PROVE  WorldInv'
<1> DEFINE c == ActorMoved(canon, a, place)
           q == Ensured(rows, scene, DOMAIN cards)
           r == [q EXCEPT ![a] = row]
<1>1. DOMAIN q = DOMAIN cards /\ \A b \in DOMAIN cards : RowFit(canon, b, q[b])
  BY EnsuredNow DEF RowsOf
<1>5. DOMAIN cards = DOMAIN canon.at /\ a \in DOMAIN canon.at /\ CanonFit(canon)
  BY DEF WorldInv, RowsFit
<1>4. canon' = c /\ scene' = RefreshedScene(c, scene) /\ stash' = RefreshedStash(c, scene)
  BY DEF Commit
<1>10. c = ActorMoved(canon, a, place)
  OBVIOUS
<1> HIDE DEF c
<1>2. /\ CanonFit(c)
      /\ Agree(canon, c, CanonFields \ {"at", "occ"})
      /\ c.at = [canon.at EXCEPT ![a] = place]
  <2>1. a \in DOMAIN canon.at /\ CanonFit(canon) /\ place \in DOMAIN canon.places \cup {None}
    BY <1>5
  <2>2. CanonFit(c)
    BY <1>10, <2>1, ActorMovedFit
  <2>3. Agree(canon, c, CanonFields \ {"at", "occ"})
    BY <1>10, <2>1, ActorMovedFit
  <2>4. c.at = [canon.at EXCEPT ![a] = place]
    BY <1>10, <2>1, ActorMovedFit
  <2> QED BY <2>2, <2>3, <2>4
<1>3. c.clock = canon.clock
  BY <1>2 DEF Agree, CanonFields
<1>6. rows' = Ensured(r, scene', DOMAIN cards)
  OBVIOUS
<1> HIDE DEF c, q
<1>7. \A b \in DOMAIN cards : RowFit(c, b, r[b])
  <2>1. \A b \in DOMAIN cards \ {a} : r[b] = q[b] /\ c.at[b] = canon.at[b]
    BY <1>1, <1>2, <1>5
  <2>2. r[a] = row /\ c.at[a] = place
    BY <1>1, <1>2, <1>5
  <2> HIDE DEF r
  <2> QED BY <1>1, <2>1, <2>2 DEF RowFit
<1> HIDE DEF r
<1>8. Good(scene.items)
  BY DEF WorldInv, ItemsFit
<1>9. Ready(c, scene', r, DOMAIN cards)
  BY <1>7 DEF Ready
<1> QED BY <1>9, <1>2, <1>3, <1>4, <1>5, <1>6, <1>7, <1>8, RewriteHolds

\* move_npc.
LEMMA MoveNpcKeeps ==
  ASSUME WorldInv, NEW a, NEW present \in BOOLEAN, NEW place \in DOMAIN canon.places \cup {None},
         MoveNpc(a, present, place)
  PROVE  WorldInv'
<1> DEFINE seen == IF present THEN scene.present \cup {a} ELSE scene.present \ {a}
           row == IF present THEN [at |-> scene.place, status |-> "present"]
                  ELSE [at |-> place,
                        status |-> IF place = None THEN "unknown" ELSE "known"]
           to == IF a \in seen THEN canon.player
               ELSE IF row.at \in DOMAIN canon.places THEN row.at ELSE None
<1>1. /\ a \in DOMAIN cards /\ Commit(ActorMoved(canon, a, to))
      /\ rows' = Ensured([Ensured(rows, scene, DOMAIN cards) EXCEPT ![a] = row], scene', DOMAIN cards)
      /\ UNCHANGED <<time, cards, bag>>
  BY DEF MoveNpc, Synced
<1>2. DOMAIN row = {"at", "status"}
  OBVIOUS
<1>3. canon.player \in DOMAIN canon.places /\ scene.place = canon.player
  BY DEF WorldInv, CanonFit, PlacesFit, SceneFit, View
<1>4. to \in DOMAIN canon.places \cup {None}
  BY <1>3
<1>5. row.status # "unknown" => row.at = to
  BY <1>3
<1> HIDE DEF row, to, seen
<1> QED BY <1>1, <1>2, <1>4, <1>5, ActorToolHolds

\* set_npc_whereabouts.
LEMMA SetNpcKeeps ==
  ASSUME WorldInv, NEW a, NEW place \in DOMAIN canon.places \cup {None},
         SetNpcWhereabouts(a, place)
  PROVE  WorldInv'
<1> DEFINE row == IF a \in scene.present
                  THEN [at |-> scene.place, status |-> "present"]
                  ELSE [at |-> place,
                        status |-> IF place = None THEN "unknown" ELSE "known"]
           to == IF a \in scene.present THEN canon.player
               ELSE IF row.at \in DOMAIN canon.places THEN row.at ELSE None
<1>1. /\ a \in DOMAIN cards /\ Commit(ActorMoved(canon, a, to))
      /\ rows' = Ensured([Ensured(rows, scene, DOMAIN cards) EXCEPT ![a] = row], scene', DOMAIN cards)
      /\ UNCHANGED <<time, cards, bag>>
  BY DEF SetNpcWhereabouts, Synced
<1>2. DOMAIN row = {"at", "status"}
  OBVIOUS
<1>3. canon.player \in DOMAIN canon.places /\ scene.place = canon.player
  BY DEF WorldInv, CanonFit, PlacesFit, SceneFit, View
<1>4. to \in DOMAIN canon.places \cup {None}
  BY <1>3
<1>5. row.status # "unknown" => row.at = to
  BY <1>3
<1> HIDE DEF row, to
<1> QED BY <1>1, <1>2, <1>4, <1>5, ActorToolHolds

\* generate_npc.
LEMMA GenerateNpcKeeps ==
  ASSUME WorldInv, NEW a, NEW present \in BOOLEAN, NEW home, GenerateNpc(a, present, home)
  PROVE  WorldInv'
<1> DEFINE place == IF present THEN canon.player ELSE home
           hidden == ~ present /\ place = canon.player
           made == ActorCreated(canon, a, place, TRUE)
           known == DOMAIN cards \cup {a}
           row == [at |-> None, status |-> "known"]
           q == Ensured(rows, scene, known)
           c == IF hidden THEN ActorMoved(made, a, None) ELSE made
<1>1. /\ a \notin DOMAIN canon.at \cup DOMAIN cards
      /\ place \in DOMAIN canon.places
      /\ Commit(c)
      /\ cards' = Inserted(cards, a, "alive")
      /\ UNCHANGED <<time, bag>>
  BY DEF GenerateNpc
<1>2. rows' = IF hidden THEN Ensured([q EXCEPT ![a] = row], scene', known) ELSE q
  BY DEF GenerateNpc
<1> HIDE DEF place
<1>3. /\ CanonFit(made)
      /\ Agree(canon, made, CanonFields \ {"at", "occ", "alive"})
      /\ made.at = Inserted(canon.at, a, place)
  BY <1>1, ActorCreatedFit DEF WorldInv
<1> HIDE DEF made
<1>4. /\ DOMAIN made.at = DOMAIN canon.at \cup {a}
      /\ \A b \in DOMAIN canon.at : made.at[b] = canon.at[b]
  BY <1>1, <1>3 DEF Inserted
<1>5. made.clock = canon.clock
  BY <1>3 DEF Agree, CanonFields
<1>6. DOMAIN cards' = known /\ known = DOMAIN made.at
  BY <1>1, <1>4 DEF Inserted, WorldInv, RowsFit
<1>7. RowsOf(made, q, known)
  <2>1. Seen(made, scene)
    BY <1>4 DEF WorldInv, SceneFit, View, ActorsAt, Seen
  <2>2. Ready(made, scene, rows, known)
    BY <1>4 DEF WorldInv, RowsFit, RowFit, Ready
  <2> QED BY <2>1, <2>2, EnsuredFits
<1> HIDE DEF q, known
<1>8. Good(scene.items)
  BY DEF WorldInv, ItemsFit
<1>9. CASE hidden
  <2> DEFINE r == [q EXCEPT ![a] = row]
  <2>1. a \in DOMAIN made.at
    BY <1>4
  <2>2. /\ CanonFit(c)
        /\ Agree(made, c, CanonFields \ {"at", "occ"})
        /\ c.at = [made.at EXCEPT ![a] = None]
    BY <1>3, <1>9, <2>1, ActorMovedFit
  <2>3. c.clock = canon.clock
    BY <1>5, <2>2 DEF Agree, CanonFields
  <2>4. canon' = c /\ scene' = RefreshedScene(c, scene) /\ stash' = RefreshedStash(c, scene)
    BY <1>1 DEF Commit
  <2>5. DOMAIN cards' = DOMAIN c.at
    BY <1>6, <2>2
  <2> HIDE DEF c
  <2>6. rows' = Ensured(r, scene', DOMAIN cards')
    BY <1>2, <1>6, <1>9
  <2>7. Ready(c, scene', r, DOMAIN cards')
    <3>1. \A b \in known \ {a} : r[b] = q[b] /\ c.at[b] = made.at[b]
      BY <1>6, <1>7, <2>2 DEF RowsOf
    <3>2. a \in known => r[a] = row /\ c.at[a] = None
      BY <1>6, <1>7, <2>2 DEF RowsOf
    <3> HIDE DEF r
    <3>3. DOMAIN row = {"at", "status"} /\ row.at = None
      OBVIOUS
    <3>4. ASSUME NEW b \in known PROVE RowFit(c, b, r[b])
      <4>1. CASE b = a
        BY <3>2, <3>3, <4>1 DEF RowFit
      <4>2. CASE b # a
        BY <1>7, <3>1, <4>2 DEF RowFit, RowsOf
      <4> QED BY <4>1, <4>2
    <3> QED BY <1>6, <3>4 DEF Ready
  <2> HIDE DEF r
  <2> QED BY <1>1, <1>8, <2>2, <2>3, <2>4, <2>5, <2>6, <2>7, RewriteHolds
<1>10. CASE ~ hidden
  <2>1. c = made
    BY <1>10
  <2>2. canon' = c /\ scene' = RefreshedScene(c, scene) /\ stash' = RefreshedStash(c, scene)
    BY <1>1 DEF Commit
  <2> HIDE DEF c, hidden
  <2> QED BY <1>1, <1>2, <1>3, <1>5, <1>6, <1>7, <1>8, <1>10, <2>1, <2>2, RewriteCore
<1> QED BY <1>9, <1>10

\* set_scene.
LEMMA SetSceneKeeps ==
  ASSUME WorldInv, NEW listed, NEW items \in SeedItems, SetScene(listed, items)
  PROVE  WorldInv'
<1> DEFINE c == Staged(listed)
           s == [scene EXCEPT !.items = items]
           q == Ensured(rows, scene, DOMAIN cards)
           r == [a \in DOMAIN cards |-> IF a \in listed
                           THEN [at |-> canon.player, status |-> "present"] ELSE q[a]]
<1>1. /\ listed \subseteq DOMAIN cards
      /\ canon' = c /\ scene' = RefreshedScene(c, s) /\ stash' = RefreshedStash(c, s)
      /\ rows' = Ensured(r, scene', DOMAIN cards)
      /\ UNCHANGED <<time, cards, bag>>
  BY DEF SetScene
<1>2. listed \subseteq DOMAIN canon.at /\ DOMAIN cards = DOMAIN canon.at
  BY <1>1 DEF WorldInv, RowsFit
<1>3. /\ CanonFit(c)
      /\ Agree(canon, c, {"player", "clock", "alive", "edges"})
      /\ c.at = [a \in DOMAIN canon.at |-> IF a \in listed THEN canon.player ELSE canon.at[a]]
  BY <1>2, StagedFit DEF WorldInv
<1>4. c.clock = canon.clock
  BY <1>3 DEF Agree
<1>5. s.items = items /\ Good(s.items)
  BY WorldConstants DEF Good, WorldInv, SceneFit, View
<1>6. DOMAIN q = DOMAIN cards /\ \A a \in DOMAIN cards : RowFit(canon, a, q[a])
  BY EnsuredNow DEF RowsOf
<1> HIDE DEF c, q, s
<1>7. Ready(c, scene', r, DOMAIN cards)
  BY <1>2, <1>3, <1>6 DEF RowFit, Ready
<1> HIDE DEF r
<1> QED BY <1>1, <1>2, <1>3, <1>4, <1>5, <1>7, RewriteHolds

\* World::set_scene behind the debug patch.
LEMMA PatchSceneKeeps ==
  ASSUME WorldInv, NEW listed, NEW items \in SeedItems, PatchScene(listed, items)
  PROVE  WorldInv'
<1> DEFINE gone == ActorsAt(canon, canon.player) \ listed
           s0 == Staged(listed)
           c == [s0 EXCEPT
                    !.alive = [a \in DOMAIN @ |-> @[a] \/ a \in listed],
                    !.at = [a \in DOMAIN @ |-> IF a \in gone THEN None ELSE @[a]],
                    !.occ[s0.player] = @ \ gone]
           s == [scene EXCEPT !.items = items]
           q == Ensured(rows, scene, DOMAIN cards)
           r == [a \in DOMAIN cards |->
                                 IF a \in gone
                                 THEN [at |-> canon.player, status |-> "unknown"]
                                 ELSE q[a]]
<1>1. /\ listed \subseteq DOMAIN cards
      /\ canon' = c /\ scene' = View(c, items) /\ stash' = stash
      /\ rows' = Ensured(r, scene', DOMAIN cards)
      /\ UNCHANGED <<time, cards, bag>>
  BY DEF PatchScene
<1>2. listed \subseteq DOMAIN canon.at /\ DOMAIN cards = DOMAIN canon.at
  BY <1>1 DEF WorldInv, RowsFit
<1>3. s.items = items /\ Good(s.items) /\ s.place = canon.player
  BY WorldConstants DEF Good, WorldInv, SceneFit, View
<1>4. DOMAIN q = DOMAIN cards /\ \A a \in DOMAIN cards : RowFit(canon, a, q[a])
  BY EnsuredNow DEF RowsOf
<1> HIDE DEF s0, gone
<1>10. c = Patched(s0, listed, gone)
  BY DEF Patched
<1>11. s0 = Staged(listed) /\ gone = ActorsAt(canon, canon.player) \ listed
  BY DEF s0, gone
<1> HIDE DEF c
<1>5. /\ CanonFit(c)
      /\ listed \subseteq ActorsAt(c, c.player)
      /\ Agree(canon, c, {"player", "clock", "edges"})
      /\ c.at = [a \in DOMAIN canon.at |-> IF a \in gone THEN None
                       ELSE IF a \in listed THEN canon.player ELSE canon.at[a]]
  BY <1>2, <1>10, <1>11, PatchedFit DEF WorldInv
<1>6. c.clock = canon.clock /\ c.player = canon.player
  BY <1>5 DEF Agree
<1> HIDE DEF s, q
<1>7. scene' = RefreshedScene(c, s) /\ stash' = RefreshedStash(c, s)
  BY <1>1, <1>3, <1>6 DEF RefreshedScene, RefreshedStash
<1>8. listed \subseteq scene'.present
  BY <1>1, <1>5 DEF View
<1>9. ASSUME NEW a \in DOMAIN cards, a \notin scene'.present
      PROVE  RowFit(c, a, r[a])
  <2>1. CASE a \in gone
    BY <2>1 DEF RowFit
  <2>2. CASE a \notin gone
    <3>1. r[a] = q[a] /\ c.at[a] = canon.at[a]
      BY <1>2, <1>5, <1>8, <1>9, <2>2
    <3> QED BY <1>4, <3>1 DEF RowFit
  <2> QED BY <2>1, <2>2
<1> HIDE DEF r
<1>12. Ready(c, scene', r, DOMAIN cards)
  BY <1>9 DEF Ready
<1> QED BY <1>1, <1>2, <1>3, <1>5, <1>6, <1>7, <1>12, RewriteHolds

\* update_npc.
LEMMA UpdateNpcKeeps ==
  ASSUME WorldInv, NEW a, NEW life, UpdateNpc(a, life)
  PROVE  WorldInv'
<1>1. DOMAIN cards' = DOMAIN cards
  BY DEF UpdateNpc
<1> QED BY <1>1 DEF UpdateNpc, WorldInv, RowsFit, SceneFit, ItemsFit, ClockFit

\* A tool on the items of the scene alone.
LEMMA ItemToolHolds ==
  ASSUME WorldInv, NEW items, Good(items), scene' = [scene EXCEPT !.items = items],
         UNCHANGED <<canon, time, stash, cards>>, bag' \subseteq Heads, Export
  PROVE  WorldInv'
<1> USE DEF WorldInv
<1>1. scene' = View(canon, items) /\ scene'.items = items
  BY DEF SceneFit, View
<1>2. Seen(canon, scene')
  BY <1>1 DEF View, ActorsAt, Seen
<1>3. Ready(canon, scene', rows, DOMAIN cards)
  BY DEF RowsFit, Ready
<1>4. rows' = Ensured(rows, scene', DOMAIN cards)
  BY DEF Export
<1>5. RowsOf(canon, rows', DOMAIN cards)
  BY <1>2, <1>3, <1>4, EnsuredFits
<1>6. RowsFit'
  BY <1>5 DEF RowsFit, RowFit, RowsOf
<1>7. SceneFit' /\ ItemsFit' /\ ClockFit'
  BY <1>1 DEF SceneFit, ItemsFit, ClockFit, Good
<1> QED BY <1>6, <1>7

\* take_item.
LEMMA TakeItemKeeps ==
  ASSUME WorldInv, NEW item \in scene.items, TakeItem(item)
  PROVE  WorldInv'
<1> DEFINE items == scene.items \ {item}
<1>1. Good(items) /\ item.head \in Heads
  BY FS_RemoveElement DEF WorldInv, ItemsFit, Good
<1>2. /\ scene' = [scene EXCEPT !.items = items] /\ UNCHANGED <<canon, time, stash, cards>>
      /\ Export /\ bag' = bag \cup {item.head}
  BY DEF TakeItem
<1>3. bag' \subseteq Heads
  BY <1>1, <1>2 DEF WorldInv, ItemsFit
<1> HIDE DEF items
<1> QED BY <1>1, <1>2, <1>3, ItemToolHolds

\* drop_item.
LEMMA DropItemKeeps ==
  ASSUME WorldInv, NEW head \in bag, DropItem(head)
  PROVE  WorldInv'
<1> DEFINE used == {item.id : item \in scene.items}
           id == CHOOSE n \in 1 .. Cardinality(used) + 1 : n \notin used
           dropped == [head |-> head, id |-> id]
           items == scene.items \cup {dropped}
<1>1. /\ scene' = [scene EXCEPT !.items = items] /\ UNCHANGED <<canon, time, stash, cards>>
      /\ Export /\ bag' = bag \ {head}
  BY DEF DropItem
<1> HIDE DEF id
<1>2. dropped.head \in Heads
  BY DEF WorldInv, ItemsFit
<1> HIDE DEF dropped
<1>3. Good(items)
  BY <1>2, FS_AddElement DEF WorldInv, ItemsFit, Good
<1>4. bag' \subseteq Heads
  BY <1>1 DEF WorldInv, ItemsFit
<1> HIDE DEF items
<1> QED BY <1>1, <1>3, <1>4, ItemToolHolds

-----------------------------------------------------------------------------
(* The start, and the theorem. *)

\* The canon of an opening scene is sound.
LEMMA SceneSeed ==
  ASSUME NEW place \in Rooms, NEW exits, NEW people, NEW c, c = FromScene(place, exits, people)
  PROVE  CanonFit(c)
<1>1. /\ DOMAIN c = CanonFields
      /\ c.player = place /\ c.clock = 0
      /\ c.places = [p \in {place} |-> [visited |-> TRUE, shell |-> FALSE, filled |-> TRUE]]
      /\ c.occ = [p \in {place} |-> people]
      /\ c.at = [a \in people |-> place]
      /\ c.alive = [a \in people |-> TRUE]
      /\ c.edges = [e \in {<<"scene", x>> : x \in exits} |->
                         [from |-> place, to |-> None, passage |-> None,
                                dir |-> "unset", cost |-> 0, risk |-> "unset",
                                open |-> TRUE, made |-> FALSE]]
  BY DEF FromScene, CanonFields
<1>2. PlacesFit(c)
  BY <1>1 DEF PlacesFit, PlaceFields
<1>3. PeopleFit(c)
  BY <1>1 DEF PeopleFit
<1>4. EdgesFit(c)
  BY <1>1 DEF EdgesFit, EdgeFit, EdgeFields
<1> QED BY <1>1, <1>2, <1>3, <1>4 DEF CanonFit

\* The canon of the world generator is sound.
LEMMA WorldgenSeed ==
  ASSUME NEW start \in Rooms, NEW other \in Rooms \ {start}, NEW profile, profile.cost \in Nat,
         NEW c, c = FromWorldgen(start, other, profile)
  PROVE  CanonFit(c)
<1> DEFINE s == FromScene(start, {}, {})
           places == Inserted(s.places, other, [visited |-> FALSE, shell |-> TRUE, filled |-> TRUE])
           occ == Inserted(s.occ, other, {})
           d == [s EXCEPT !.places = places, !.occ = occ]
           passage == <<"link", start, other>>
           go == Edge(start, other, passage, "two", profile, FALSE)
           come == Edge(other, start, passage, "two", profile, FALSE)
           there == InsertedOnce(d.edges, <<"way", start, other>>, go)
           edges == InsertedOnce(there, <<"way", other, start>>, come)
<1>1. c = [d EXCEPT !.edges = edges]
  BY DEF FromWorldgen, LinkTwoWay
<1>2. /\ CanonFit(s) /\ s.player = start /\ DOMAIN s.places = {start} /\ s.edges = [e \in {} |-> 0]
  <2>1. CanonFit(s)
    BY SceneSeed
  <2> QED BY <2>1 DEF FromScene
<1> HIDE DEF s
<1>3. DOMAIN places = {start, other} /\ places[start] = s.places[start]
      /\ places[other] = [visited |-> FALSE, shell |-> TRUE, filled |-> TRUE]
  BY <1>2 DEF Inserted
<1>4. DOMAIN occ = {start, other} /\ occ[start] = s.occ[start] /\ occ[other] = {}
  BY <1>2 DEF Inserted, CanonFit, PeopleFit
<1> HIDE DEF places, occ
<1>5. /\ DOMAIN d = CanonFields
      /\ d.player = s.player /\ d.clock = s.clock /\ d.places = places /\ d.occ = occ
      /\ d.at = s.at /\ d.alive = s.alive /\ d.edges = s.edges
  BY <1>2 DEF CanonFields, CanonFit
<1> HIDE DEF d
<1>6. other[1] # "site" /\ start[1] # "site"
  BY CanonConstants
<1>7. PlacesFit(d)
  <2>1. DOMAIN places[other] = PlaceFields /\ ~ places[other].visited
    BY <1>3 DEF PlaceFields
  <2> QED BY <1>2, <1>3, <1>5, <1>6, <2>1 DEF CanonFit, PlacesFit
<1>8. PeopleFit(d)
  BY <1>2, <1>3, <1>4, <1>5 DEF CanonFit, PeopleFit
<1>9. EdgesFit(d)
  BY <1>2, <1>5 DEF EdgesFit
<1>10. CanonFit(d)
  BY <1>2, <1>5, <1>7, <1>8, <1>9 DEF CanonFit
<1>11. EdgeFit(d, go) /\ EdgeFit(d, come)
  BY <1>3, <1>5 DEF EdgeFit, Edge, EdgeFields
<1> HIDE DEF go, come
<1>12. \A e \in DOMAIN edges : EdgeFit(d, edges[e])
  BY <1>2, <1>5, <1>11 DEF InsertedOnce, Inserted
<1> HIDE DEF edges
<1>13. Agree(d, c, CanonFields \ {"edges"}) /\ c.edges = edges
  BY <1>1, <1>5 DEF Agree, CanonFields
<1> QED BY <1>10, <1>12, <1>13, EdgesChangedFit

\* A game starts from a sound canon.
LEMMA SeedFit ==
  ASSUME NEW c \in Seeds
  PROVE  CanonFit(c)
<1>1. c.player \in Rooms /\ (OfScene(c) \/ OfWorldgen(c))
  BY SeedsAssumption
<1>2. CASE OfScene(c)
  BY <1>1, <1>2, SceneSeed DEF OfScene
<1>3. CASE OfWorldgen(c)
  <2>1. PICK other \in Rooms \ {c.player} :
          LET way == <<"way", c.player, other>> IN
          /\ c.edges[way].cost \in Nat
          /\ c = FromWorldgen(c.player, other, [cost |-> c.edges[way].cost, risk |-> c.edges[way].risk])
    BY <1>3 DEF OfWorldgen
  <2> DEFINE way == <<"way", c.player, other>>
             profile == [cost |-> c.edges[way].cost, risk |-> c.edges[way].risk]
  <2>2. profile.cost \in Nat /\ c = FromWorldgen(c.player, other, profile)
    BY <2>1
  <2> HIDE DEF profile
  <2> QED BY <1>1, <2>2, WorldgenSeed
<1> QED BY <1>1, <1>2, <1>3

\* The invariant holds at the start.
LEMMA InvStarts == Init => WorldInv
<1> SUFFICES ASSUME Init PROVE WorldInv
  OBVIOUS
<1>1. CanonFit(canon)
  BY SeedFit DEF Init
<1>2. PICK items \in SeedItems : scene = View(canon, items)
  BY DEF Init
<1>3. scene.items = items /\ SceneFit
  BY <1>2 DEF View, SceneFit
<1>4. ItemsFit
  BY <1>3, WorldConstants, FS_EmptySet DEF Init, ItemsFit, Good
<1>5. RowsFit
  <2>1. Seen(canon, scene)
    BY <1>2 DEF Seen, View, ActorsAt
  <2>2. Ready(canon, scene, << >>, DOMAIN cards)
    BY DEF Ready
  <2>3. rows = Ensured(<< >>, scene, DOMAIN cards) /\ DOMAIN cards = DOMAIN canon.at
    BY DEF Init
  <2>4. RowsOf(canon, rows, DOMAIN cards)
    BY <2>1, <2>2, <2>3, EnsuredFits
  <2> QED BY <2>3, <2>4 DEF RowsFit, RowsOf
<1>6. ClockFit
  BY <1>1 DEF Init, ClockFit, CanonFit
<1> QED BY <1>1, <1>3, <1>4, <1>5, <1>6 DEF WorldInv

\* The tools on places, ways and time; on characters; on the scene and the items.
Walks ==
    \/ \E e \in DOMAIN canon.edges : MovePlayer(e)
    \/ GenerateLocation
    \/ \E place \in DOMAIN canon.places : TravelTo(place)
    \/ \E place \in DOMAIN canon.places, minutes \in Amounts : RelocatePlayer(place, minutes)
    \/ \E from, to \in DOMAIN canon.places : CreatePassage(from, to)
    \/ \E e \in DOMAIN canon.edges, open \in BOOLEAN : SetPassageState(e, open)
    \/ \E minutes \in Amounts : AdvanceTime(minutes)

Casts ==
    \/ \E a \in Actors, present \in BOOLEAN, place \in DOMAIN canon.places \cup {None} :
           \/ MoveNpc(a, present, place)
           \/ SetNpcWhereabouts(a, place)
           \/ GenerateNpc(a, present, IF place = None THEN canon.player ELSE place)
    \/ \E a \in Actors, life \in {"alive", "dead"} : UpdateNpc(a, life)

Stages ==
    \/ \E listed \in SUBSET Actors :
           \/ \E items \in SeedItems : SetScene(listed, items)
           \/ \E items \in SeedItems : PatchScene(listed, items)
    \/ \E item \in scene.items : TakeItem(item)
    \/ \E head \in bag : DropItem(head)

\* The tools, in three groups.
LEMMA NextSplits == Next => Walks \/ Casts \/ Stages
BY DEF Next, Walks, Casts, Stages

\* generate_location.
LEMMA GenerateLocationKeeps ==
  ASSUME WorldInv, GenerateLocation
  PROVE  WorldInv'
<1>1. PICK route \in DOMAIN canon.edges \cup {None}, enter \in BOOLEAN,
       target \in DOMAIN canon.places \cup {None} :
        Generate([route |-> route, target |-> target, enter |-> enter])
  BY DEF GenerateLocation
<1> DEFINE r == [route |-> route, target |-> target, enter |-> enter]
<1>2. CreatorRequest(r)
  BY DEF CreatorRequest
<1>3. Generate(r)
  BY <1>1
<1> HIDE DEF r
<1> QED BY <1>2, <1>3, GenerateKeeps

\* Tools on places, ways and time keep the invariant.
LEMMA WalksKeep ==
  ASSUME WorldInv, Walks
  PROVE  WorldInv'
BY MovePlayerKeeps, GenerateLocationKeeps, TravelToKeeps, RelocateKeeps, CreatePassageKeeps,
   SetPassageKeeps, AdvanceTimeKeeps DEF Walks

\* Tools on characters keep it.
LEMMA CastsKeep ==
  ASSUME WorldInv, Casts
  PROVE  WorldInv'
BY MoveNpcKeeps, SetNpcKeeps, GenerateNpcKeeps, UpdateNpcKeeps DEF Casts

\* Tools on the scene and the items keep it.
LEMMA StagesKeep ==
  ASSUME WorldInv, Stages
  PROVE  WorldInv'
BY SetSceneKeeps, PatchSceneKeeps, TakeItemKeeps, DropItemKeeps DEF Stages

\* It is about the variables alone.
LEMMA StillKeeps ==
  ASSUME WorldInv, UNCHANGED vars
  PROVE  WorldInv'
BY DEF vars, WorldInv, RowsFit, RowFit, SceneFit, ItemsFit, ClockFit

(***************************************************************************)
(* The canon is sound, its copies agree with it and the items are items,   *)
(* after any tools in any order, whatever the creators answer.             *)
(***************************************************************************)
THEOREM WorldHolds == Spec => []WorldInv
<1>1. WorldInv /\ [Next]_vars => WorldInv'
  BY NextSplits, WalksKeep, CastsKeep, StagesKeep, StillKeeps
<1> QED BY InvStarts, <1>1, PTL DEF Spec

(***************************************************************************)
(* The scene, the rows and the world's clock agree with the canon: every   *)
(* tool brings by hand the copies it touches up to date.                   *)
(***************************************************************************)
THEOREM ViewsStayAgreed == Spec => []ViewsAgree
BY WorldHolds, InvAgrees, PTL

(***************************************************************************)
(* Every store of the world holds what it should.                          *)
(***************************************************************************)
THEOREM WorldStaysTyped == Spec => []WorldTypeOK
BY WorldHolds, InvAgrees, PTL

-----------------------------------------------------------------------------
(* Passages. *)

\* The edges of one passage are a pair that agrees.
Paired(E) ==
  \A e, o \in DOMAIN E :
     e # o /\ E[e].passage # None /\ E[e].passage = E[o].passage =>
        /\ E[e].dir = "two" /\ E[o].dir = "two"
        /\ E[e].from = E[o].to /\ E[e].to = E[o].from
        /\ E[e].cost = E[o].cost /\ E[e].risk = E[o].risk

\* An edge that is named for a passage carries it, an entry starts where its
\* name says, and a way back has the way there.
NameFits(E, e) ==
  e[1] \in {"fwd", "rev"} /\ e[2] # None =>
     /\ E[e].passage = e[2]
     /\ e[1] = "fwd" /\ e[2][1] = "entry" => E[e].from = e[2][2]
     /\ e[1] = "rev" => \E o \in DOMAIN E \ {e} : E[o].passage = e[2]
AllNamed(E) == \A e \in DOMAIN E : NameFits(E, e)

\* The passage of a road or of an exit has the edge that is named for it.
RootFits(E, passage) ==
  passage # None =>
     /\ passage[1] = "exit" => <<"fwd", passage>> \in DOMAIN E
     /\ passage[1] = "road" => passage \in DOMAIN E
Rooted(E) == \A e \in DOMAIN E : RootFits(E, E[e].passage)

Ways(E) == Paired(E) /\ AllNamed(E) /\ Rooted(E)

\* An edge whose passage no other edge has.
LEMMA AloneWays ==
  ASSUME NEW E, Ways(E), NEW k, k \notin DOMAIN E, NEW t,
         \A o \in DOMAIN E : E[o].passage # t.passage \/ t.passage = None,
         NEW F, F = Inserted(E, k, t), NameFits(F, k), RootFits(F, t.passage)
  PROVE  Ways(F)
<1>1. DOMAIN F = DOMAIN E \cup {k} /\ F[k] = t /\ \A x \in DOMAIN E : F[x] = E[x] /\ x # k
  BY DEF Inserted
<1>2. Paired(F)
  <2> SUFFICES ASSUME NEW e \in DOMAIN F, NEW o \in DOMAIN F,
                      e # o, F[e].passage # None, F[e].passage = F[o].passage
               PROVE  /\ F[e].dir = "two" /\ F[o].dir = "two"
                      /\ F[e].from = F[o].to /\ F[e].to = F[o].from
                      /\ F[e].cost = F[o].cost /\ F[e].risk = F[o].risk
    BY DEF Paired
  <2>1. e \in DOMAIN E /\ o \in DOMAIN E
    BY <1>1
  <2> QED BY <1>1, <2>1 DEF Ways, Paired
<1>3. AllNamed(F)
  <2>1. ASSUME NEW e \in DOMAIN E
        PROVE  NameFits(F, e)
    BY <1>1, <2>1 DEF Ways, AllNamed, NameFits
  <2> QED BY <1>1, <2>1 DEF AllNamed
<1>4. Rooted(F)
  <2>1. ASSUME NEW e \in DOMAIN E
        PROVE  RootFits(F, F[e].passage)
    BY <1>1, <2>1 DEF Ways, Rooted, RootFits
  <2> QED BY <1>1, <2>1 DEF Rooted
<1> QED BY <1>2, <1>3, <1>4 DEF Ways

\* A road to or from the site of a stop is an edge of its own.
LEMMA RoadWays ==
  ASSUME NEW E, Ways(E), NEW site, NEW to, NEW minutes, NEW risk,
         NEW F, F = InsertedOnce(E, RoadId(site, to), RoadEdge(site, to, minutes, risk))
  PROVE  Ways(F)
<1> DEFINE k == RoadId(site, to)
           t == RoadEdge(site, to, minutes, risk)
<1>1. k[1] = "road" /\ t.passage = k
  BY DEF RoadId, RoadEdge, Edge
<1>2. F = InsertedOnce(E, k, t)
  OBVIOUS
<1> HIDE DEF k, t
<1>3. CASE k \in DOMAIN E
  BY <1>2, <1>3 DEF InsertedOnce
<1>4. CASE k \notin DOMAIN E
  <2>1. F = Inserted(E, k, t)
    BY <1>2, <1>4 DEF InsertedOnce
  <2>2. \A o \in DOMAIN E : E[o].passage # t.passage \/ t.passage = None
    BY <1>1, <1>4 DEF Ways, Rooted, RootFits
  <2>3. NameFits(F, k)
    BY <1>1 DEF NameFits
  <2>4. RootFits(F, t.passage)
    BY <1>1, <2>1 DEF RootFits, Inserted
  <2> QED BY <1>4, <2>1, <2>2, <2>3, <2>4, AloneWays
<1> QED BY <1>3, <1>4

\* Travelling keeps the passages, stopped or not.
LEMMA TravelsWays ==
  ASSUME NEW c, CanonFit(c), Ways(c.edges), NEW way, WayFits(c, way), NEW d \in Travels(c, way)
  PROVE  Ways(d.edges)
<1> DEFINE stops == Situations(way.minutes, way.risk)
<1>1. (\E elapsed \in stops : d = Stopped(c, way, elapsed)) \/ d = Arrived(c, way)
  BY DEF Travels
<1> HIDE DEF stops
<1>2. CASE d = Arrived(c, way)
  BY <1>2, ArrivedFit
<1>3. ASSUME NEW elapsed \in stops, d = Stopped(c, way, elapsed)
      PROVE  Ways(d.edges)
  <2> DEFINE site == SiteOf(c, way, elapsed)
             onward == InsertedOnce(c.edges, RoadId(site, way.to),
                                    RoadEdge(site, way.to, way.minutes - elapsed, way.risk))
  <2>1. d.edges = InsertedOnce(onward, RoadId(site, way.from), RoadEdge(site, way.from, elapsed, way.risk))
    BY <1>3, StoppedIs DEF CanonFit
  <2>2. Ways(onward)
    BY RoadWays
  <2> HIDE DEF onward
  <2> QED BY <2>1, <2>2, RoadWays
<1> QED BY <1>1, <1>2, <1>3

\* So does a move that the validator lets through.
LEMMA MovesWays ==
  ASSUME NEW c, CanonFit(c), Ways(c.edges), NEW e, CanMove(c, e), NEW d \in Moves(c, e)
  PROVE  Ways(d.edges)
<1> DEFINE way == [id |-> e, from |-> c.edges[e].from, to |-> c.edges[e].to,
                minutes |-> c.edges[e].cost, risk |-> c.edges[e].risk,
                planned |-> FALSE]
<1>1. d \in Travels(c, way)
  BY DEF Moves
<1>2. WayFits(c, way)
  BY DEF WayFits, CanMove, CanonFit, EdgesFit, EdgeFit
<1> HIDE DEF way
<1> QED BY <1>1, <1>2, TravelsWays

\* An exit to somewhere not yet named is alone in its passage.
LEMMA HookedWays ==
  ASSUME NEW c, CanonFit(c), Ways(c.edges), NEW g, NEW place, NEW d, d = Hooked(c, g, place)
  PROVE  Ways(d.edges)
<1> DEFINE passage == <<"exit", place>>
           e == <<"fwd", passage>>
           t == Edge(place, None, passage, g.dir, g.profile, TRUE)
<1>1. d = IF g.hook /\ e \notin DOMAIN c.edges THEN Linked(c, e, t) ELSE c
  BY DEF Hooked
<1>2. /\ passage[1] = "exit" /\ e[1] = "fwd" /\ e[2] = passage /\ e = <<"fwd", passage>>
      /\ t.passage = passage
  BY DEF Edge
<1> HIDE DEF e, t, passage
<1>3. CASE g.hook /\ e \notin DOMAIN c.edges
  <2>1. d.edges = Inserted(c.edges, e, t)
    BY <1>1, <1>3, LinkedIs DEF CanonFit
  <2>2. \A o \in DOMAIN c.edges : c.edges[o].passage # t.passage \/ t.passage = None
    BY <1>2, <1>3 DEF Ways, Rooted, RootFits
  <2>3. d.edges[e] = t /\ DOMAIN d.edges = DOMAIN c.edges \cup {e}
    BY <2>1 DEF Inserted
  <2>4. NameFits(d.edges, e)
    BY <1>2, <2>3 DEF NameFits
  <2>5. RootFits(d.edges, t.passage)
    BY <1>2, <2>3 DEF RootFits
  <2> QED BY <1>3, <2>1, <2>2, <2>4, <2>5, AloneWays
<1>4. CASE ~ (g.hook /\ e \notin DOMAIN c.edges)
  BY <1>1, <1>4
<1> QED BY <1>3, <1>4

\* Two edges are the two sides of one passage.
Opposite(t, u) ==
  /\ t.dir = "two" /\ u.dir = "two"
  /\ t.from = u.to /\ t.to = u.from
  /\ t.cost = u.cost /\ t.risk = u.risk

\* F is E with the edges M, new ones or ones of the passage, carrying it.
Rewired(E, F, M, passage) ==
  /\ DOMAIN F = DOMAIN E \cup M
  /\ \A x \in DOMAIN E \ M : F[x] = E[x]
  /\ \A x \in M : F[x].passage = passage
  /\ \A x \in M : \A y \in M : x # y => Opposite(F[x], F[y])
  /\ \A x \in DOMAIN E : E[x].passage = passage => passage = None \/ x \in M
  /\ \A x \in DOMAIN E \cap M : E[x].passage \in {None, passage} /\ F[x].from = E[x].from
  /\ \A x \in M \ DOMAIN E : NameFits(F, x)

\* Passages stay paired when one of them is rewired.
LEMMA RewiredWays ==
  ASSUME NEW E, Ways(E), NEW F, NEW M, NEW passage,
         Rewired(E, F, M, passage), RootFits(F, passage)
  PROVE  Ways(F)
<1> USE DEF Rewired
<1>1. Paired(F)
  <2> SUFFICES ASSUME NEW e \in DOMAIN F, NEW o \in DOMAIN F,
                      e # o, F[e].passage # None, F[e].passage = F[o].passage
               PROVE  /\ F[e].dir = "two" /\ F[o].dir = "two"
                      /\ F[e].from = F[o].to /\ F[e].to = F[o].from
                      /\ F[e].cost = F[o].cost /\ F[e].risk = F[o].risk
    BY DEF Paired
  <2>1. CASE e \in M /\ o \in M
    BY <2>1 DEF Opposite
  <2>2. CASE e \notin M /\ o \notin M
    BY <2>2 DEF Ways, Paired
  <2>3. CASE (e \in M) # (o \in M)
    BY <2>3
  <2> QED BY <2>1, <2>2, <2>3
<1>2. \A x \in DOMAIN E : E[x].passage # None => F[x].passage = E[x].passage
  BY DEF Rewired
<1>3. AllNamed(F)
  <2>1. ASSUME NEW e \in DOMAIN E PROVE NameFits(F, e)
    <3>1. NameFits(E, e)
      BY DEF Ways, AllNamed
    <3>2. F[e].passage = E[e].passage \/ E[e].passage = None
      BY <1>2
    <3>3. e \in M \/ F[e] = E[e]
      OBVIOUS
    <3>4. F[e].from = E[e].from
      BY <3>3
    <3> QED BY <1>2, <3>1, <3>4 DEF NameFits
  <2> QED BY <2>1 DEF AllNamed
<1>4. Rooted(F)
  <2>1. ASSUME NEW e \in DOMAIN F PROVE RootFits(F, F[e].passage)
    <3>1. CASE e \in M
      BY <3>1
    <3>2. CASE e \notin M
      BY <3>2 DEF Ways, Rooted, RootFits
    <3> QED BY <3>1, <3>2
  <2> QED BY <2>1 DEF Rooted
<1> QED BY <1>1, <1>3, <1>4 DEF Ways

\* create_passage makes one edge, or the two sides of a passage.
LEMMA CreatedWays ==
  ASSUME NEW c, CanonFit(c), Ways(c.edges), NEW from, NEW to, NEW dir, NEW profile,
         NEW passage, passage = <<"passage", from, to>>,
         CanCreatePassage(c, passage, from, to, dir, profile),
         NEW d, d = PassageCreated(c, passage, from, to, dir, profile)
  PROVE  Ways(d.edges)
<1> DEFINE fwd == <<"fwd", passage>>
           rev == <<"rev", passage>>
           there == Edge(from, to, passage, dir, profile, TRUE)
           back == Edge(to, from, passage, dir, profile, TRUE)
           ways == Inserted(c.edges, fwd, there)
           edges == IF dir = "two" THEN Inserted(ways, rev, back) ELSE ways
           M == IF dir = "two" THEN {fwd, rev} ELSE {fwd}
<1>1. d.edges = edges
  BY DEF PassageCreated, CanonFit, CanonFields
<1>2. fwd \notin DOMAIN c.edges /\ rev \notin DOMAIN c.edges /\ Members(c, passage) = {}
  BY DEF CanCreatePassage
<1>3. fwd # rev /\ fwd[1] = "fwd" /\ fwd[2] = passage /\ rev[1] = "rev" /\ rev[2] = passage
  OBVIOUS
<1>4. there.passage = passage /\ back.passage = passage
  BY DEF Edge
<1>5. dir = "two" => Opposite(there, back) /\ Opposite(back, there)
  BY DEF Opposite, Edge
<1>6. passage[1] = "passage"
  OBVIOUS
<1> HIDE DEF fwd, rev, there, back
<1>7. DOMAIN ways = DOMAIN c.edges \cup {fwd} /\ ways[fwd] = there
      /\ \A x \in DOMAIN c.edges : ways[x] = c.edges[x]
  BY <1>2 DEF Inserted
<1> HIDE DEF ways
<1>8. /\ DOMAIN edges = DOMAIN c.edges \cup M
      /\ edges[fwd] = there
      /\ dir = "two" => edges[rev] = back
      /\ \A x \in DOMAIN c.edges : edges[x] = c.edges[x]
  <2>1. CASE dir = "two"
    BY <1>2, <1>3, <1>7, <2>1 DEF Inserted
  <2>2. CASE dir # "two"
    BY <1>7, <2>2
  <2> QED BY <2>1, <2>2
<1> HIDE DEF edges
<1>9. \A x \in M : x = fwd \/ (x = rev /\ dir = "two")
  OBVIOUS
<1>10. NameFits(edges, fwd) /\ (dir = "two" => NameFits(edges, rev))
  <2>1. NameFits(edges, fwd)
    BY <1>3, <1>4, <1>6, <1>8 DEF NameFits
  <2>2. dir = "two" => NameFits(edges, rev)
    BY <1>3, <1>4, <1>6, <1>8 DEF NameFits
  <2> QED BY <2>1, <2>2
<1>11. \A x \in DOMAIN c.edges : c.edges[x].passage # passage
  BY <1>2 DEF Members
<1>12. Rewired(c.edges, edges, M, passage)
  <2>1. DOMAIN c.edges \cap M = {}
    BY <1>2, <1>9
  <2>2. \A x \in M : edges[x].passage = passage
    BY <1>4, <1>8, <1>9
  <2>3. \A x \in M : \A y \in M : x # y => Opposite(edges[x], edges[y])
    BY <1>5, <1>8, <1>9
  <2>4. \A x \in M \ DOMAIN c.edges : NameFits(edges, x)
    BY <1>9, <1>10
  <2> QED BY <1>8, <1>11, <2>1, <2>2, <2>3, <2>4 DEF Rewired
<1>13. RootFits(edges, passage)
  BY <1>6 DEF RootFits
<1> QED BY <1>1, <1>12, <1>13, RewiredWays

\* What an edge carries once it is linked: what was asked for, from where an
\* existing edge started.
LEMMA LinkedEdges ==
  ASSUME NEW c, CanonFit(c), NEW e, NEW t, EdgeFit(c, t), NEW d, d = Linked(c, e, t)
  PROVE  /\ DOMAIN d.edges = DOMAIN c.edges \cup {e}
         /\ \A x \in DOMAIN c.edges \ {e} : d.edges[x] = c.edges[x]
         /\ d.edges[e].passage = t.passage /\ d.edges[e].dir = t.dir /\ d.edges[e].to = t.to
         /\ d.edges[e].cost = t.cost /\ d.edges[e].risk = t.risk
         /\ e \in DOMAIN c.edges => d.edges[e].from = c.edges[e].from
         /\ e \notin DOMAIN c.edges => d.edges[e].from = t.from
<1>1. d.edges = IF e \in DOMAIN c.edges
            THEN [c.edges EXCEPT ![e].passage = t.passage, ![e].dir = t.dir,
                       ![e].to = t.to, ![e].cost = t.cost, ![e].risk = t.risk]
            ELSE Inserted(c.edges, e, t)
  BY LinkedIs DEF CanonFit
<1>2. CASE e \in DOMAIN c.edges
  <2>1. DOMAIN d.edges = DOMAIN c.edges /\ \A x \in DOMAIN c.edges \ {e} : d.edges[x] = c.edges[x]
    BY <1>1, <1>2
  <2>2. d.edges[e] = [c.edges[e] EXCEPT !.passage = t.passage, !.dir = t.dir,
                       !.to = t.to, !.cost = t.cost, !.risk = t.risk]
    BY <1>1, <1>2
  <2>3. DOMAIN c.edges[e] = EdgeFields
    BY <1>2 DEF CanonFit, EdgesFit, EdgeFit
  <2> QED BY <1>2, <2>1, <2>2, <2>3 DEF EdgeFields
<1>3. CASE e \notin DOMAIN c.edges
  BY <1>1, <1>3 DEF Inserted
<1> QED BY <1>2, <1>3

\* The entry and its return way: an edge that carries the passage already is one
\* of the two, because the validator let the first of them in.
LEMMA EntryWays ==
  ASSUME NEW c, CanonFit(c), Ways(c.edges),
         NEW r, r.enter \in BOOLEAN, r.route \in DOMAIN c.edges \cup {None},
         NEW g \in Answers, NEW place, place \in Rooms \cup DOMAIN c.places,
         EntryAccepted(c, r, g, place),
         NEW d, d = EntryStaged(c, r, g, place)
  PROVE  Ways(d.edges)
<1> DEFINE c1 == PlaceCommitted(c, r, place)
           from == EntryFrom(c, r)
           P == Passage(c, r, place)
           fwd == Forward(c, r, place)
           there == EntryEdge(c, r, g, place)
           c2 == Linked(c1, fwd, there)
           back == ReturnEdge(c, r, g, place)
           rev == Back(c, r, place)
           B == Backs(c, r, place)
           E == c.edges
           M == IF g.dir = "two" THEN {fwd, rev} ELSE {fwd}
<1>1. LinkFits(c1, fwd, there) /\ from # place
  BY DEF EntryAccepted
<1>2. d = IF g.dir = "two" THEN Linked(c2, rev, back) ELSE c2
  BY DEF EntryStaged
<1>3. g.profile.cost \in Nat
  BY WorldConstants DEF Answers
<1>4. from \in DOMAIN c.places
  BY DEF EntryFrom, CanonFit, EdgesFit, EdgeFit, PlacesFit
<1>5. /\ there = Edge(from, place, P, g.dir, g.profile, TRUE)
      /\ back = Edge(place, from, P, g.dir, g.profile, TRUE)
  BY DEF EntryEdge, ReturnEdge
<1>6. /\ r.route # None => fwd = r.route /\ fwd \in DOMAIN E /\ from = E[fwd].from
      /\ r.route # None /\ E[fwd].passage # None => P = E[fwd].passage
      /\ r.route = None \/ E[fwd].passage = None => P = <<"entry", from, place>>
      /\ r.route = None => fwd = <<"fwd", P>>
  BY DEF Forward, Passage, EntryFrom
<1>7. B = {e \in DOMAIN E : E[e].from = place /\ E[e].to = from /\ E[e].passage = P}
  BY DEF Backs, Exits
<1>8. /\ B # {} => rev \in B
      /\ B = {} => rev = <<"rev", P>>
  BY DEF Back
<1> HIDE DEF c1
<1>9. CanonFit(c1) /\ Built(c, c1) /\ place \in DOMAIN c1.places /\ c1.edges = E
  BY PlaceCommittedFit DEF c1
<1> HIDE DEF fwd, there, c2, back, rev, from, P, B, E
<1>10. EdgeFit(c1, there) /\ EdgeFit(c1, back)
  BY <1>3, <1>4, <1>5, <1>9 DEF Edge, EdgeFit, EdgeFields, Built
<1>11. /\ there.passage = P /\ there.dir = g.dir /\ there.from = from /\ there.to = place
       /\ there.cost = g.profile.cost /\ there.risk = g.profile.risk
       /\ back.passage = P /\ back.dir = g.dir /\ back.from = place /\ back.to = from
       /\ back.cost = g.profile.cost /\ back.risk = g.profile.risk
  BY <1>5 DEF Edge
<1>12. CanonFit(c2) /\ c2.places = c1.places
  BY <1>9, <1>10, LinkedFit DEF c2
<1>13. P # None
       /\ \A o \in DOMAIN E : o # fwd /\ E[o].passage = P =>
             g.dir = "two" /\ E[o].from = place /\ E[o].to = from
  BY <1>1, <1>9, <1>11 DEF LinkFits, PassageFits, Explicit, Members
<1>14. \A o \in DOMAIN E : o # fwd /\ E[o].passage = P => g.dir = "two" /\ o \in B
  BY <1>7, <1>13
<1>15. Ways(E)
  BY DEF E
<1>16. fwd \in DOMAIN E => E[fwd].passage \in {None, P} /\ E[fwd].from = from
  <2>1. CASE r.route # None
    BY <1>6, <2>1
  <2>2. CASE r.route = None /\ fwd \in DOMAIN E
    <3>1. fwd = <<"fwd", P>> /\ P = <<"entry", from, place>>
      BY <1>6, <2>2
    <3>2. NameFits(E, fwd) /\ fwd[1] = "fwd" /\ fwd[2] = P /\ P[1] = "entry" /\ P[2] = from
      BY <1>15, <2>2, <3>1 DEF Ways, AllNamed
    <3> QED BY <1>13, <3>2 DEF NameFits
  <2> QED BY <2>1, <2>2
<1>17. DOMAIN c2.edges = DOMAIN E \cup {fwd}
       /\ (\A x \in DOMAIN E \ {fwd} : c2.edges[x] = E[x])
       /\ c2.edges[fwd].passage = P /\ c2.edges[fwd].dir = g.dir /\ c2.edges[fwd].to = place
       /\ c2.edges[fwd].cost = g.profile.cost /\ c2.edges[fwd].risk = g.profile.risk
       /\ c2.edges[fwd].from = from
  BY <1>9, <1>10, <1>11, <1>16, LinkedEdges DEF c2
<1>18. \A F : DOMAIN E \subseteq DOMAIN F => RootFits(F, P)
  <2>1. CASE r.route = None \/ E[fwd].passage = None
    <3>1. P[1] = "entry"
      BY <1>6, <2>1
    <3> QED BY <3>1 DEF RootFits
  <2>2. CASE r.route # None /\ E[fwd].passage # None
    <3>1. RootFits(E, P)
      BY <1>6, <1>15, <2>2 DEF Ways, Rooted
    <3> QED BY <3>1 DEF RootFits
  <2> QED BY <2>1, <2>2
<1>19. \A F : F[fwd].passage = P /\ F[fwd].from = from /\ fwd \notin DOMAIN E => NameFits(F, fwd)
  <2>1. CASE r.route # None
    BY <1>6, <2>1
  <2>2. CASE r.route = None
    <3>1. P = <<"entry", from, place>> /\ fwd = <<"fwd", P>>
      BY <1>6, <2>2
    <3>2. fwd[1] = "fwd" /\ fwd[2] = P /\ P[1] = "entry" /\ P[2] = from
      BY <3>1
    <3> QED BY <3>2 DEF NameFits
  <2> QED BY <2>1, <2>2
<1>20. CASE g.dir # "two"
  <2>1. d.edges = c2.edges
    BY <1>2, <1>20
  <2>2. Rewired(E, c2.edges, {fwd}, P)
    BY <1>14, <1>16, <1>17, <1>19, <1>20 DEF Rewired
  <2>3. RootFits(c2.edges, P)
    BY <1>17, <1>18
  <2> QED BY <1>15, <2>1, <2>2, <2>3, RewiredWays
<1>21. CASE g.dir = "two"
  <2>1. rev \in DOMAIN E => rev \in B
    <3> SUFFICES ASSUME rev \in DOMAIN E, B = {} PROVE FALSE
      BY <1>8
    <3>1. rev = <<"rev", P>> /\ NameFits(E, rev)
      BY <1>8, <1>15 DEF Ways, AllNamed
    <3>2. rev[1] = "rev" /\ rev[2] = P
      BY <3>1
    <3>3. E[rev].passage = P /\ \E o \in DOMAIN E \ {rev} : E[o].passage = P
      BY <1>13, <3>1, <3>2 DEF NameFits
    <3> QED BY <1>14, <3>3
  <2>2. rev \in DOMAIN E => E[rev].passage = P /\ E[rev].from = place /\ E[rev].to = from
    BY <1>7, <2>1
  <2>3. rev \notin DOMAIN E => rev = <<"rev", P>>
    BY <1>7, <1>8
  <2>4. rev # fwd
    <3>1. CASE rev \in DOMAIN E
      BY <1>1, <1>16, <2>2, <3>1
    <3>2. CASE rev \notin DOMAIN E
      BY <1>6, <2>3, <3>2
    <3> QED BY <3>1, <3>2
  <2>5. \A o \in DOMAIN E : o # fwd /\ E[o].passage = P => o = rev
    <3> SUFFICES ASSUME NEW o \in DOMAIN E, o # fwd, E[o].passage = P, o # rev PROVE FALSE
      OBVIOUS
    <3>1. o \in B /\ rev \in B
      BY <1>8, <1>14
    <3>2. E[o].from = place /\ E[rev].to = from /\ E[rev].passage = P /\ rev \in DOMAIN E
      BY <1>7, <3>1
    <3>3. E[o].from = E[rev].to
      BY <1>13, <1>15, <3>2 DEF Ways, Paired
    <3> QED BY <1>1, <3>2, <3>3
  <2> DEFINE F == d.edges
  <2>6. EdgeFit(c2, back)
    BY <1>10, <1>12 DEF EdgeFit
  <2>7. d = Linked(c2, rev, back)
    BY <1>2, <1>21
  <2>8. rev \in DOMAIN c2.edges <=> rev \in DOMAIN E
    BY <1>17, <2>4
  <2>9. DOMAIN F = DOMAIN c2.edges \cup {rev}
       /\ (\A x \in DOMAIN c2.edges \ {rev} : F[x] = c2.edges[x])
       /\ F[rev].passage = P /\ F[rev].dir = g.dir /\ F[rev].to = from
       /\ F[rev].cost = g.profile.cost /\ F[rev].risk = g.profile.risk
       /\ (rev \in DOMAIN c2.edges => F[rev].from = c2.edges[rev].from)
       /\ (rev \notin DOMAIN c2.edges => F[rev].from = place)
    BY <1>11, <1>12, <2>6, <2>7, LinkedEdges
  <2> HIDE DEF F
  <2>10. F[rev].from = place
    BY <1>17, <2>2, <2>4, <2>8, <2>9
  <2>11. F[fwd] = c2.edges[fwd]
    BY <1>17, <2>4, <2>9
  <2>12. Opposite(F[fwd], F[rev]) /\ Opposite(F[rev], F[fwd])
    BY <1>17, <1>21, <2>9, <2>10, <2>11 DEF Opposite
  <2>13. rev \notin DOMAIN E => NameFits(F, rev)
    <3> SUFFICES ASSUME rev \notin DOMAIN E PROVE NameFits(F, rev)
      OBVIOUS
    <3>1. rev[1] = "rev" /\ rev[2] = P
      BY <2>3
    <3>2. fwd \in DOMAIN F \ {rev} /\ F[fwd].passage = P
      BY <1>17, <2>4, <2>9, <2>11
    <3> QED BY <2>9, <3>1, <3>2 DEF NameFits
  <2>14. Rewired(E, F, {fwd, rev}, P)
    <3>1. DOMAIN F = DOMAIN E \cup {fwd, rev} /\ \A x \in DOMAIN E \ {fwd, rev} : F[x] = E[x]
      BY <1>17, <2>9
    <3>2. \A x \in {fwd, rev} : F[x].passage = P
      BY <1>17, <2>9, <2>11
    <3>3. \A x \in DOMAIN E \cap {fwd, rev} : E[x].passage \in {None, P} /\ F[x].from = E[x].from
      BY <1>16, <1>17, <2>2, <2>10, <2>11
    <3>4. \A x \in {fwd, rev} \ DOMAIN E : NameFits(F, x)
      BY <1>17, <1>19, <2>11, <2>13
    <3>5. \A x \in {fwd, rev} : \A y \in {fwd, rev} : x # y => Opposite(F[x], F[y])
      BY <2>12
    <3> QED BY <2>5, <3>1, <3>2, <3>3, <3>4, <3>5 DEF Rewired
  <2>15. RootFits(F, P)
    BY <1>17, <1>18, <2>9
  <2> QED BY <1>15, <2>14, <2>15, RewiredWays DEF F
<1> QED BY <1>20, <1>21

\* Whatever the creator answers, the passages are paired.
LEMMA CommitWays ==
  ASSUME NEW c, CanonFit(c), Ways(c.edges), NEW r, r.enter \in BOOLEAN, r.route \in DOMAIN c.edges \cup {None},
         r.target \in DOMAIN c.places \cup {None},
         NEW g \in Answers, NEW d \in CommitLocation(c, r, g)
  PROVE  Ways(d.edges)
<1> DEFINE enters == NeedsEntry(c, r)
           place == IF enters THEN Placed(c, r, g) ELSE r.target
           built == IF enters THEN EntryStaged(c, r, g, place) ELSE PlaceCommitted(c, r, place)
           staged == Hooked(built, g, place)
           fwd == Forward(c, r, place)
<1>1. ~ enters \/ EntryAccepted(c, r, g, place)
  BY DEF CommitLocation
<1>2. d = staged \/ (CanMove(staged, fwd) /\ d \in Moves(staged, fwd))
  BY DEF CommitLocation
<1>3. place \in Rooms \cup DOMAIN c.places
  <2>1. CASE ~ enters
    BY <2>1 DEF NeedsEntry, EntryFrom, CanonFit, PlacesFit, EdgesFit, EdgeFit
  <2>2. CASE enters
    BY <2>2 DEF Placed, Answers, CanonFit, EdgesFit, EdgeFit
  <2> QED BY <2>1, <2>2
<1> HIDE DEF place, enters, fwd
<1>4. CanonFit(built) /\ place \in DOMAIN built.places /\ Ways(built.edges)
  <2>1. CASE enters
    BY <1>1, <1>3, <2>1, EntryFits, EntryWays
  <2>2. CASE ~ enters
    BY <1>3, <2>2, PlaceCommittedFit
  <2> QED BY <2>1, <2>2
<1> HIDE DEF built
<1>5. CanonFit(staged) /\ Ways(staged.edges)
  BY <1>4, HookedFits, HookedWays
<1> HIDE DEF staged
<1> QED BY <1>2, <1>5, MovesWays

\* Filling the place of the player keeps the passages.
LEMMA FilledWays ==
  ASSUME NEW c, CanonFit(c), Ways(c.edges), NEW d \in Filled(c)
  PROVE  Ways(d.edges)
<1> DEFINE r == [route |-> None, target |-> c.player, enter |-> FALSE]
<1>1. d = c \/ \E g \in Answers : d \in CommitLocation(c, r, g)
  BY DEF Filled
<1>2. r.enter \in BOOLEAN /\ r.route \in DOMAIN c.edges \cup {None} /\ r.target \in DOMAIN c.places \cup {None}
  BY DEF CanonFit, PlacesFit
<1> HIDE DEF r
<1> QED BY <1>1, <1>2, CommitWays

\* Opening or closing a passage leaves its way.
LEMMA PassageSetWays ==
  ASSUME NEW c, CanonFit(c), Ways(c.edges), NEW e, NEW open, NEW d, d = PassageSet(c, e, open)
  PROVE  Ways(d.edges)
<1> DEFINE E == c.edges
           F == [x \in DOMAIN c.edges |-> IF c.edges[x].passage = c.edges[e].passage
                            THEN [c.edges[x] EXCEPT !.open = open] ELSE c.edges[x]]
<1>1. d.edges = F
  BY DEF PassageSet, CanonFit, CanonFields
<1>2. DOMAIN F = DOMAIN E
  OBVIOUS
<1>3. ASSUME NEW x \in DOMAIN E
      PROVE  /\ F[x].from = E[x].from /\ F[x].to = E[x].to /\ F[x].passage = E[x].passage
             /\ F[x].dir = E[x].dir /\ F[x].cost = E[x].cost /\ F[x].risk = E[x].risk
  <2>1. DOMAIN E[x] = EdgeFields
    BY DEF CanonFit, EdgesFit, EdgeFit
  <2>2. F[x] = E[x] \/ F[x] = [E[x] EXCEPT !.open = open]
    OBVIOUS
  <2> HIDE DEF F, E
  <2> QED BY <2>1, <2>2 DEF EdgeFields
<1> HIDE DEF F
<1>4. Paired(F)
  BY <1>2, <1>3 DEF Ways, Paired
<1>5. AllNamed(F)
  <2>1. ASSUME NEW x \in DOMAIN E PROVE NameFits(F, x)
    <3>1. NameFits(E, x)
      BY DEF Ways, AllNamed
    <3> QED BY <1>2, <1>3, <3>1 DEF NameFits
  <2> QED BY <1>2, <2>1 DEF AllNamed
<1>6. Rooted(F)
  BY <1>2, <1>3 DEF Ways, Rooted, RootFits
<1> QED BY <1>1, <1>4, <1>5, <1>6 DEF Ways

\* The inductive invariant of the passages.
WaysHold == WorldInv /\ Ways(canon.edges)

\* The location creator, as a tool and behind an exit.
LEMMA GenerateWays ==
  ASSUME WaysHold, NEW r, CreatorRequest(r), Generate(r)
  PROVE  Ways(canon'.edges)
<1>1. PICK g \in Answers : \E c \in CommitLocation(canon, r, g) : Commit(c)
  BY DEF Generate
<1>2. PICK c \in CommitLocation(canon, r, g) : Commit(c)
  BY <1>1
<1>3. Ways(c.edges)
  BY CommitWays DEF CreatorRequest, WaysHold, WorldInv
<1> QED BY <1>2, <1>3 DEF Commit

\* generate_location.
LEMMA GenerateLocationWays ==
  ASSUME WaysHold, GenerateLocation
  PROVE  Ways(canon'.edges)
<1>1. PICK route \in DOMAIN canon.edges \cup {None}, enter \in BOOLEAN,
       target \in DOMAIN canon.places \cup {None} :
        Generate([route |-> route, target |-> target, enter |-> enter])
  BY DEF GenerateLocation
<1> DEFINE r == [route |-> route, target |-> target, enter |-> enter]
<1>2. CreatorRequest(r)
  BY DEF CreatorRequest
<1>3. Generate(r)
  BY <1>1
<1> HIDE DEF r
<1> QED BY <1>2, <1>3, GenerateWays

\* move_player.
LEMMA MovePlayerWays ==
  ASSUME WaysHold, NEW e \in DOMAIN canon.edges, MovePlayer(e)
  PROVE  Ways(canon'.edges)
<1> DEFINE r == [route |-> e, target |-> canon.edges[e].to, enter |-> TRUE]
<1>1. CASE Generate(r)
  <2>1. CreatorRequest(r)
    BY DEF CreatorRequest, WaysHold, WorldInv, CanonFit, EdgesFit, EdgeFit
  <2> HIDE DEF r
  <2> QED BY <1>1, <2>1, GenerateWays
<1>2. CASE ~ Generate(r)
  <2>1. CanMove(canon, e)
        /\ \E c \in Moves(canon, e) : \E d \in Filled(c) \cup {c} : Travelled(d)
    BY <1>2 DEF MovePlayer
  <2>2. PICK c \in Moves(canon, e) : \E d \in Filled(c) \cup {c} : Travelled(d)
    BY <2>1
  <2>3. PICK d \in Filled(c) \cup {c} : Travelled(d)
    BY <2>2
  <2>4. CanonFit(c) /\ Ways(c.edges)
    BY <2>1, MovesFit, MovesWays DEF WaysHold, WorldInv
  <2>5. Ways(d.edges)
    BY <2>4, FilledWays
  <2> QED BY <2>3, <2>5 DEF Travelled, Commit
<1> QED BY <1>1, <1>2

\* travel_to.
LEMMA TravelToWays ==
  ASSUME WaysHold, NEW place \in DOMAIN canon.places, TravelTo(place)
  PROVE  Ways(canon'.edges)
<1>1. PICK plan \in Profiles :
        \E c \in Travels(canon, [id |-> <<"journey", place, canon.clock>>,
                                    from |-> canon.player, to |-> place,
                                    minutes |-> plan.cost, risk |-> plan.risk,
                                    planned |-> TRUE]) :
             \E d \in Filled(c) \cup {c} : Travelled(d)
  BY DEF TravelTo
<1> DEFINE way == [id |-> <<"journey", place, canon.clock>>,
                                    from |-> canon.player, to |-> place,
                                    minutes |-> plan.cost, risk |-> plan.risk,
                                    planned |-> TRUE]
<1>2. WayFits(canon, way)
  <2>1. ~ Shell(canon, place)
    BY DEF TravelTo, Shell, WaysHold, WorldInv, CanonFit, PlacesFit
  <2>2. plan.cost \in Nat /\ canon.player \in DOMAIN canon.places
    BY WorldConstants DEF WaysHold, WorldInv, CanonFit, PlacesFit
  <2> QED BY <2>1, <2>2 DEF WayFits
<1>3. \E c \in Travels(canon, way) : \E d \in Filled(c) \cup {c} : Travelled(d)
  BY <1>1
<1> HIDE DEF way
<1>4. PICK c \in Travels(canon, way) : \E d \in Filled(c) \cup {c} : Travelled(d)
  BY <1>3
<1>5. PICK d \in Filled(c) \cup {c} : Travelled(d)
  BY <1>4
<1>6. CanonFit(c) /\ Ways(c.edges)
  BY <1>2, TravelsFit, TravelsWays DEF WaysHold, WorldInv
<1>7. Ways(d.edges)
  BY <1>6, FilledWays
<1> QED BY <1>5, <1>7 DEF Travelled, Commit

\* relocate_player.
LEMMA RelocateWays ==
  ASSUME WaysHold, NEW place, NEW minutes, RelocatePlayer(place, minutes)
  PROVE  Ways(canon'.edges)
<1>1. canon'.edges = canon.edges
  BY DEF RelocatePlayer, Travelled, Commit, Relocated, WaysHold, WorldInv, CanonFit, CanonFields
<1> QED BY <1>1 DEF WaysHold

\* create_passage.
LEMMA CreatePassageWays ==
  ASSUME WaysHold, NEW from \in DOMAIN canon.places, NEW to \in DOMAIN canon.places, CreatePassage(from, to)
  PROVE  Ways(canon'.edges)
<1> DEFINE passage == <<"passage", from, to>>
<1>1. PICK dir \in Directions, profile \in Profiles :
        /\ CanCreatePassage(canon, passage, from, to, dir, profile)
        /\ Commit(PassageCreated(canon, passage, from, to, dir, profile))
  BY DEF CreatePassage
<1> DEFINE c == PassageCreated(canon, passage, from, to, dir, profile)
<1>2. passage = <<"passage", from, to>>
  OBVIOUS
<1> HIDE DEF passage
<1>3. Ways(c.edges)
  BY <1>1, <1>2, CreatedWays DEF WaysHold, WorldInv
<1>4. Commit(c)
  BY <1>1
<1> HIDE DEF c
<1> QED BY <1>3, <1>4 DEF Commit

\* set_passage_state.
LEMMA SetPassageWays ==
  ASSUME WaysHold, NEW e \in DOMAIN canon.edges, NEW open \in BOOLEAN, SetPassageState(e, open)
  PROVE  Ways(canon'.edges)
BY PassageSetWays DEF SetPassageState, Commit, WaysHold, WorldInv

\* advance_time.
LEMMA AdvanceTimeWays ==
  ASSUME WaysHold, NEW minutes, AdvanceTime(minutes)
  PROVE  Ways(canon'.edges)
<1>1. canon'.edges = canon.edges
  BY DEF AdvanceTime, Commit, WaysHold, WorldInv, CanonFit, CanonFields
<1> QED BY <1>1 DEF WaysHold

\* Tools on places, ways and time keep the passages.
LEMMA WalksWays ==
  ASSUME WaysHold, Walks
  PROVE  Ways(canon'.edges)
BY MovePlayerWays, GenerateLocationWays, TravelToWays, RelocateWays, CreatePassageWays,
   SetPassageWays, AdvanceTimeWays DEF Walks

\* A tool on characters, the scene or items makes no way and changes none.
LEMMA MovedEdges ==
  ASSUME NEW c, DOMAIN c = CanonFields, NEW a, NEW place
  PROVE  /\ ActorMoved(c, a, place).edges = c.edges
         /\ DOMAIN ActorMoved(c, a, place) = CanonFields
BY DEF ActorMoved, CanonFields

\* Tools on characters leave the edges.
LEMMA CastsWays ==
  ASSUME WaysHold, Casts
  PROVE  canon'.edges = canon.edges
<1>0. DOMAIN canon = CanonFields
  BY DEF WaysHold, WorldInv, CanonFit
<1>1. ASSUME NEW a, NEW present, NEW place, MoveNpc(a, present, place)
      PROVE  canon'.edges = canon.edges
  BY <1>0, <1>1, MovedEdges DEF MoveNpc, Commit, Synced
<1>2. ASSUME NEW a, NEW place, SetNpcWhereabouts(a, place)
      PROVE  canon'.edges = canon.edges
  BY <1>0, <1>2, MovedEdges DEF SetNpcWhereabouts, Commit, Synced
<1>3. ASSUME NEW a, NEW present, NEW home, GenerateNpc(a, present, home)
      PROVE  canon'.edges = canon.edges
  <2> DEFINE place == IF present THEN canon.player ELSE home
             hidden == ~ present /\ place = canon.player
             made == ActorCreated(canon, a, place, TRUE)
  <2>1. canon' = IF hidden THEN ActorMoved(made, a, None) ELSE made
    BY <1>3 DEF GenerateNpc, Commit
  <2>2. made.edges = canon.edges /\ DOMAIN made = CanonFields
    BY <1>0 DEF ActorCreated, CanonFields
  <2> HIDE DEF made, hidden
  <2>3. ActorMoved(made, a, None).edges = made.edges
    BY <2>2, MovedEdges
  <2> QED BY <2>1, <2>2, <2>3
<1>4. ASSUME NEW a, NEW life, UpdateNpc(a, life)
      PROVE  canon'.edges = canon.edges
  BY <1>4 DEF UpdateNpc
<1> QED BY <1>1, <1>2, <1>3, <1>4 DEF Casts

\* Writing a scene leaves the edges.
LEMMA StagedEdges ==
  ASSUME WorldInv, NEW listed
  PROVE  Staged(listed).edges = canon.edges /\ DOMAIN Staged(listed) = CanonFields
BY DEF Staged, WorldInv, CanonFit, CanonFields

\* So do the tools on the scene and the items.
LEMMA StagesWays ==
  ASSUME WaysHold, Stages
  PROVE  canon'.edges = canon.edges
<1>1. ASSUME NEW listed, NEW items, SetScene(listed, items)
      PROVE  canon'.edges = canon.edges
  BY <1>1, StagedEdges DEF SetScene, WaysHold
<1>2. ASSUME NEW listed, NEW items, PatchScene(listed, items)
      PROVE  canon'.edges = canon.edges
  <2> DEFINE gone == ActorsAt(canon, canon.player) \ listed
             s0 == Staged(listed)
  <2>1. canon' = [s0 EXCEPT
                    !.alive = [a \in DOMAIN @ |-> @[a] \/ a \in listed],
                    !.at = [a \in DOMAIN @ |-> IF a \in gone THEN None ELSE @[a]],
                    !.occ[s0.player] = @ \ gone]
    BY <1>2 DEF PatchScene
  <2>2. s0.edges = canon.edges /\ DOMAIN s0 = CanonFields
    BY StagedEdges DEF WaysHold
  <2> HIDE DEF s0, gone
  <2> QED BY <2>1, <2>2 DEF CanonFields
<1>3. ASSUME NEW item, TakeItem(item)
      PROVE  canon'.edges = canon.edges
  BY <1>3 DEF TakeItem
<1>4. ASSUME NEW head, DropItem(head)
      PROVE  canon'.edges = canon.edges
  BY <1>4 DEF DropItem
<1> QED BY <1>1, <1>2, <1>3, <1>4 DEF Stages

\* Every step keeps the passages.
LEMMA WaysStep == WaysHold /\ [Next]_vars => WaysHold'
<1> SUFFICES ASSUME WaysHold, [Next]_vars PROVE WaysHold'
  OBVIOUS
<1>1. WorldInv'
  BY NextSplits, WalksKeep, CastsKeep, StagesKeep, StillKeeps DEF WaysHold
<1>2. CASE Walks
  BY <1>1, <1>2, WalksWays DEF WaysHold
<1>3. CASE Casts
  BY <1>1, <1>3, CastsWays DEF WaysHold
<1>4. CASE Stages
  BY <1>1, <1>4, StagesWays DEF WaysHold
<1>5. CASE UNCHANGED vars
  BY <1>1, <1>5 DEF WaysHold, vars
<1> QED BY <1>2, <1>3, <1>4, <1>5, NextSplits

\* Edges without a passage are paired.
LEMMA BareWays ==
  ASSUME NEW E, \A e \in DOMAIN E : E[e].passage = None /\ e[1] \notin {"fwd", "rev"}
  PROVE  Ways(E)
BY DEF Ways, Paired, AllNamed, NameFits, Rooted, RootFits

\* The exits of an opening scene have no passage.
LEMMA SceneWays ==
  ASSUME NEW place, NEW exits, NEW people
  PROVE  Ways(FromScene(place, exits, people).edges)
<1> DEFINE E == FromScene(place, exits, people).edges
<1>1. E = [e \in {<<"scene", x>> : x \in exits} |->
                         [from |-> place, to |-> None, passage |-> None,
                                dir |-> "unset", cost |-> 0, risk |-> "unset",
                                open |-> TRUE, made |-> FALSE]]
  BY DEF FromScene
<1>2. \A e \in DOMAIN E : E[e].passage = None /\ e[1] = "scene"
  BY <1>1
<1> HIDE DEF E
<1>3. Ways(E)
  BY <1>2, BareWays
<1> QED BY <1>3 DEF E

\* The world generator links two places with one passage.
LEMMA WorldgenWays ==
  ASSUME NEW start, NEW other, start # other, NEW profile
  PROVE  Ways(FromWorldgen(start, other, profile).edges)
<1> DEFINE E == FromScene(start, {}, {}).edges
           passage == <<"link", start, other>>
           fwd == <<"way", start, other>>
           rev == <<"way", other, start>>
           go == Edge(start, other, passage, "two", profile, FALSE)
           come == Edge(other, start, passage, "two", profile, FALSE)
           there == InsertedOnce(E, fwd, go)
           F == InsertedOnce(there, rev, come)
<1>1. FromWorldgen(start, other, profile).edges = F
  BY DEF FromWorldgen, LinkTwoWay, FromScene
<1>2. E = [e \in {} |-> 0] /\ DOMAIN E = {}
  BY DEF FromScene
<1>3. go.passage = passage /\ come.passage = passage /\ Opposite(go, come) /\ Opposite(come, go)
  BY DEF Edge, Opposite
<1>4. fwd # rev /\ fwd[1] = "way" /\ rev[1] = "way" /\ passage[1] = "link"
  OBVIOUS
<1>5. Ways(E)
  BY <1>2, BareWays
<1> HIDE DEF E, fwd, rev, go, come, passage
<1>6. DOMAIN there = {fwd} /\ there[fwd] = go
  BY <1>2 DEF InsertedOnce, Inserted
<1> HIDE DEF there
<1>7. DOMAIN F = {fwd, rev} /\ F[fwd] = go /\ F[rev] = come
  BY <1>4, <1>6 DEF InsertedOnce, Inserted
<1> HIDE DEF F
<1>8. Rewired(E, F, {fwd, rev}, passage)
  <2>1. \A x \in {fwd, rev} : F[x].passage = passage /\ NameFits(F, x)
    BY <1>3, <1>4, <1>7 DEF NameFits
  <2>2. \A x \in {fwd, rev} : \A y \in {fwd, rev} : x # y => Opposite(F[x], F[y])
    BY <1>3, <1>7
  <2> QED BY <1>2, <1>7, <2>1, <2>2 DEF Rewired
<1>9. RootFits(F, passage)
  BY <1>4 DEF RootFits
<1>10. Ways(F)
  BY <1>5, <1>8, <1>9, RewiredWays
<1> QED BY <1>1, <1>10

\* The passages are paired at the start.
LEMMA WaysStart == Init => WaysHold
<1> SUFFICES ASSUME Init PROVE Ways(canon.edges)
  BY InvStarts DEF WaysHold
<1>1. canon.player \in Rooms /\ (OfScene(canon) \/ OfWorldgen(canon))
  BY SeedsAssumption DEF Init
<1>2. CASE OfScene(canon)
  BY <1>2, SceneWays DEF OfScene
<1>3. CASE OfWorldgen(canon)
  <2>1. \E other \in Rooms \ {canon.player} : \E profile :
           canon = FromWorldgen(canon.player, other, profile)
    BY <1>3 DEF OfWorldgen
  <2>2. PICK other \in Rooms \ {canon.player} : \E profile :
           canon = FromWorldgen(canon.player, other, profile)
    BY <2>1
  <2>3. PICK profile : canon = FromWorldgen(canon.player, other, profile)
    BY <2>2
  <2> QED BY <2>3, WorldgenWays
<1> QED BY <1>1, <1>2, <1>3

(***************************************************************************)
(* The edges of a passage are one edge, or two opposite ones that agree,   *)
(* whoever made them: a seed, the location creator, a stop on the road or  *)
(* create_passage.                                                         *)
(***************************************************************************)
THEOREM PassagesStayPaired == Spec => []PassagePaired
<1>1. WaysHold => PassagePaired
  BY DEF WaysHold, Ways, Paired, PassagePaired
<1> QED BY WaysStart, WaysStep, <1>1, PTL DEF Spec

-----------------------------------------------------------------------------
(* Items. *)

\* The items of a name, where they lie.
Here(items, head) == {item \in items : item.head = head}

Left(st, place, head) ==
  {rest \in (DOMAIN st \ {place}) \X UNION {st[p] : p \in DOMAIN st} :
      rest[2] \in st[rest[1]] /\ rest[2].head = head}

Lying(st, place, items, head) == ({place} \X Here(items, head)) \cup Left(st, place, head)

InBag(b, head) == IF head \in b THEN 1 ELSE 0

Stocked(st) == IsFiniteSet(DOMAIN st) /\ \A p \in DOMAIN st : IsFiniteSet(st[p])

\* What lies elsewhere, element by element.
LEMMA LeftHas ==
  ASSUME NEW st, NEW place, NEW head, NEW x
  PROVE  x \in Left(st, place, head) <=>
           \E p \in DOMAIN st \ {place} : \E i \in st[p] : x = <<p, i>> /\ i.head = head
<1>1. ASSUME x \in Left(st, place, head)
      PROVE  \E p \in DOMAIN st \ {place} : \E i \in st[p] : x = <<p, i>> /\ i.head = head
  <2>1. /\ x \in (DOMAIN st \ {place}) \X UNION {st[p] : p \in DOMAIN st}
        /\ x[2] \in st[x[1]] /\ x[2].head = head
    BY <1>1 DEF Left
  <2>2. x = <<x[1], x[2]>> /\ x[1] \in DOMAIN st \ {place}
    BY <2>1
  <2> QED BY <2>1, <2>2
<1>2. ASSUME NEW p \in DOMAIN st \ {place}, NEW i \in st[p], x = <<p, i>>, i.head = head
      PROVE  x \in Left(st, place, head)
  <2>1. i \in UNION {st[q] : q \in DOMAIN st}
    OBVIOUS
  <2>2. x \in (DOMAIN st \ {place}) \X UNION {st[q] : q \in DOMAIN st}
    BY <1>2, <2>1
  <2>3. x[1] = p /\ x[2] = i
    BY <1>2
  <2> QED BY <1>2, <2>2, <2>3 DEF Left
<1> QED BY <1>1, <1>2

\* What lies anywhere, element by element.
LEMMA LyingHas ==
  ASSUME NEW st, NEW place, NEW items, NEW head, NEW x
  PROVE  x \in Lying(st, place, items, head) <=>
           \/ \E i \in items : x = <<place, i>> /\ i.head = head
           \/ \E p \in DOMAIN st \ {place} : \E i \in st[p] : x = <<p, i>> /\ i.head = head
<1>1. x \in {place} \X Here(items, head) <=> \E i \in items : x = <<place, i>> /\ i.head = head
  BY DEF Here
<1> QED BY <1>1, LeftHas DEF Lying

\* All that lies somewhere is counted once.
LEMMA LyingCount ==
  ASSUME NEW st, Stocked(st), NEW place, NEW items, IsFiniteSet(items), NEW head
  PROVE  /\ IsFiniteSet(Here(items, head)) /\ IsFiniteSet(Left(st, place, head))
         /\ Cardinality(Here(items, head)) \in Nat /\ Cardinality(Left(st, place, head)) \in Nat
         /\ Cardinality(Here(items, head)) + Cardinality(Left(st, place, head))
              = Cardinality(Lying(st, place, items, head))
<1> DEFINE H == Here(items, head)
           L == Left(st, place, head)
           P == {place} \X H
<1>1. IsFiniteSet(H)
  BY FS_Subset DEF Here
<1>2. IsFiniteSet(L)
  <2> DEFINE S == {st[p] : p \in DOMAIN st}
             A == DOMAIN st \ {place}
  <2>1. IsFiniteSet(S)
    <3> DEFINE f == [p \in DOMAIN st |-> st[p]]
    <3>1. f \in Surjection(DOMAIN st, S)
      BY DEF Surjection
    <3> QED BY <3>1, FS_Surjection DEF Stocked
  <2>2. IsFiniteSet(UNION S)
    BY <2>1, FS_UNION DEF Stocked
  <2>3. IsFiniteSet(A)
    BY FS_Subset DEF Stocked
  <2>4. L \in SUBSET (A \X UNION S)
    BY DEF Left
  <2> HIDE DEF A, S, L
  <2>5. IsFiniteSet(A \X UNION S)
    BY <2>2, <2>3, FS_Product
  <2> QED BY <2>4, <2>5, FS_Subset
<1>3. P \cap L = {}
  BY LeftHas
<1> HIDE DEF H, L
<1>10. P = {place} \X H
  OBVIOUS
<1>11. IsFiniteSet({place}) /\ Cardinality({place}) = 1
  BY FS_Singleton
<1> DEFINE O == {place}
<1> HIDE DEF P, O
<1>12. P = O \X H /\ IsFiniteSet(O) /\ Cardinality(O) = 1
  BY <1>10, <1>11 DEF O
<1>4. IsFiniteSet(P) /\ Cardinality(P) = 1 * Cardinality(H)
  BY <1>1, <1>12, FS_Product
<1>5. Cardinality(H) \in Nat /\ Cardinality(L) \in Nat
  BY <1>1, <1>2, FS_CardinalityType
<1>6. Cardinality(P) = Cardinality(H)
  BY <1>4, <1>5
<1>7. Cardinality(P \cup L) = Cardinality(P) + Cardinality(L) - Cardinality(P \cap L)
  BY <1>2, <1>4, FS_Union
<1>8. Cardinality(P \cap L) = 0
  BY <1>3, FS_EmptySet
<1>9. Lying(st, place, items, head) = P \cup L
  BY DEF Lying, P, H, L
<1> QED BY <1>1, <1>2, <1>5, <1>6, <1>7, <1>8, <1>9 DEF H, L

\* The copies of a name among an inventory b, the items of a place and a store.
Counted(b, st, place, items, head) ==
  InBag(b, head) + Cardinality(Here(items, head)) + Cardinality(Left(st, place, head))

\* The count is that of what lies somewhere, and of the inventory.
LEMMA CountedIs ==
  ASSUME NEW b, NEW st, Stocked(st), NEW place, NEW items, IsFiniteSet(items), NEW head
  PROVE  /\ Counted(b, st, place, items, head) = InBag(b, head) + Cardinality(Lying(st, place, items, head))
         /\ Counted(b, st, place, items, head) \in Nat
<1>1. /\ Cardinality(Here(items, head)) \in Nat
      /\ Cardinality(Left(st, place, head)) \in Nat
      /\ Cardinality(Here(items, head)) + Cardinality(Left(st, place, head))
              = Cardinality(Lying(st, place, items, head))
  BY LyingCount
<1>2. InBag(b, head) \in Nat
  BY DEF InBag
<1> QED BY <1>1, <1>2 DEF Counted

\* Copies counts a state.
LEMMA CopiesAre ==
  ASSUME NEW head
  PROVE  Copies(head) = Counted(bag, stash, scene.place, scene.items, head)
BY DEF Copies, Counted, InBag, Here, Left

\* Copies counts the state after a step.
LEMMA CopiesThen ==
  ASSUME NEW head
  PROVE  Copies(head)' = Counted(bag', stash', scene'.place, scene'.items, head)
BY DEF Copies, Counted, InBag, Here, Left

\* A refresh of the scene moves the items and makes none.
LEMMA RefreshedLie ==
  ASSUME NEW c, NEW s, NEW new, new = RefreshedScene(c, s),
         NEW st, st = RefreshedStash(c, s), NEW head
  PROVE  Lying(st, new.place, new.items, head) = Lying(stash, s.place, s.items, head)
<1>1. new.place = c.player
      /\ new.items = IF s.place # c.player THEN Stored(st, c.player) ELSE s.items
  BY DEF RefreshedScene, View
<1>2. CASE s.place = c.player
  BY <1>1, <1>2 DEF RefreshedStash
<1>3. CASE s.place # c.player
  <2>1. st = Inserted(stash, s.place, s.items)
    BY <1>3 DEF RefreshedStash
  <2>2. DOMAIN st = DOMAIN stash \cup {s.place} /\ st[s.place] = s.items
        /\ \A p \in DOMAIN stash \ {s.place} : st[p] = stash[p]
    BY <2>1 DEF Inserted
  <2>3. new.items = IF c.player \in DOMAIN stash THEN stash[c.player] ELSE {}
    BY <1>1, <1>3, <2>2 DEF Stored
  <2>4. \A x : x \in Lying(st, new.place, new.items, head) <=> x \in Lying(stash, s.place, s.items, head)
    <3> SUFFICES ASSUME NEW x
                 PROVE  x \in Lying(st, new.place, new.items, head) <=>
                        x \in Lying(stash, s.place, s.items, head)
      OBVIOUS
    <3> DEFINE Lies(p, items) == \E i \in items : x = <<p, i>> /\ i.head = head
    <3>1. x \in Lying(st, new.place, new.items, head) <=>
            Lies(c.player, new.items) \/ \E p \in DOMAIN st \ {c.player} : Lies(p, st[p])
      BY <1>1, LyingHas
    <3>2. x \in Lying(stash, s.place, s.items, head) <=>
            Lies(s.place, s.items) \/ \E p \in DOMAIN stash \ {s.place} : Lies(p, stash[p])
      BY LyingHas
    <3>3. ~ Lies(c.player, {})
      OBVIOUS
    <3> HIDE DEF Lies
    <3> QED BY <1>3, <2>2, <2>3, <3>1, <3>2, <3>3
  <2> QED BY <2>4
<1> QED BY <1>2, <1>3

\* What the count needs holds in a state.
LEMMA StockFits == ItemsFit => Stocked(stash) /\ IsFiniteSet(scene.items)
BY DEF ItemsFit, Good, Stocked

\* It holds in the state after a step.
LEMMA StockThen == ItemsFit' => Stocked(stash') /\ IsFiniteSet(scene'.items)
BY DEF ItemsFit, Good, Stocked

\* A commit of a canon makes no copy and loses none.
LEMMA CommitCopies ==
  ASSUME WorldInv, ItemsFit', NEW c, Commit(c), bag' = bag, NEW head
  PROVE  Copies(head)' = Copies(head)
<1>1. Lying(stash', scene'.place, scene'.items, head) = Lying(stash, scene.place, scene.items, head)
  BY RefreshedLie DEF Commit
<1>2. Stocked(stash) /\ IsFiniteSet(scene.items) /\ Stocked(stash') /\ IsFiniteSet(scene'.items)
  BY StockFits, StockThen DEF WorldInv
<1>3. Counted(bag', stash', scene'.place, scene'.items, head)
        = Counted(bag, stash, scene.place, scene.items, head)
  BY <1>1, <1>2, CountedIs
<1> QED BY <1>3, CopiesAre, CopiesThen

\* The items of a scene change by one, and the inventory with them.
LEMMA TakenCopies ==
  ASSUME WorldInv, NEW item, TakeItem(item), NEW head
  PROVE  Copies(head)' <= Copies(head)
<1> DEFINE items == scene.items \ {item}
           H == Here(scene.items, head)
           I == Here(items, head)
           n == Cardinality(Left(stash, scene.place, head))
<1>1. /\ bag' = bag \cup {item.head} /\ stash' = stash /\ item \in scene.items
      /\ scene' = [scene EXCEPT !.items = items]
  BY DEF TakeItem
<1>2. scene'.items = items /\ scene'.place = scene.place
  BY <1>1 DEF WorldInv, SceneFit, View
<1>3. Stocked(stash) /\ IsFiniteSet(scene.items)
  BY StockFits DEF WorldInv
<1>4. IsFiniteSet(H) /\ n \in Nat /\ Cardinality(H) \in Nat
  BY <1>3, LyingCount
<1>5. I = H \ {item} /\ (item \in H <=> item.head = head)
  BY <1>1 DEF Here
<1> HIDE DEF H, I, n, items
<1>6. Cardinality(I) = IF item \in H THEN Cardinality(H) - 1 ELSE Cardinality(H)
  BY <1>4, <1>5, FS_RemoveElement
<1>7. Copies(head) = InBag(bag, head) + Cardinality(H) + n
  BY CopiesAre DEF Counted, H, n
<1>8. Copies(head)' = InBag(bag', head) + Cardinality(I) + n
  BY <1>1, <1>2, CopiesThen DEF Counted, I, n
<1>9. CASE item.head = head
  <2>1. InBag(bag', head) = 1 /\ InBag(bag, head) \in {0, 1}
    BY <1>1, <1>9 DEF InBag
  <2> QED BY <1>4, <1>5, <1>6, <1>7, <1>8, <1>9, <2>1
<1>10. CASE item.head # head
  <2>1. InBag(bag', head) = InBag(bag, head) /\ InBag(bag, head) \in {0, 1}
    BY <1>1, <1>10 DEF InBag
  <2> QED BY <1>4, <1>5, <1>6, <1>7, <1>8, <1>10, <2>1
<1> QED BY <1>9, <1>10

\* drop_item: the name leaves the inventory as the item enters the scene.
LEMMA DroppedCopies ==
  ASSUME WorldInv, NEW name \in bag, DropItem(name), NEW head
  PROVE  Copies(head)' <= Copies(head)
<1> DEFINE used == {item.id : item \in scene.items}
           id == CHOOSE n \in 1 .. Cardinality(used) + 1 : n \notin used
           dropped == [head |-> name, id |-> id]
           items == scene.items \cup {dropped}
           H == Here(scene.items, head)
           I == Here(items, head)
           n == Cardinality(Left(stash, scene.place, head))
<1>1. /\ bag' = bag \ {name} /\ stash' = stash
      /\ scene' = [scene EXCEPT !.items = items]
  BY DEF DropItem
<1> HIDE DEF id
<1>2. dropped.head = name
  OBVIOUS
<1> HIDE DEF dropped
<1>3. scene'.items = items /\ scene'.place = scene.place
  BY <1>1 DEF WorldInv, SceneFit, View
<1>4. Stocked(stash) /\ IsFiniteSet(scene.items)
  BY StockFits DEF WorldInv
<1>5. IsFiniteSet(H) /\ n \in Nat /\ Cardinality(H) \in Nat
  BY <1>4, LyingCount
<1>6. I = IF name = head THEN H \cup {dropped} ELSE H
  BY <1>2 DEF Here
<1> HIDE DEF H, I, n, items
<1>7. Cardinality(H \cup {dropped}) \in {Cardinality(H), Cardinality(H) + 1}
  BY <1>5, FS_AddElement
<1>8. Copies(head) = InBag(bag, head) + Cardinality(H) + n
  BY CopiesAre DEF Counted, H, n
<1>9. Copies(head)' = InBag(bag', head) + Cardinality(I) + n
  BY <1>1, <1>3, CopiesThen DEF Counted, I, n
<1>10. CASE name = head
  <2>1. InBag(bag', head) = 0 /\ InBag(bag, head) = 1
    BY <1>1, <1>10 DEF InBag
  <2>2. Cardinality(I) \in {Cardinality(H), Cardinality(H) + 1}
    BY <1>6, <1>7, <1>10
  <2> QED BY <1>5, <1>8, <1>9, <2>1, <2>2
<1>11. CASE name # head
  <2>1. InBag(bag', head) = InBag(bag, head) /\ InBag(bag, head) \in {0, 1}
    BY <1>1, <1>11 DEF InBag
  <2> QED BY <1>5, <1>6, <1>8, <1>9, <1>11, <2>1
<1> QED BY <1>10, <1>11

\* What a step does to the items: it writes the scene anew, refreshes it from
\* a canon, moves one item, or leaves everything where it lies.
Refreshes == bag' = bag /\ \E c : Commit(c)
LeavesAll == UNCHANGED <<scene, stash, bag>>
HandlesItem == (\E item : TakeItem(item)) \/ (\E name \in bag : DropItem(name))

\* A tool that moved the player refreshes the scene.
LEMMA TravelledRefreshes ==
  ASSUME NEW c, Travelled(c)
  PROVE  Refreshes
BY DEF Travelled, Refreshes

\* So does one that committed a place.
LEMMA GenerateRefreshes ==
  ASSUME NEW r, Generate(r)
  PROVE  Refreshes
BY DEF Generate, Refreshes

\* Tools on places, ways and time.
LEMMA WalksRefresh == Walks => Refreshes
<1>1. ASSUME NEW e, MovePlayer(e) PROVE Refreshes
  BY <1>1, TravelledRefreshes, GenerateRefreshes DEF MovePlayer
<1>2. GenerateLocation => Refreshes
  BY GenerateRefreshes DEF GenerateLocation
<1>3. ASSUME NEW place, TravelTo(place) PROVE Refreshes
  BY <1>3, TravelledRefreshes DEF TravelTo
<1>4. ASSUME NEW place, NEW minutes, RelocatePlayer(place, minutes) PROVE Refreshes
  BY <1>4, TravelledRefreshes DEF RelocatePlayer
<1>5. ASSUME NEW from, NEW to, CreatePassage(from, to) PROVE Refreshes
  BY <1>5 DEF CreatePassage, Refreshes
<1>6. ASSUME NEW e, NEW open, SetPassageState(e, open) PROVE Refreshes
  BY <1>6 DEF SetPassageState, Refreshes
<1>7. ASSUME NEW minutes, AdvanceTime(minutes) PROVE Refreshes
  BY <1>7 DEF AdvanceTime, Refreshes
<1> QED BY <1>1, <1>2, <1>3, <1>4, <1>5, <1>6, <1>7 DEF Walks

\* Tools on characters.
LEMMA CastsRefresh == Casts => Refreshes \/ LeavesAll
<1>1. ASSUME NEW a, NEW present, NEW place, MoveNpc(a, present, place) PROVE Refreshes
  BY <1>1 DEF MoveNpc, Refreshes
<1>2. ASSUME NEW a, NEW place, SetNpcWhereabouts(a, place) PROVE Refreshes
  BY <1>2 DEF SetNpcWhereabouts, Refreshes
<1>3. ASSUME NEW a, NEW present, NEW home, GenerateNpc(a, present, home) PROVE Refreshes
  BY <1>3 DEF GenerateNpc, Refreshes
<1>4. ASSUME NEW a, NEW life, UpdateNpc(a, life) PROVE LeavesAll
  BY <1>4 DEF UpdateNpc, LeavesAll
<1> QED BY <1>1, <1>2, <1>3, <1>4 DEF Casts

\* Tools on the scene and the items.
LEMMA StagesRewrite == Stages => Rewritten \/ HandlesItem
<1>1. ASSUME NEW listed, NEW items \in SeedItems, SetScene(listed, items) PROVE Rewritten
  BY <1>1 DEF Rewritten, SetScene
<1>2. ASSUME NEW listed, NEW items \in SeedItems, PatchScene(listed, items) PROVE Rewritten
  BY <1>2 DEF Rewritten, PatchScene
<1> QED BY <1>1, <1>2 DEF Stages, HandlesItem

\* A step makes no copy of a name, unless it writes the scene anew.
LEMMA CopiesKept ==
  ASSUME WorldInv, [Next]_vars, NEW head
  PROVE  Rewritten \/ Copies(head)' <= Copies(head)
<1>1. WorldInv'
  BY NextSplits, WalksKeep, CastsKeep, StagesKeep, StillKeeps
<1>2. Copies(head) \in Nat
  BY StockFits, CountedIs, CopiesAre DEF WorldInv
<1>3. CASE Refreshes
  BY <1>1, <1>2, <1>3, CommitCopies DEF Refreshes, WorldInv
<1>4. CASE LeavesAll
  BY <1>2, <1>4, CopiesAre, CopiesThen DEF LeavesAll
<1>5. CASE HandlesItem
  BY <1>5, TakenCopies, DroppedCopies DEF HandlesItem
<1>6. CASE UNCHANGED vars
  BY <1>4, <1>6 DEF vars, LeavesAll
<1> QED BY <1>3, <1>4, <1>5, <1>6, NextSplits, WalksRefresh, CastsRefresh, StagesRewrite

\* The same, over all the names.
LEMMA CopiesBetween ==
  ASSUME WorldInv, [Next]_vars
  PROVE  (\E head \in Heads : Copies(head)' > Copies(head)) => Rewritten
<1> SUFFICES ASSUME NEW head \in Heads, Copies(head)' > Copies(head) PROVE Rewritten
  OBVIOUS
<1>1. WorldInv'
  BY NextSplits, WalksKeep, CastsKeep, StagesKeep, StillKeeps
<1>2. Copies(head) \in Nat
  BY StockFits, CountedIs, CopiesAre DEF WorldInv
<1>3. Copies(head)' \in Nat
  BY <1>1, StockThen, CountedIs, CopiesThen DEF WorldInv
<1> QED BY <1>2, <1>3, CopiesKept

(***************************************************************************)
(* No tool but one that writes the scene anew makes a second copy of an    *)
(* item: taking, dropping, walking away and coming back only move it.      *)
(***************************************************************************)
THEOREM NothingIsConjured == Spec => NothingConjured
<1>1. WorldInv /\ [Next]_vars => [(\E head \in Heads : Copies(head)' > Copies(head)) => Rewritten]_vars
  BY CopiesBetween
<1> QED BY WorldHolds, <1>1, PTL DEF Spec, NothingConjured

-----------------------------------------------------------------------------
(* The parts of the server together, as one run checks them.               *)

\* A step of the parts is a step or a stutter of each.
LEMMA PartsSteps ==
  ASSUME [PartsNext]_partsVars
  PROVE  /\ [Next]_vars /\ [GrokNext]_grokVars /\ [FeedNext]_feedVars
         /\ [ArchitectNext]_architectVars /\ [HistoryNext]_historyVars /\ [ExchangeNext]_exchangeVars
<1>1. CASE PartsNext
  BY <1>1 DEF PartsNext, others, Refresh, Login
<1>2. CASE UNCHANGED partsVars
  BY <1>2 DEF partsVars, others
<1> QED BY <1>1, <1>2

\* Each part follows its own specification.
LEMMA PartsFollow ==
  PartsSpec => Spec /\ GrokSpec /\ FeedSpec /\ ArchitectSpec /\ HistorySpec /\ ExchangeSpec
<1>1. PartsInit => Init /\ GrokInit /\ FeedInit /\ ArchitectInit /\ HistoryInit /\ ExchangeInit
  BY DEF PartsInit
<1> QED
  BY <1>1, PartsSteps, PTL
  DEF PartsSpec, Spec, GrokSpec, FeedSpec, ArchitectSpec, HistorySpec, ExchangeSpec

(* Every variable of every part keeps its type in the composition that the *)
(* run checks.                                                             *)
THEOREM PartsStayTyped == PartsSpec => []PartsTypeOK
<1>1. FeedInv => FeedTypeOK
  BY DEF FeedInv
<1> QED
  BY <1>1, PartsFollow, WorldStaysTyped, GrokStaysTyped, FeedInvariance, ArchitectStaysTyped, HistoryStaysTyped,
     ExchangeStaysTyped, PTL
  DEF PartsTypeOK

================================================================================
