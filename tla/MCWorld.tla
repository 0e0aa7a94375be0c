------------------------------ MODULE MCWorld ------------------------------
(* A small world for TLC: the two ways a game starts. *)
EXTENDS World

CONSTANTS ada, east

square == <<"place", "square">>
crypt == <<"place", "crypt">>
MCRooms == {square, crypt}
MCSeeds == {FromScene(square, {east}, {}), FromScene(square, {east}, {ada}),
            FromWorldgen(square, crypt, [cost |-> 1, risk |-> "none"])}
MCSeedItems == {{}, {[head |-> "lamp", id |-> 1]}}
MCProfiles == {[cost |-> 2, risk |-> "some"]}
LongWays == {[cost |-> 3, risk |-> "some"]}

\* Three small worlds in one run: ways and places with nobody in them, one
\* character, and the items of one name.
People == DOMAIN cards # {}
Items == scene.items # {} \/ bag # {} \/ \E p \in DOMAIN stash : stash[p] # {}
Small ==
    /\ ~ (People /\ Items)
    /\ People \/ Items => /\ Cardinality(DOMAIN canon.places) <= 2
                          /\ Cardinality(DOMAIN canon.edges) <= 2
                          /\ canon.clock <= 2
=============================================================================
