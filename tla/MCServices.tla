---------------------------- MODULE MCServices ----------------------------
(* Services of the server that share nothing, checked in one run: the      *)
(* supervision of the inference sidecar, the feed of a turn, and the       *)
(* memory of a world.                                                      *)
EXTENDS Sidecar, TurnFeed, Memory

VARIABLE part

\* Calls and processes are numbers here, and are used in order: any of them would do.
InOrder ==
  /\ \A t \in Tasks : stage[t] = "idle" => \A u \in Tasks : u > t => stage[u] = "idle"
  /\ \A p \in spawned : \A q \in Procs : q < p => q \in spawned

\* Small lives of a world: two tools and a load; a tool, a beat and a passage of time.
Life(tools, beats, walks, loads) == [tools |-> tools, beats |-> beats, walks |-> walks, loads |-> loads]
MCBudgets == {Life(2, 0, 0, 1), Life(1, 1, 1, 0)}

Init ==
  /\ SidecarInit /\ FeedInit /\ MemoryInit /\ part \in {"sidecar", "feed", "memory"}
  /\ \A r \in SeedTopics : flat[r] = Public \/ (part = "memory" /\ flat[r].scope \in {"owner", "participants"})

Next ==
  /\ \/ part = "sidecar" /\ SidecarNext /\ InOrder' /\ UNCHANGED <<feedVars, memoryVars>>
     \/ part = "feed" /\ FeedNext /\ UNCHANGED <<vars, memoryVars>>
     \/ part = "memory" /\ MemoryNext /\ UNCHANGED <<vars, feedVars>>
  /\ UNCHANGED part

\* In a part the fair actions of the other ones are disabled.
Spec == Init /\ [][Next]_<<vars, feedVars, memoryVars, part>> /\ SidecarFairness /\ FeedFairness

(* Every variable has its type. *)
ServicesTypeOK == SidecarTypeOK /\ MemoryTypeOK
=============================================================================
