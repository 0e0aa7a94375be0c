--------------------------- MODULE MCStoreScenes ---------------------------
(* Two scenes of the dialog store in one run of TLC, which share their first *)
(* steps: the path of one chat with reads and restarts, and turns, edits and *)
(* branches over two chats with deletes.                                     *)
EXTENDS MCDialogStore

InPlay == UNION ({{job[w].request} \ {None} : w \in Workers}
                   \cup {Committed(rows[c]) : c \in Existing}
                   \cup {{r.request} : r \in receipts})

Busy(calls) == \A w \in Workers : job[w].call \in calls \cup {"retry", "idle"}

(* Bounds of the two scenes. *)
PathScene == OnPath /\ Busy({"turn", "edit", "view", "create", "peek", "delete"})

TablesScene ==
  /\ Busy({"turn", "edit", "branch", "create", "delete"})
  /\ Cardinality(InPlay) <= 2
  /\ \A c \in Existing :
       /\ Len(rows[c].turns) <= 2
       /\ cache[c] = rows[c] \/ \E w \in Workers : job[w].dest = c
  /\ \A w \in Workers : job[w].turn <= 2

Scenes == (PathScene \/ TablesScene)'

=============================================================================
