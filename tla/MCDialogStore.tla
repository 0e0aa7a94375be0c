--------------------------- MODULE MCDialogStore ---------------------------
(* Small instances of DialogStore for TLC. *)
EXTENDS DialogStore, TLC

\* Chats, workers and requests are interchangeable: nothing orders them.
StoreSymmetry ==
  Permutations(Chats) \cup Permutations(Workers) \cup Permutations(Requests)

\* Where the chats are numbers, they are drawn in order: any other would do.
DrawnInOrder == \A c \in drawn' : \A d \in Chats : d < c => d \in drawn'

=============================================================================
