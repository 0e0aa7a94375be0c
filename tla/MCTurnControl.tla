---------------------------- MODULE MCTurnControl ----------------------------
(* Small instances of TurnControl for TLC. *)
EXTENDS TurnControl, TLC

CONSTANT Texts    \* what a turn asks for: tells two payloads of one id apart

MCPayloads == [chat : Chats, req : Requests, text : Texts]

\* Chats are interchangeable, and so are the invocations of one handler.
ControlSymmetry ==
  Permutations(Handlers) \cup Permutations(Chats) \cup Permutations(Deletes)
    \cup Permutations(Cancels)

=============================================================================
