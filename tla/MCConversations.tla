--------------------------- MODULE MCConversations ---------------------------
(* Small instances of Conversations for TLC.                               *)
EXTENDS Conversations, TLC

Interchangeable ==
    Permutations(Turn) \cup Permutations(Request) \cup Permutations(Reader) \cup Permutations(Client)
=============================================================================
