----------------------------- MODULE MCFeedback -----------------------------
(* Small instances of Feedback for TLC.                                    *)
EXTENDS Feedback, TLC

Interchangeable ==
    Permutations(Key) \cup Permutations(Content) \cup Permutations(Client)
        \cup Permutations(Moderator) \cup Permutations(Builder)
=============================================================================
