------------------------------ MODULE MCReviews ------------------------------
(* Small instances of Reviews for TLC.                                     *)
EXTENDS Reviews, TLC

Interchangeable ==
    Permutations(User) \cup Permutations(Text) \cup Permutations(Poster)
        \cup Permutations(Approver) \cup Permutations(Importer)
        \cup Permutations(Worker) \cup Permutations(Clerk)
=============================================================================
