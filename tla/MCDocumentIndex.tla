-------------------------- MODULE MCDocumentIndex ---------------------------
(* Small instances of DocumentIndex for TLC.                               *)
EXTENDS DocumentIndex, TLC

Interchangeable == Permutations(Worker) \cup Permutations(Client) \cup Permutations(Chunk)
                       \cup Permutations(Parser)
=============================================================================
