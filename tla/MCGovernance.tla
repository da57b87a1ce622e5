---------------------------- MODULE MCGovernance ----------------------------
(* Small instances of Governance for TLC.                                  *)
EXTENDS Governance, TLC

Interchangeable == Permutations(Admin) \cup Permutations(Model) \cup Permutations(Route)
=============================================================================
