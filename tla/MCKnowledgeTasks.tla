-------------------------- MODULE MCKnowledgeTasks --------------------------
(* Small instances of KnowledgeTasks for TLC: one task and one or two      *)
(* worker processes, each on a host of its own (worker@%h, concurrency 1). *)
EXTENDS KnowledgeTasks, TLC

CONSTANTS t1, w1, w2

MCTask == {t1}
MCName == {w1, w2}
MCNameOf == [w \in Worker |-> w]

MCIngest == [t \in Task |-> "INGEST"]
MCRebuild == [t \in Task |-> "REBUILD"]
=============================================================================
