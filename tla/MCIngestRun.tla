---------------------------- MODULE MCIngestRun ----------------------------
(* Small instances of IngestRun for TLC: which kinds of connector, change, *)
(* failure and trigger each run of the model checker puts together.        *)
EXTENDS IngestRunInv, TLC

Symmetry == Permutations(Docs)
=============================================================================
