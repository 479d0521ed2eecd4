------------------------------ MODULE MCIngest ------------------------------
(* Ingest with its callers and ids interchangeable. *)
EXTENDS Ingest, TLC

Symmetry == Permutations(Ids) \cup Permutations(Runs) \cup Permutations(Deliveries)
=============================================================================
