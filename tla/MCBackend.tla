----------------------------- MODULE MCBackend -----------------------------
(* SharedBackend with interchangeable processes and ports, for the runs     *)
(* that check safety only.                                                  *)
EXTENDS SharedBackend, TLC

Interchangeable == Permutations(Pids) \union Permutations(Ports)
=============================================================================
