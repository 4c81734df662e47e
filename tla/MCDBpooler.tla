----------------------------- MODULE MCDBpooler ------------------------------
(* Small instances of DBpooler for TLC. *)
EXTENDS DBpooler, TLC

(* Connections and clients are interchangeable in the safety runs. *)
Symmetry == Permutations(Conns) \cup Permutations(Clients)
=============================================================================
