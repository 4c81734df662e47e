----------------------------- MODULE MCIOReactor -----------------------------
(* Small instances of IOReactor for TLC. *)
EXTENDS IOReactor, TLC

(* Descriptor numbers and connections are interchangeable in the safety    *)
(* runs; the liveness run does not use the symmetry.                       *)
Symmetry == Permutations(Fds) \cup Permutations(Conns)
=============================================================================
