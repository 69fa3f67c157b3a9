---------------------------- MODULE MCEventManager ----------------------------
EXTENDS EventManager, TLC

(* fds are interchangeable; the ids of subscribers are ordered. *)
Symmetry == Permutations(Fds)
================================================================================
