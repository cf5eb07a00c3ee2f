------------------------ MODULE MCSessionLifecycle ------------------------
(* SessionLifecycle for TLC: the sessions are interchangeable. *)
EXTENDS SessionLifecycle, TLC

Symmetry == Permutations(Sessions)
=============================================================================
