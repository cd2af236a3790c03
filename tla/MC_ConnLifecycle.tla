-------------------------- MODULE MC_ConnLifecycle --------------------------
(* TLC instances of ConnLifecycle: descriptors and connection objects are  *)
(* interchangeable, so safety runs identify states that differ by renaming *)
(* them.                                                                   *)
EXTENDS ConnLifecycle, TLC

MCSymmetry == Permutations(Conns) \cup Permutations(Fds)
=============================================================================
