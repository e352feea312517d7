----------------------------- MODULE MCSession ------------------------------
(* Session on small instances.  Threads are interchangeable. *)
EXTENDS Session, TLC

ThreadSymmetry == Permutations(Threads)
=============================================================================
