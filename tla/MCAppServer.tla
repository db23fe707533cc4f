---------------------------- MODULE MCAppServer ----------------------------
(* AppServer on small instances for TLC.                                   *)
EXTENDS AppServer, TLC

\* Callers are interchangeable; used in the runs without liveness only.
CallerSymmetry == Permutations(Callers)
=============================================================================
