----------------------------- MODULE MCIngress ------------------------------
(* Ingress on small instances.                                             *)
EXTENDS Ingress, TLC

\* The host threads are interchangeable; used by runs of safety properties only.
ThreadSymmetry == Permutations(Threads)

=============================================================================
