-------------------------- MODULE MCNodeScheduler --------------------------
(* NodeScheduler and its refinement of OrderedNode on small instances.     *)
EXTENDS NodeRefinement, TLC

\* The workers are interchangeable; used by runs of safety properties only.
WorkerSymmetry == Permutations(Workers)

=============================================================================
