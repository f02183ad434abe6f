------------------------------ MODULE MCPoller ------------------------------
(* Poller on small instances.                                              *)
EXTENDS Poller, TLC

\* The readers are interchangeable; used by runs of safety properties only.
ReaderSymmetry == Permutations(Readers)

=============================================================================
