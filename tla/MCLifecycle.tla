---------------------------- MODULE MCLifecycle ----------------------------
(* Lifecycle on small instances.                                           *)
EXTENDS Lifecycle, TLC

\* The workers of the pool are interchangeable.
WorkerSymmetry == Permutations(Workers)

Budget(threads, calls, runs, errors, cancels, others) ==
    [threads |-> threads, calls |-> calls, runs |-> runs,
     errors |-> errors, cancels |-> cancels, others |-> others]

\* One worker, with two runs of the graph and one error, one cancel or one
\* other call in them; two workers with two calls, or with one and a cancel.
MCBudgets ==
    {Budget(1, 2, 2, 1, 0, 0), Budget(1, 2, 2, 0, 1, 0), Budget(1, 2, 2, 0, 0, 1),
     Budget(2, 2, 1, 0, 0, 0), Budget(2, 1, 1, 0, 1, 0)}
=============================================================================
