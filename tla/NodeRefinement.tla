--------------------------- MODULE NodeRefinement ---------------------------
(* NodeScheduler implements OrderedNode. *)
EXTENDS NodeScheduler

\* What the neighbours of the node see of its state.
Phase == IF outClosed THEN "closed" ELSE IF closeStarted THEN "closing" ELSE "open"

Ordered == INSTANCE OrderedNode WITH
    received <- sent, ended <- inClosed, claimed <- nextSeq,
    announced <- outBound, phase <- Phase, halted <- stopped

(***************************************************************************)
(* A node with several invocations in flight, parked flushes, failures and *)
(* cancellation behaves towards its neighbours like the sequential node of *)
(* OrderedNode: no gap, no reordering, close last.                         *)
(***************************************************************************)
BehavesInOrder == Ordered!Spec

=============================================================================
