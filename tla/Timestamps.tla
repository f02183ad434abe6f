----------------------------- MODULE Timestamps -----------------------------
(***************************************************************************)
(* Timestamp: an i64 whose two ends are taken by sentinels.  The scale     *)
(* here keeps all of them and Span ordinary values, so that the ends of    *)
(* the range are a few steps apart:                                        *)
(*                                                                         *)
(*   Unset < Unstarted < PreStream < MinTime .. MaxTime < PostStream       *)
(*         < OneOverPostStream < Done                                      *)
(***************************************************************************)
EXTENDS Naturals

CONSTANT Span       \* bound: ordinary timestamps, MinTime .. MaxTime

ASSUME SpanAssumption == Span \in Nat \ {0}

Unset == 0
Unstarted == 1
PreStream == 2
MinTime == 3
MaxTime == Span + 2
PostStream == Span + 3
OneOverPostStream == Span + 4
Done == Span + 5

Timestamp == Unset .. Done

\* Mutated: the packet at MaxTime is followed by its own timestamp.
NextSaturating(t) ==
    IF t = PreStream THEN OneOverPostStream
    ELSE IF t < MinTime THEN MinTime
    ELSE IF t < MaxTime THEN t + 1 ELSE MaxTime

\* next_allowed_in_stream: the bound a packet at t leaves behind.
NextAllowedInStream(t) ==
    IF t >= MaxTime \/ t = PreStream THEN OneOverPostStream
    ELSE IF t < MinTime THEN MinTime
    ELSE t + 1

AtLeast(t, u) == IF t < u THEN u ELSE t
=============================================================================
