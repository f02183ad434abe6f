------------------------------- MODULE Routing -------------------------------
(***************************************************************************)
(* Conditional routing: predicates on the metadata and the timestamp of a  *)
(* packet, and the built-in kernel of a route node that evaluates them.    *)
(*                                                                         *)
(* A predicate is one of                                                   *)
(*   [kind |-> "all" / "any", of |-> <<...>>]   [kind |-> "not", inner]    *)
(*   [kind |-> "timestamp", op, value]   [kind |-> "metadata", key, op, value] *)
(* A value has a type and a number for its place in the order of its type; *)
(* a string contains another when it is not below it.  An evaluation ends  *)
(* in "yes" or "no", in an error, or in a panic on a missing value.        *)
(***************************************************************************)
EXTENDS Naturals, Sequences

NoPredicate == [kind |-> "none"]
NoValue == [type |-> "none", rank |-> 0]
NoKey == ""
Numeric == {"i64", "f64"}

RECURSIVE Validate(_)

\* Mutated: a comparison of timestamps may lack its value.
ValidateLoosely(p) ==
    CASE p.kind \in {"all", "any"} -> p.of # <<>> /\ \A i \in DOMAIN p.of : Validate(p.of[i])
      [] p.kind = "not" -> Validate(p.inner)
      [] p.kind = "timestamp" -> p.op \notin {"exists", "contains"}
      [] p.kind = "metadata" ->
            /\ p.key # NoKey
            /\ p.op = "exists" <=> p.value = NoValue
            /\ p.op = "contains" => p.value.type = "string"

Validate(p) ==
    CASE p.kind \in {"all", "any"} -> p.of # <<>> /\ \A i \in DOMAIN p.of : Validate(p.of[i])
      [] p.kind = "not" -> Validate(p.inner)
      [] p.kind = "timestamp" -> p.op \notin {"exists", "contains"} /\ p.value # NoValue
      [] p.kind = "metadata" ->
            /\ p.key # NoKey
            /\ p.op = "exists" <=> p.value = NoValue
            /\ p.op = "contains" => p.value.type = "string"

Holds(l, op, r) ==
    CASE op = "eq" -> l = r   [] op = "ne" -> l # r
      [] op = "gt" -> l > r   [] op \in {"gte", "contains"} -> l >= r
      [] op = "lt" -> l < r   [] op = "lte" -> l <= r

\* Numbers compare with numbers, everything else within its type.
Compare(actual, op, expected) ==
    IF expected = NoValue THEN "panic"
    ELSE IF /\ actual.type = expected.type \/ {actual.type, expected.type} \subseteq Numeric
            /\ op # "exists"
            /\ op = "contains" => actual.type = "string"
    THEN IF Holds(actual.rank, op, expected.rank) THEN "yes" ELSE "no"
    ELSE "error"

\* The first result that is not x, or x: && and || look no further.
FirstOther(results, x) ==
    LET other == {i \in DOMAIN results : results[i] # x}
    IN  IF other = {} THEN x
        ELSE results[CHOOSE i \in other : \A j \in other : i <= j]

RECURSIVE Evaluate(_, _)
Evaluate(p, packet) ==
    CASE p.kind = "none" -> "error"
      [] p.kind = "all" -> FirstOther([i \in DOMAIN p.of |-> Evaluate(p.of[i], packet)], "yes")
      [] p.kind = "any" -> FirstOther([i \in DOMAIN p.of |-> Evaluate(p.of[i], packet)], "no")
      [] p.kind = "not" -> LET r == Evaluate(p.inner, packet)
                           IN  CASE r = "yes" -> "no" [] r = "no" -> "yes" [] OTHER -> r
      [] p.kind = "timestamp" -> Compare([type |-> "i64", rank |-> packet.ts], p.op, p.value)
      [] p.kind = "metadata" ->
            IF p.key \notin DOMAIN packet.meta THEN "no"
            ELSE IF p.op = "exists" THEN "yes"
            ELSE Compare(packet.meta[p.key], p.op, p.value)

---------------------------------------------------------------------------
(* A rule is [to, default, when]; a route has its rules, a mode and what    *)
(* becomes of a packet that no rule takes.                                  *)

Result(route, i, packet) ==
    IF route.rules[i].default THEN "no" ELSE Evaluate(route.rules[i].when, packet)

\* Mutated: "first" goes on after a hit.
LookedAtAll(route, packet) ==
    {i \in DOMAIN route.rules :
        \A j \in 1 .. i - 1 : Result(route, j, packet) \in {"yes", "no"}}

\* The rules that are evaluated: none after an error, nor after the first hit
\* in mode "first".
LookedAt(route, packet) ==
    {i \in DOMAIN route.rules :
        \A j \in 1 .. i - 1 :
            \/ Result(route, j, packet) = "no"
            \/ Result(route, j, packet) = "yes" /\ route.mode = "all"}

\* route_process: how the call ends and the rules by which it emits; an
\* unmatched packet goes by the last default rule, or to route.unmatched.
RouteProcess(route, outputs, packet) ==
    LET seen == LookedAt(route, packet)
        failed == {i \in seen : Result(route, i, packet) \notin {"yes", "no"}}
        hits == {i \in seen : Result(route, i, packet) = "yes"}
        defaults == {i \in seen : route.rules[i].default}
        by == IF hits # {} THEN hits
              ELSE {i \in defaults : \A j \in defaults : j <= i}
        targets == IF by # {} THEN {route.rules[i].to : i \in by} ELSE {route.unmatched}
    IN  IF failed # {}
        THEN [end |-> Result(route, CHOOSE i \in failed : TRUE, packet), rules |-> {}]
        ELSE IF by = {} /\ route.unmatched = <<"drop">> THEN [end |-> "dropped", rules |-> {}]
        ELSE IF by = {} /\ route.unmatched = <<"error">> THEN [end |-> "unmatched", rules |-> {}]
        ELSE [end |-> IF targets \subseteq outputs THEN "emitted" ELSE "unknown port", rules |-> by]
=============================================================================
