--------------------------- MODULE MCConstruction ---------------------------
\* Configurations for the construction runs: one slice for each group of
\* rules, around a default node and a default configuration.
EXTENDS Construction

P(x) == Port("", Auto, <<x>>)
Ps(names) == FoldLeft(LAMBDA ports, x : Append(ports, P(x)), <<>>, names)

Node == [DefaultNode EXCEPT !.kernel = "k"]
NodeOf(ins, outs) == [Node EXCEPT !.ins = Ps(ins), !.outs = Ps(outs)]
Config(nodes, ins, outs) ==
    [DefaultConfig EXCEPT !.nodes = nodes, !.ins = Ps(ins), !.outs = Ps(outs)]

\* Three nodes that feed one another, in every way, with feedback inputs.
Fed(out, ins) == {[NodeOf(ins, <<out>>) EXCEPT !.back = {<<b>> : b \in back}] : back \in SUBSET {ins[i] : i \in DOMAIN ins}}
Inputs(out) == UNION {Fed(out, ins) : ins \in {<<>>} \cup {<<x>> : x \in {"in", "a", "b"}} \cup
                      {<<"in", "a">>, <<"in", "b">>, <<"a", "b">>, <<"a", "c">>, <<"b", "c">>}}
Topologies ==
    {Config(<<x, y, z>>, <<"in">>, <<"c">>) :
        x \in Inputs("a"), y \in Inputs("b"), z \in Fed("c", <<"b">>) \cup Fed("c", <<"a", "b">>)}

\* Producers that are missing or more than one, graph inputs among them.
Producing == {NodeOf(ins, outs) : ins \in {<<>>, <<"a">>, <<"b">>}, outs \in {<<>>, <<"a">>, <<"b">>, <<"a", "b">>}}
Plumbing ==
    {Config(<<x, y>>, ins, outs) : x, y \in Producing, ins \in {<<>>, <<"a">>, <<"a", "a">>},
                                   outs \in {<<>>, <<"b">>}}

\* Tags and indices of ports.
Tags == {Config(<<[Node EXCEPT !.ins = <<Port(t, i, <<"a">>), Port(u, j, x)>>]>>, <<"a", "b">>, <<>>) :
           t, u \in {"", "T"}, i, j \in {Auto, 0, 1}, x \in {NoName, <<"a">>, <<"b">>}}
\* Without indices on ports that have no tag, which the expansion loses.
NoBareIndex == {c \in Tags : \A d \in ToSet(c.nodes[1].ins) : d.tag = "" => d.index = Auto}

Policies ==
    {Config(<<[NodeOf(<<"a", "b">>, <<"c">>) EXCEPT
                 !.policy = [type |-> t, capacity |-> n, sets |-> s], !.back = back,
                 !.queues = [packets |-> q, ports |-> ports]]>>, <<"a", "b">>, <<"c">>) :
        t \in {"sync", "immediate", "fixed_size", "batch", "sync_set", "latest"}, n \in 0 .. 1,
        s \in {<<>>, <<{<<"a">>}, {<<"b">>}>>, <<{<<"a">>, <<"b">>}>>, <<{<<"a">>}>>,
               <<{}, {<<"a">>, <<"b">>}>>, <<{<<"a">>}, {<<"a">>, <<"b">>}>>},
        back \in {{}, {<<"b">>}, {<<"a">>, <<"b">>}}, q \in 0 .. 1,
        ports \in {NoRenames, (<<"a">> :> 0), (<<"b">> :> 1), (<<"z">> :> Inherit)}}

Pool == Executor("p", "", 2, FALSE)
Delegating == Executor("d", "DelegatingExecutor", 0, FALSE)
Running ==
    {[Config(<<[NodeOf(ins, <<"b">>) EXCEPT !.rate = r, !.onError = o, !.executor = x, !.mif = m]>>,
             <<"a">>, <<"b">>) EXCEPT !.executors = xs] :
        ins \in {<<>>, <<"a">>}, r \in {"none", "ok", "bad", "tiny"}, o \in {"", "skip", "retry"},
        x \in {"", "p", "d"}, m \in {0, 2},
        xs \in {<<>>, <<Pool, Delegating>>, <<Pool, Pool>>, <<Executor("p", "", 0, TRUE)>>,
                <<Executor("d", "DelegatingExecutor", 1, FALSE)>>, <<Executor("default", "", 1, FALSE)>>,
                <<Executor("p", "Fibers", 1, FALSE)>>}}

Statistics ==
    {[Config(<<NodeOf(<<"a">>, <<"b">>)>>, <<"a">>, <<"b">>) EXCEPT !.stats = s, !.timing = t] :
        s \in {"", "full"}, t \in {"", "true"}}

\* Conditions that are valid and that are not.
Value(t, n) == [type |-> t, rank |-> n]
OnTime(op, v) == [kind |-> "timestamp", op |-> op, value |-> v]
OnKey(key, op, v) == [kind |-> "metadata", key |-> key, op |-> op, value |-> v]
Basic == {OnTime("gt", Value("i64", 0)), OnTime("exists", NoValue), OnTime("lte", NoValue),
          OnKey("m", "exists", NoValue), OnKey("m", "eq", Value("i64", 1)),
          OnKey("m", "contains", Value("string", 1)), OnKey("m", "contains", Value("f64", 1)),
          OnKey("m", "ne", NoValue), OnKey("", "exists", NoValue)}
Conditions == Basic \cup {NoPredicate} \cup {[kind |-> "not", inner |-> p] : p \in Basic}
    \cup {[kind |-> k, of |-> s] : k \in {"all", "any"},
            s \in {<<>>, <<OnTime("gt", Value("i64", 0)), OnKey("m", "lt", Value("f64", 2))>>,
                   <<OnKey("m", "exists", NoValue), OnTime("ne", NoValue)>>}}
Rules == {[to |-> <<x>>, default |-> d, when |-> w] :
            x \in {"x", "z"}, d \in BOOLEAN, w \in Conditions}
RuleSeqs == {<<>>} \cup {<<r>> : r \in Rules}
    \cup {<<r, q>> : r \in {r \in Rules : r.to = <<"x">>},
                     q \in {q \in Rules : q.to = <<"x">> /\ q.when \in Basic \cup {NoPredicate}}}
Route(rules, mode, unmatched) == [given |-> TRUE, mode |-> mode, unmatched |-> <<unmatched>>, rules |-> rules]
RouteNode(r, t, k) ==
    [NodeOf(<<"a">>, <<"x", "y">>) EXCEPT !.type = t, !.kernel = k, !.route = r]
Routings ==
    {Config(<<RouteNode(Route(rs, m, u), "route", "")>>, <<"a">>, <<"x">>) :
        rs \in RuleSeqs, m \in {"first", "all"}, u \in {"drop", "error", "y", "z"}}
PlainRoutings ==
    {Config(<<RouteNode(r, t, k)>>, <<"a">>, <<"x">>) :
        r \in {NoRoute, ImplicitRoute, Route(<<>>, "first", "x")}, t \in {"", "route"}, k \in {"", "k"}}

\* Subgraphs: Inner takes i to o by two nodes in every way, Outer uses Inner.
Instance2(name, type, ins, outs) == [NodeOf(ins, outs) EXCEPT !.name = name, !.type = type, !.kernel = ""]
Sub(nodes, ins, outs) == Subgraph(nodes, Ps(ins), Ps(outs))
Inners == {Sub(<<x, y>>, <<"i">>, <<"o">>) :
             x \in {NodeOf(<<p>>, <<q>>) : p \in {"i", "t"}, q \in {"t", "o"}},
             y \in {[NodeOf(<<"t">> \o more, <<q>>) EXCEPT !.back = back, !.queues.ports = (<<"t">> :> 1)] :
                      more \in {<<>>, <<"i">>, <<"o">>}, q \in {"o", "u"}, back \in {{}, {<<"o">>}}}}
Outers == {Sub(<<Instance2(NoName, "inner", <<x>>, <<"t">>), [NodeOf(<<y, "t">>, <<"o">>) EXCEPT !.name = <<"n">>]>>,
               <<"i", "j">>, <<"o">>) : x, y \in {"i", "j"}}
    \cup {Sub(<<Instance2(<<"d">>, "outer", <<"i", "j">>, <<"o">>)>>, <<"i", "j">>, <<"o">>)}
Trees == {<<Instance2(l, s, <<"a", "b">>, <<"c">>), Instance2(m, "inner", x, <<"e">>)>> :
             l, m \in {NoName, <<"d">>}, s \in {"outer", "nothing"}, x \in {<<"a">>, <<"c">>, <<"a", "c">>}}
InFiles(inner, outer, include, again) ==
    (MainFile :> [include |-> include,
                  subgraphs |-> IF include = <<>> THEN ("inner" :> inner) @@ ("outer" :> outer) ELSE NoSubgraphs])
    @@ ("one" :> [include |-> <<"two">>, subgraphs |-> ("outer" :> outer)])
    @@ ("two" :> [include |-> again, subgraphs |-> ("inner" :> inner)])
Subgraphs ==
    {[Config(t, <<"a", "b">>, <<"e">>) EXCEPT !.files = InFiles(inner, outer, include, <<MainFile>>)] :
        t \in Trees, inner \in Inners, outer \in Outers, include \in {<<>>}}
Included ==
    {[Config(<<Instance2(<<"d">>, "outer", <<"a", "b">>, <<"c">>)>>, <<"a", "b">>, <<"c">>)
            EXCEPT !.files = InFiles(Sub(<<NodeOf(<<"i">>, <<"o">>)>>, <<"i">>, <<"o">>),
                                     CHOOSE s \in Outers : Len(s.nodes) = 2, include, again)] :
            include \in {<<"one">>, <<"one", "two">>, <<"none">>}, again \in {<<>>, <<MainFile, "one">>, <<"none">>}}

\* Kernels and what they declare.
MCContracts ==
    LET type(w, p, t) == [what |-> w, port |-> p, type |-> t]
    IN  ("k" :> <<>>) @@ ("one" :> <<type("ins", 1, 1), type("outs", 1, 1)>>)
        @@ ("two" :> <<type("outs", 1, 2)>>) @@ ("odd" :> <<type("ins", 1, 9)>>)
        @@ ("far" :> <<type("ins", 3, 1)>>)
        @@ ("need" :> <<[what |-> "require", name |-> "w"]>>)
        @@ ("bare" :> <<[what |-> "require", name |-> ""]>>)
        @@ ("fail" :> <<[what |-> "error"]>>)
Chains == {Config(<<[NodeOf(<<"a">>, <<"b">>) EXCEPT !.kernel = k], [NodeOf(<<"b">>, <<"c">>) EXCEPT !.kernel = l]>>,
                  <<"a">>, <<"c">>) : k, l \in DOMAIN MCContracts \cup {"absent", ""}}

Value1(t, n) == [ts |-> n, meta |-> ("m" :> Value(t, n))]
MCPackets == {Value1(t, n) : t \in {"i64", "f64", "string", "bool"}, n \in 0 .. 1}
             \cup {[ts |-> 1, meta |-> NoRenames]}
MCTypes == 0 .. 2

MCSources ==
    <<Topologies, Plumbing, NoBareIndex, Policies, Running, Statistics, Routings, PlainRoutings,
           Subgraphs, Included, Chains>>
=============================================================================
