------------------------------ MODULE GraphPlan ------------------------------
(***************************************************************************)
(* What a flat configuration must satisfy to be built, in the three places *)
(* that check it: check_supported on the configuration alone, the          *)
(* executors and groups of validate_preflight_executors, and the plan that *)
(* wires the ports by their names into edges.  An error is only a refusal  *)
(* here, so the order of the checks is left out; the plan is kept by names *)
(* instead of numbers of edges.                                            *)
(***************************************************************************)
EXTENDS Expansion, Relation, Routing

CONSTANT Cores            \* what available_parallelism reports

---------------------------------------------------------------------------
(* The configuration: what its records hold and what a field defaults to.   *)

NoRoute == [given |-> FALSE, mode |-> "first", unmatched |-> <<"drop">>, rules |-> <<>>]
\* What parsing leaves in a node without route fields, all of which default.
ImplicitRoute == [NoRoute EXCEPT !.given = TRUE]

DefaultPolicy == [type |-> "sync", capacity |-> 0, sets |-> <<>>]

\* Capacities by port; a port with Inherit takes that of the node, 0 is none.
Inherit == -1
DefaultQueues == [packets |-> 0, ports |-> NoRenames]

\* Rates: "none" is 0; "tiny" has no representable period; "bad" is negative,
\* infinite or not a number.
DefaultNode ==
    [name |-> NoName, kernel |-> "", type |-> "", ins |-> <<>>, outs |-> <<>>, back |-> {},
     executor |-> "", mif |-> 0, policy |-> DefaultPolicy, queues |-> DefaultQueues,
     onError |-> "", rate |-> "none", route |-> ImplicitRoute]

\* tuned: cores or a real-time priority are given.
Executor(name, type, threads, tuned) ==
    [name |-> name, type |-> type, threads |-> threads, tuned |-> tuned]

\* The files hold the main file and those it may include.
MainFile == "main"
DefaultConfig ==
    [nodes |-> <<>>, ins |-> <<>>, outs |-> <<>>, executors |-> <<>>, stats |-> "", timing |-> "",
     files |-> [f \in {MainFile} |-> [include |-> <<>>, subgraphs |-> NoSubgraphs]]]

---------------------------------------------------------------------------
(* check_supported.                                                         *)

RuleSupported(rule, outs) ==
    /\ rule.to \in Names(outs)
    /\ IF rule.default THEN rule.when = NoPredicate
       ELSE rule.when # NoPredicate /\ Validate(rule.when)

RouteSupported(n) ==
    IF n.type = "route"
    THEN /\ n.route.given /\ n.kernel = "" /\ Len(n.ins) = 1 /\ n.outs # <<>>
         /\ \A i \in DOMAIN n.outs : Parses(n.outs[i])
         /\ \A r \in ToSet(n.route.rules) : RuleSupported(r, n.outs)
         /\ Cardinality({i \in DOMAIN n.route.rules : n.route.rules[i].default}) <= 1
         /\ n.route.unmatched \in {<<"drop">>, <<"error">>} \cup Names(n.outs)
         /\ n.route.rules # <<>> \/ n.route.unmatched # <<"drop">>
    ELSE n.route \in {NoRoute, ImplicitRoute}

RateSupported(n) == n.rate # "none" => n.ins = <<>> /\ n.rate = "ok"

PolicySupported(p) ==
    \/ p.type \in {"sync", "immediate"}
    \/ p.type \in {"fixed_size", "batch"} /\ p.capacity >= 1
    \/ p.type = "sync_set" /\ p.sets # <<>>

QueuesSupported(n) ==
    LET limited == {p \in DOMAIN n.queues.ports : n.queues.ports[p] \notin {Inherit, 0}}
    IN  /\ DOMAIN n.queues.ports \subseteq Names(n.ins)
        /\ limited \cap n.back = {}
        /\ n.queues.packets # 0 \/ limited # {} => n.policy.type # "fixed_size"

\* Mutated: all the inputs of a node may be back edges.
BackEdgesSupportedAll(n) == n.back \subseteq Names(n.ins)

BackEdgesSupported(n) ==
    n.back # {} =>
        /\ n.back \subseteq Names(n.ins)
        /\ Names(n.ins) \ n.back # {}
        /\ n.policy.type = "sync_set" => \A i \in DOMAIN n.policy.sets : n.policy.sets[i] \cap n.back = {}

ExecutorTypes == {"", "ThreadPoolExecutor", "DelegatingExecutor"}

Supported(config) ==
    /\ config.stats = "" \/ config.timing = ""
    /\ \A n \in ToSet(config.nodes) :
          /\ \A d \in ToSet(n.ins) : Parses(d)
          /\ RouteSupported(n) /\ RateSupported(n) /\ PolicySupported(n.policy)
          /\ QueuesSupported(n) /\ BackEdgesSupported(n)
          /\ n.onError \in {"", "abort", "skip"}
    /\ \A x \in ToSet(config.executors) : x.type \in ExecutorTypes

---------------------------------------------------------------------------
(* validate_preflight_executors.                                            *)

ExecutorFits(x) ==
    /\ x.name \notin {"", "default"} /\ x.type \in ExecutorTypes
    /\ x.type = "DelegatingExecutor" => x.threads = 0 /\ ~x.tuned

AtLeastOne(n) == IF n = 0 THEN 1 ELSE n

Threads(config, node) ==
    IF node.executor = "" THEN Cores
    ELSE AtLeastOne((CHOOSE x \in ToSet(config.executors) : x.name = node.executor).threads)

\* The groups of sync_set partition the ports.
IsPartition(sets, names) ==
    /\ \A i \in DOMAIN sets : sets[i] # {} /\ sets[i] \subseteq names
    /\ \A i, j \in DOMAIN sets : i # j => sets[i] \cap sets[j] = {}
    /\ names = UNION ToSet(sets)

\* Mutated: groups are not checked before the graph is built.
NodeFitsUngrouped(config, n) ==
    LET named == {x \in ToSet(config.executors) : x.name = n.executor}
    IN  /\ n.executor # "" => named # {}
        /\ n.mif > 1 => Threads(config, n) >= 2
        /\ n.ins = <<>> => \A x \in named : x.type # "DelegatingExecutor"

NodeFits(config, n) ==
    LET named == {x \in ToSet(config.executors) : x.name = n.executor}
    IN  /\ n.executor # "" => named # {}
        /\ n.mif > 1 => Threads(config, n) >= 2
        /\ n.ins = <<>> => \A x \in named : x.type # "DelegatingExecutor"
        /\ n.policy.type = "sync_set" => IsPartition(n.policy.sets, Names(n.ins))

Preflight(config) ==
    /\ \A i, j \in DOMAIN config.executors :
          i # j => config.executors[i].name # config.executors[j].name
    /\ \A x \in ToSet(config.executors) : ExecutorFits(x)
    /\ \A n \in ToSet(config.nodes) : NodeFits(config, n)

---------------------------------------------------------------------------
(* GraphPlan::build.                                                        *)

GraphInput == 0           \* the producer of an edge that the host feeds

Producers(config, name) ==
    {i \in DOMAIN config.nodes : name \in Names(config.nodes[i].outs)}
    \cup (IF name \in Names(config.ins) THEN {GraphInput} ELSE {})

Edges(config) ==
    Names(config.ins) \cup UNION {Names(n.outs) : n \in ToSet(config.nodes)}

Wired(config) ==
    /\ \A d \in ToSet(config.ins) \cup ToSet(config.outs) : Parses(d)
    /\ Cardinality(Names(config.ins)) = Len(config.ins)
    /\ \A n \in ToSet(config.nodes) : IsPortTable(n.ins) /\ IsPortTable(n.outs)
    /\ \A name \in Edges(config) : Cardinality(Producers(config, name)) = 1
    /\ \A n \in ToSet(config.nodes) : Names(n.ins) \subseteq Edges(config)
    /\ Names(config.outs) \subseteq Edges(config)

\* Mutated: feedback is only looked for between two nodes, so a node may
\* feed itself.
AcyclicBetween(config) ==
    LET nodes == DOMAIN config.nodes
        feeds == [p \in nodes \X nodes |->
                    p[1] # p[2] /\ Names(config.nodes[p[1]].outs) \cap
                        (Names(config.nodes[p[2]].ins) \ config.nodes[p[2]].back) # {}]
    IN  IsIrreflexive(TransitiveClosure(feeds, nodes), nodes)

\* check_preflight_acyclic: no node feeds itself but through a back edge.
Acyclic(config) ==
    LET nodes == DOMAIN config.nodes
        feeds == [p \in nodes \X nodes |->
                    Names(config.nodes[p[1]].outs) \cap
                        (Names(config.nodes[p[2]].ins) \ config.nodes[p[2]].back) # {}]
    IN  IsIrreflexive(TransitiveClosure(feeds, nodes), nodes)

Plannable(config) == Preflight(config) /\ Wired(config) /\ Acyclic(config)

\* What the plan adds to the configuration.
Plan(config) ==
    LET node(i) == config.nodes[i]
    IN  [producer |-> [e \in Edges(config) |-> CHOOSE p \in Producers(config, e) : TRUE],
         consumers |-> [e \in Edges(config) |->
                          {<<i, port>> \in UNION {{i} \X DOMAIN node(i).ins : i \in DOMAIN config.nodes} :
                              node(i).ins[port].name = e}],
         back |-> [i \in DOMAIN config.nodes |->
                     [port \in DOMAIN node(i).ins |-> node(i).ins[port].name \in node(i).back]],
         outputs |-> Names(config.outs)]

---------------------------------------------------------------------------
(* GraphPlan::diagnostics: what check-config warns about in routes.         *)

\* Mutated: a rule repeats an earlier one when it has the same port.
ShadowedByPort(route) ==
    {i \in DOMAIN route.rules :
        /\ ~route.rules[i].default
        /\ \E j \in 1 .. i - 1 : ~route.rules[j].default /\ route.rules[j].to = route.rules[i].to}

\* The rules of a route in mode "first" that repeat an earlier condition.
Shadowed(route) ==
    {i \in DOMAIN route.rules :
        /\ ~route.rules[i].default
        /\ \E j \in 1 .. i - 1 : ~route.rules[j].default /\ route.rules[j].when = route.rules[i].when}

\* The rules in mode "all" that send a packet where an earlier one sent it.
Repeated(route) ==
    {i \in Shadowed(route) :
        \E j \in 1 .. i - 1 : /\ ~route.rules[j].default
                              /\ route.rules[j].when = route.rules[i].when
                              /\ route.rules[j].to = route.rules[i].to}

UnmatchedIsUnreachable(route) ==
    (\E r \in ToSet(route.rules) : r.default) /\ route.unmatched # <<"drop">>
=============================================================================
