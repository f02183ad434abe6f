---------------------------- MODULE Construction ----------------------------
(***************************************************************************)
(* From a configuration to a graph: includes, expansion, check_supported,  *)
(* plan, build.  A graph is loaded from a file or from text, which take    *)
(* every step, or from a configuration that the host put together, which   *)
(* starts with the plan.  The command check-config reads a file and stops  *)
(* at the plan.                                                            *)
(*                                                                         *)
(* config is rewritten by the steps; source keeps what the host supplied.  *)
(***************************************************************************)
EXTENDS GraphPlan

CONSTANTS
    Sources,              \* the configurations the host supplies, in groups
    Contracts,            \* of each registered kernel, what get_contract declares
    Types,                \* the valid identifiers of payload types
    Packets               \* [ts, meta]: the packets a route node may be given

VARIABLES source, entry, config, stage, graph
vars == <<source, entry, config, stage, graph>>

AnyType == 0
Registered == DOMAIN Contracts
NoGraph == [required |-> {}, hasSource |-> FALSE]

---------------------------------------------------------------------------
(* Contracts: a kernel declares types of ports by their number and the side *)
(* packets it needs; what it declares about a port it has not got, and a    *)
(* name that is empty, are errors.                                          *)

Declare(contract, call) ==
    CASE call.what \in {"ins", "outs"} ->
            IF call.port \in DOMAIN contract[call.what]
            THEN [contract EXCEPT ![call.what][call.port] = call.type]
            ELSE [contract EXCEPT !.failed = TRUE]
      [] call.what = "require" ->
            IF call.name # "" THEN [contract EXCEPT !.required = Append(@, call.name)]
            ELSE [contract EXCEPT !.failed = TRUE]
      [] call.what = "error" -> [contract EXCEPT !.failed = TRUE]

Contract(node) ==
    FoldLeft(Declare,
             [ins |-> [i \in DOMAIN node.ins |-> AnyType],
              outs |-> [i \in DOMAIN node.outs |-> AnyType], required |-> <<>>, failed |-> FALSE],
             IF node.type = "route" THEN <<>> ELSE Contracts[node.kernel])

ContractFits(c) ==
    /\ ~c.failed /\ ToSet(c.ins) \cup ToSet(c.outs) \subseteq Types
    /\ Cardinality(ToSet(c.required)) = Len(c.required)

\* get_contract, its validation and create, for one node.
Instance(node) ==
    IF node.type = "route" THEN IF node.route.given THEN "created" ELSE "panic"
    ELSE IF node.kernel \in Registered /\ ContractFits(Contract(node)) THEN "created"
    ELSE "refused"

\* check_edge_type_compatibility.
TypesAgree(nodes, plan) ==
    \A e \in DOMAIN plan.producer :
        plan.producer[e] # GraphInput =>
            LET maker == nodes[plan.producer[e]]
                made == Contract(maker).outs[CHOOSE i \in DOMAIN maker.outs : maker.outs[i].name = e]
            IN  \A c \in plan.consumers[e] :
                    LET wanted == Contract(nodes[c[1]]).ins[c[2]]
                    IN  AnyType \in {made, wanted} \/ made = wanted

\* What GraphInner::build refuses in a configuration whatever its kernels are.
PolicyBuilds(n) ==
    n.policy.type = "sync_set" => n.policy.sets # <<>> /\ IsPartition(n.policy.sets, Names(n.ins))
PeriodBuilds(n) == n.rate # "tiny"
ExecutorBuilds(x) == x.type = "DelegatingExecutor" => x.threads = 0 /\ ~x.tuned

EngineBuilds(c) ==
    /\ \A x \in ToSet(c.executors) : ExecutorBuilds(x)
    /\ \A n \in ToSet(c.nodes) : PolicyBuilds(n) /\ PeriodBuilds(n)

BuildOutcome(c) ==
    LET made == [i \in DOMAIN c.nodes |-> Instance(c.nodes[i])]
    IN  IF FirstOther(made, "created") # "created" THEN FirstOther(made, "created")
        ELSE IF TypesAgree(c.nodes, Plan(c)) /\ EngineBuilds(c) THEN "built" ELSE "refused"

\* The capacity of an input port of a node.
Capacity(n, port) ==
    LET name == n.ins[port].name
    IN  IF name \in DOMAIN n.queues.ports /\ n.queues.ports[name] # Inherit
        THEN n.queues.ports[name] ELSE n.queues.packets

---------------------------------------------------------------------------

Init ==
    /\ \E group \in DOMAIN Sources : source \in Sources[group]
    /\ entry \in {"file", "text", "config", "check"}
    /\ stage = IF entry = "check" THEN "file" ELSE entry
    /\ config = source /\ graph = NoGraph

\* from_yaml_file merges the included libraries; from_yaml takes no include.
Load ==
    /\ stage \in {"file", "text"}
    /\ LET all == Library(config.files, MainFile)
           ok == IF stage = "file" THEN all.ok ELSE config.files[MainFile].include = <<>>
       IN  /\ stage' = IF ok THEN "merged" ELSE "refused"
           /\ config' = IF stage = "file" THEN [config EXCEPT !.files[MainFile].subgraphs = all.lib] ELSE config
    /\ UNCHANGED <<source, entry, graph>>

ExpandAll ==
    /\ stage = "merged"
    /\ LET flat == Expand(config.files[MainFile].subgraphs, config.nodes)
       IN  /\ stage' = IF flat.ok THEN "flat" ELSE "refused"
           /\ config' = IF flat.ok THEN [config EXCEPT !.nodes = flat.nodes] ELSE config
    /\ UNCHANGED <<source, entry, graph>>

CheckSupported ==
    /\ stage = "flat"
    /\ stage' = IF Supported(config) THEN "config" ELSE "refused"
    /\ UNCHANGED <<source, entry, config, graph>>

MakePlan ==
    /\ stage = "config"
    /\ stage' = IF Plannable(config) THEN "planned" ELSE "refused"
    /\ UNCHANGED <<source, entry, config, graph>>

\* check-config prints the plan or the error and exits.
Report ==
    /\ entry = "check"
    /\ stage \in {"planned", "refused"}
    /\ stage' = IF stage = "planned" THEN "exit 0" ELSE "exit 1"
    /\ UNCHANGED <<source, entry, config, graph>>

Build ==
    /\ stage = "planned" /\ entry # "check"
    /\ stage' = BuildOutcome(config)
    /\ graph' = IF stage' # "built" THEN graph
                ELSE [required |-> UNION {ToSet(Contract(n).required) : n \in ToSet(config.nodes)},
                      hasSource |-> \E n \in ToSet(config.nodes) : n.ins = <<>>]
    /\ UNCHANGED <<source, entry, config>>

Next == Load \/ ExpandAll \/ CheckSupported \/ MakePlan \/ Report \/ Build
Spec == Init /\ [][Next]_vars

---------------------------------------------------------------------------
(* Properties.                                                              *)

Validated == entry # "config"
Accepted == stage = "built" /\ Validated

\* The nodes whose forward inputs all end once the graph inputs are closed
\* and the sources have finished, found in rounds.
Ended[round \in Nat] ==
    IF round = 0 THEN {}
    ELSE {i \in DOMAIN config.nodes :
            LET n == config.nodes[i]
                forward == Names(n.ins) \ n.back
            IN  /\ n.ins = <<>> \/ forward # {}
                /\ \A name \in forward : Plan(config).producer[name] \in {GraphInput} \cup Ended[round - 1]}

\* Every node of an accepted graph is a source or has a forward input, and
\* the graph drains: the end of the graph inputs and sources reaches every
\* node.  A cycle without a feedback register, or a node fed by such
\* registers alone, would wait forever, and wait_done with it.
AcceptedGraphDrains ==
    Accepted => Ended[Len(config.nodes)] = DOMAIN config.nodes

\* The ports of the kernel and route nodes in the order of expansion, each
\* with the wire it is on: the instance (by its path of positions) and the
\* name, seen through the boundaries of subgraphs.
RECURSIVE Leaves(_, _, _, _)
Leaves(lib, nodes, scope, env) ==
    LET wire(name) == IF name \in DOMAIN env THEN env[name] ELSE <<scope, name>>
        bound(ds, es) == [n \in Names(ds) |-> wire(es[CHOOSE i \in DOMAIN ds : ds[i].name = n].name)]
        leaf(n) == [ins |-> [i \in DOMAIN n.ins |->
                               [wire |-> wire(n.ins[i].name), back |-> n.ins[i].name \in n.back,
                                capacity |-> Capacity(n, i)]],
                    outs |-> [i \in DOMAIN n.outs |-> wire(n.outs[i].name)]]
    IN  FlattenSeq([i \in DOMAIN nodes |->
            IF nodes[i].type \in {"", "route"} THEN <<leaf(nodes[i])>>
            ELSE LET sub == lib[nodes[i].type]
                 IN  Leaves(lib, sub.nodes, Append(scope, i),
                            Merged(bound(sub.ins, nodes[i].ins), bound(sub.outs, nodes[i].outs)))])

\* Expansion keeps the wiring: two ports of an accepted graph are on one edge
\* exactly when they are on one wire of the graph with its subgraphs, and
\* feedback and queue capacities stay with their ports.
ExpansionKeepsWiring ==
    Accepted =>
        LET leaves == Leaves(Library(config.files, MainFile).lib, source.nodes, <<>>, NoRenames)
            ends == {<<i, "in", p>> : <<i, p>> \in
                        UNION {{i} \X DOMAIN leaves[i].ins : i \in DOMAIN leaves}}
                    \cup {<<i, "out", p>> : <<i, p>> \in
                        UNION {{i} \X DOMAIN leaves[i].outs : i \in DOMAIN leaves}}
            edge(x) == IF x[2] = "in" THEN config.nodes[x[1]].ins[x[3]].name
                       ELSE config.nodes[x[1]].outs[x[3]].name
            wire(x) == IF x[2] = "in" THEN leaves[x[1]].ins[x[3]].wire ELSE leaves[x[1]].outs[x[3]]
        IN  /\ DOMAIN leaves = DOMAIN config.nodes
            /\ \A x, y \in ends : edge(x) = edge(y) <=> wire(x) = wire(y)
            /\ \A i \in DOMAIN leaves : \A p \in DOMAIN leaves[i].ins :
                  /\ leaves[i].ins[p].back <=> Plan(config).back[i][p]
                  /\ leaves[i].ins[p].capacity = Capacity(config.nodes[i], p)

\* No configuration passes check-config and then fails to build: what the
\* plan of a validated configuration accepts is built, unless its kernels
\* refuse.
PlannedIsBuilt ==
    stage \in {"planned", "exit 0"} /\ Validated =>
        EngineBuilds(config) /\ \A n \in ToSet(config.nodes) : Instance(n) # "panic"

\* The route nodes of an accepted graph.
Routes == {n \in ToSet(config.nodes) : n.type = "route"}
Routed(n, packet) == RouteProcess(n.route, Names(n.outs), packet)

\* What validation accepts, evaluation takes: whatever the packet, a route
\* node neither panics nor misses its port, and in mode "first" it emits by
\* one rule at most.
RoutesAreTotal ==
    Accepted => \A n \in Routes, packet \in Packets :
        /\ Routed(n, packet).end \notin {"panic", "unknown port"}
        /\ n.route.mode = "first" => Cardinality(Routed(n, packet).rules) <= 1

\* The warnings of the plan are true: no packet is ever routed by a rule that
\* is reported as shadowed, a rule reported as repeated emits only what went
\* to its port before, and no packet is left unmatched where that is reported
\* as unreachable.
WarningsAreTrue ==
    Accepted => \A n \in Routes, packet \in Packets :
        /\ n.route.mode = "first" => Routed(n, packet).rules \cap Shadowed(n.route) = {}
        /\ n.route.mode = "all" =>
              \A i \in Routed(n, packet).rules \cap Repeated(n.route) :
                  \E j \in Routed(n, packet).rules : j < i /\ n.route.rules[j].to = n.route.rules[i].to
        /\ UnmatchedIsUnreachable(n.route) =>
              Routed(n, packet).end # "unmatched" /\ (Routed(n, packet).end = "emitted" => Routed(n, packet).rules # {})

=============================================================================
