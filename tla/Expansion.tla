------------------------------ MODULE Expansion ------------------------------
(***************************************************************************)
(* From a configuration with includes and subgraph instances to a flat     *)
(* one: the files named by include are merged into the library of          *)
(* subgraphs, and every instance is replaced by the nodes of its subgraph, *)
(* whose inner names get the label of the instance as a prefix and whose   *)
(* boundary ports are bound by position to the edges of the instance.      *)
(*                                                                         *)
(* A library is a function from the names of subgraphs to subgraphs; a     *)
(* file is [include, subgraphs].  A group of sync_set is a set of names.   *)
(***************************************************************************)
EXTENDS Ports, SequencesExt

Subgraph(nodes, ins, outs) == [nodes |-> nodes, ins |-> ins, outs |-> outs]
NoSubgraphs == [s \in {} |-> s]
NoRenames == [n \in {} |-> n]
Merged(f, g) == [x \in DOMAIN f \cup DOMAIN g |-> IF x \in DOMAIN g THEN g[x] ELSE f[x]]

---------------------------------------------------------------------------
(* resolve_includes: got is [ok, visited, lib], the work done so far.       *)

RECURSIVE MergeInclude(_, _, _)

\* A file that was read before is skipped; a subgraph is defined once.
MergeInclude(files, got, path) ==
    IF ~got.ok \/ path \notin DOMAIN files THEN [got EXCEPT !.ok = FALSE]
    ELSE IF path \in got.visited THEN got
    ELSE LET file == files[path]
             inner == FoldLeft(LAMBDA g, p : MergeInclude(files, g, p),
                               [got EXCEPT !.visited = @ \cup {path}], file.include)
         IN  IF inner.ok /\ DOMAIN inner.lib \cap DOMAIN file.subgraphs = {}
             THEN [inner EXCEPT !.lib = Merged(@, file.subgraphs)]
             ELSE [inner EXCEPT !.ok = FALSE]

\* The library of the main file with everything it includes.
Library(files, main) ==
    FoldLeft(LAMBDA g, p : MergeInclude(files, g, p),
             [ok |-> TRUE, visited |-> {main}, lib |-> files[main].subgraphs],
             files[main].include)

---------------------------------------------------------------------------

Label(node) ==
    IF node.name # NoName THEN node.name
    ELSE IF node.kernel # "" THEN <<node.kernel>> ELSE <<node.type>>

RemapName(name, prefix, rename) ==
    IF name \in DOMAIN rename THEN rename[name] ELSE prefix \o name

\* reassemble: the index of a port without a tag is dropped.
RemapPorts(decls, prefix, rename) ==
    [i \in DOMAIN decls |->
        [tag |-> decls[i].tag,
         index |-> IF decls[i].tag = "" THEN Auto ELSE decls[i].index,
         name |-> RemapName(decls[i].name, prefix, rename)]]

InlinedQueues(node, prefix, rename) ==
    LET ports == node.queues.ports
        new(n) == RemapName(n, prefix, rename)
    IN  [m \in {new(n) : n \in DOMAIN ports} |-> ports[CHOOSE n \in DOMAIN ports : new(n) = m]]

\* A kernel or a route node, renamed: every field that names a port follows.
Inlined(node, prefix, rename) ==
    LET new(n) == RemapName(n, prefix, rename)
    IN  [node EXCEPT
          !.name = IF prefix = NoName THEN @ ELSE prefix \o Label(node),
          !.ins = RemapPorts(@, prefix, rename),
          !.outs = RemapPorts(@, prefix, rename),
          !.back = {new(n) : n \in @},
          !.policy.sets = [i \in DOMAIN @ |-> {new(n) : n \in @[i]}],
          !.queues.ports = InlinedQueues(node, prefix, rename),
          !.route.rules = [i \in DOMAIN @ |-> [@[i] EXCEPT !.to = new(@)]],
          !.route.unmatched = IF @ \in {<<"drop">>, <<"error">>} THEN @ ELSE new(@)]

\* Mutated: the ports of an instance are bound in the reverse order.
BindReversed(decls, edges) ==
    [n \in Names(decls) |-> edges[Len(edges) + 1 - (CHOOSE i \in DOMAIN decls : decls[i].name = n)].name]

\* bind_boundary: from the inner names of ports to the edges of the instance;
\* the last of two ports with one name counts.
Bind(decls, edges) ==
    [n \in Names(decls) |->
        edges[CHOOSE i \in DOMAIN decls :
                /\ decls[i].name = n
                /\ \A j \in DOMAIN decls : decls[j].name = n => j <= i].name]

Failed == [ok |-> FALSE, nodes |-> <<>>]

RECURSIVE Inline(_, _, _, _, _)

\* inline for one node: itself, or the nodes of its subgraph.
InlineNode(lib, node, prefix, rename, stack) ==
    LET ins == RemapPorts(node.ins, prefix, rename)
        outs == RemapPorts(node.outs, prefix, rename)
    IN  CASE ~\A d \in ToSet(node.ins) \cup ToSet(node.outs) : Parses(d) -> Failed
          [] node.type = "" ->
                [ok |-> node.kernel # "", nodes |-> <<Inlined(node, prefix, rename)>>]
          [] node.type = "route" ->
                [ok |-> node.kernel = "", nodes |-> <<Inlined(node, prefix, rename)>>]
          [] OTHER ->
                IF \/ node.kernel # "" \/ node.type \notin DOMAIN lib \/ node.type \in stack
                   \/ Len(lib[node.type].ins) # Len(ins) \/ Len(lib[node.type].outs) # Len(outs)
                   \/ ~\A d \in ToSet(lib[node.type].ins) \cup ToSet(lib[node.type].outs) : Parses(d)
                THEN Failed
                ELSE Inline(lib, lib[node.type].nodes, prefix \o Label(node),
                            Merged(Bind(lib[node.type].ins, ins), Bind(lib[node.type].outs, outs)), stack \cup {node.type})

Inline(lib, nodes, prefix, rename, stack) ==
    LET parts == [i \in DOMAIN nodes |-> InlineNode(lib, nodes[i], prefix, rename, stack)]
    IN  IF \A i \in DOMAIN parts : parts[i].ok
        THEN [ok |-> TRUE, nodes |-> FlattenSeq([i \in DOMAIN parts |-> parts[i].nodes])]
        ELSE Failed

Expand(lib, nodes) == Inline(lib, nodes, NoName, NoRenames, {})
=============================================================================
