----------------------------- MODULE GraphTool -----------------------------
(***************************************************************************)
(* The graphviz tool (tools/rex-tool-graphviz): validation of a semantic    *)
(* graph, its DOT text as a sequence of statements, the plan and answer.    *)
(*                                                                          *)
(* A scope is [nodes, edges, attributes, marks], marks standing for the     *)
(* attributes of its nodes; a graph is a scope with defaults (those of all  *)
(* nodes and edges) and subgraphs, a function from keys to scopes with      *)
(* children (a sequence of keys).  Nodes and keys are numbers, in the order *)
(* of their names.                                                          *)
(***************************************************************************)
EXTENDS ImageTool

CONSTANT MaxSubgraphDepth      \* MAX_SUBGRAPH_DEPTH, 256 in the code

Keys(graph) == DOMAIN graph.subgraphs
Children(graph, key) == ToSet(graph.subgraphs[key].children)

-----------------------------------------------------------------------------
(* validate_graph.                                                           *)

\* Every node is defined in one scope.
CollectNodes(graph) ==
  /\ \A k \in Keys(graph) : graph.subgraphs[k].nodes \cap graph.nodes = {}
  /\ \A j, k \in Keys(graph) :
       j # k => graph.subgraphs[j].nodes \cap graph.subgraphs[k].nodes = {}
AllNodes(graph) == graph.nodes \cup UNION {graph.subgraphs[k].nodes : k \in Keys(graph)}

ValidArena(graph) ==
  /\ \A k \in Keys(graph) : /\ IsInjective(graph.subgraphs[k].children)
                            /\ Children(graph, k) \subseteq Keys(graph)
  /\ \A j, k \in Keys(graph) :
       j # k => Children(graph, j) \cap Children(graph, k) = {}

\* validate_subgraph_tree from a key: [ok, visited]; the depth is the one at
\* which the key is met first.
RECURSIVE SubgraphTree(_, _, _, _, _)
SubgraphTree(graph, key, depth, active, visited) ==
  IF depth > MaxSubgraphDepth THEN [ok |-> FALSE, visited |-> visited]
  ELSE IF key \in visited THEN [ok |-> TRUE, visited |-> visited]
  ELSE IF key \in active THEN [ok |-> FALSE, visited |-> visited]
  ELSE LET below ==
             FoldLeft(LAMBDA acc, child :
                        IF ~acc.ok THEN acc
                        ELSE SubgraphTree(graph, child, depth + 1, active \cup {key},
                                          acc.visited),
                      [ok |-> TRUE, visited |-> visited], graph.subgraphs[key].children)
       IN [ok |-> below.ok, visited |-> below.visited \cup {key}]

SortedKeys(set) == SetToSortSeq(set, <)

AcyclicArena(graph) ==
  FoldLeft(LAMBDA acc, key :
             IF ~acc.ok THEN acc ELSE SubgraphTree(graph, key, 1, {}, acc.visited),
           [ok |-> TRUE, visited |-> {}], SortedKeys(Keys(graph))).ok

ValidEdge(edge, nodes) == {edge.from, edge.to} \subseteq nodes /\ edge.port # "empty"
ValidEdges(graph) ==
  /\ \A i \in DOMAIN graph.edges : ValidEdge(graph.edges[i], AllNodes(graph))
  /\ \A k \in Keys(graph) : \A i \in DOMAIN graph.subgraphs[k].edges :
       ValidEdge(graph.subgraphs[k].edges[i], AllNodes(graph))

NoCycleCheck(graph) ==
  CollectNodes(graph) /\ ValidArena(graph) /\ ValidEdges(graph)
ValidateGraph(graph) ==
  CollectNodes(graph) /\ ValidArena(graph) /\ AcyclicArena(graph) /\ ValidEdges(graph)

RootSubgraphs(graph) ==
  Keys(graph) \ UNION {Children(graph, k) : k \in Keys(graph)}

-----------------------------------------------------------------------------
(* The statements.  Attributes are "fine", or "invalid" when a number is not *)
(* finite, a name is set twice or a text cannot be quoted.                   *)

GraphAttributes(graph) == graph.attributes # "invalid"
DefaultAttributes(graph) == GraphAttributes(graph) /\ graph.defaults # "invalid"
SubgraphAttributes(scope) == scope.attributes # "invalid"
NodeAttributes(scope) == scope.nodes # {} => scope.marks # "invalid"
EdgeAttributes(edge) == edge.attributes # "invalid"

\* What the writers of a scope check as they go; every scope of a valid graph
\* is below a root, so every one is written.
AttributesWritten(graph) ==
  /\ DefaultAttributes(graph)
  /\ \A k \in Keys(graph) : SubgraphAttributes(graph.subgraphs[k])
  /\ \A scope \in {graph} \cup Range(graph.subgraphs) :
       /\ NodeAttributes(scope)
       /\ \A i \in DOMAIN scope.edges : EdgeAttributes(scope.edges[i])

WriteNodes(nodes) ==
  LET sorted == SortedKeys(nodes)
  IN [i \in DOMAIN sorted |-> [is |-> "node", node |-> sorted[i]]]
WriteEdges(edges) == [i \in DOMAIN edges |-> [is |-> "edge", edge |-> edges[i]]]

\* The depth counts again from the root: validation may have met a key below
\* its parent, or before it at depth 1.
TooDeep == [is |-> "too deep"]
RECURSIVE WriteSubgraph(_, _, _)
WriteSubgraph(graph, key, depth) ==
  LET s == graph.subgraphs[key]
  IN IF depth > MaxSubgraphDepth THEN <<TooDeep>>
     ELSE <<[is |-> "open", key |-> key]>> \o WriteNodes(s.nodes)
          \o FlattenSeq([i \in DOMAIN s.children |->
                            WriteSubgraph(graph, s.children[i], depth + 1)])
          \o WriteEdges(s.edges) \o <<[is |-> "close", key |-> key]>>

Serialize(graph) ==
  LET roots == SortedKeys(RootSubgraphs(graph))
  IN WriteNodes(graph.nodes)
     \o FlattenSeq([i \in DOMAIN roots |-> WriteSubgraph(graph, roots[i], 1)])
     \o WriteEdges(graph.edges)

GraphAccepted(graph) ==
  /\ ValidateGraph(graph)
  /\ AttributesWritten(graph)
  /\ TooDeep \notin ToSet(Serialize(graph))

GraphRender == Cat(<<Words(3), Output("Single"), Input("dot", "Blob")>>)
GraphVersion == Words(1)
GraphPlan(r) ==
  IF r.op = "render" THEN Cat(<<Needs(GraphAccepted(r.graph)), GraphRender>>)
  ELSE GraphVersion
\* The DOT text is put into the store first; "stored" says whether that works.
GraphAnswer(r, e) ==
  CASE e.exit # 0 -> ProcessFailed
    [] e.exit = 0 /\ r.op = "render" -> One(e.outputs[1])
    [] OTHER -> IF e.stdout = "empty" THEN EngineFailed ELSE Ok(<<>>)

-----------------------------------------------------------------------------
(* Reading the statements back: the subgraphs open at a statement.           *)

OpenAt(text, i) ==
  {text[j].key : j \in {j \in 1..(i - 1) :
     text[j].is = "open" /\ ~\E m \in j..(i - 1) : text[m].is = "close"
                                                  /\ text[m].key = text[j].key}}
Holders(graph, key) == {k \in Keys(graph) : key \in Children(graph, k)}
RECURSIVE Ancestors(_, _)
Ancestors(graph, key) ==
  LET up == Holders(graph, key) IN up \cup UNION {Ancestors(graph, k) : k \in up}

\* Each node, edge and subgraph is written once, in the scope that defines it.
WrittenOnce(graph) ==
  LET text == Serialize(graph)
      scope(k) == {k} \cup Ancestors(graph, k)
      times(P) == Cardinality(P)
      nodeAt(n) == {i \in DOMAIN text : text[i].is = "node" /\ text[i].node = n}
      edges(within) == SelectSeq([i \in DOMAIN text |-> <<text[i], OpenAt(text, i)>>],
                                 LAMBDA s : s[1].is = "edge" /\ s[2] = within)
  IN /\ \A n \in graph.nodes :
          times(nodeAt(n)) = 1 /\ \A i \in nodeAt(n) : OpenAt(text, i) = {}
     /\ \A k \in Keys(graph) :
          /\ times({i \in DOMAIN text : text[i].is = "open" /\ text[i].key = k}) = 1
          /\ \A n \in graph.subgraphs[k].nodes :
               times(nodeAt(n)) = 1 /\ \A i \in nodeAt(n) : OpenAt(text, i) = scope(k)
          /\ Len(edges(scope(k))) = Len(graph.subgraphs[k].edges)
     /\ Len(edges({})) = Len(graph.edges)
=============================================================================
