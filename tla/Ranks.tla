-------------------------------- MODULE Ranks -------------------------------
(* How the compiler finds the ranks that reductions must descend by          *)
(* (progress_ranks of crates/greatgramma-compile/src/lr.rs): strongly        *)
(* connected components by two depth-first searches, then the longest paths  *)
(* of the graph of components, counted in strict edges.                      *)
(*                                                                           *)
(* The code runs to its end alone; a step here is an iteration of one of its *)
(* loops, so that its work limit may end it after any.                       *)
EXTENDS Integers, SequencesExt, FiniteSetsExt

(* A graph lists its nodes and, for a node, those that may come next; all    *)
(* edges out of a strict node are strict.                                    *)
CONSTANTS Graphs

ASSUME RanksAssumption == \A g \in Graphs :
    LET nodes == Range(g.nodes)
    IN /\ g.nodes \in Seq(nodes) /\ IsInjective(g.nodes)
       /\ g.next \in [nodes -> Seq(nodes)]
       /\ \A node \in nodes : IsInjective(g.next[node])
       /\ g.strict \in [nodes -> BOOLEAN]

VARIABLES
    graph,
    stage,          \* the loop under way
    cursor,         \* where in its list it is
    stack,          \* the first search: its frames,
    visited, order, \* what it has met, and what it has left
    component,      \* the second search: the component of a node, none is 0,
    pending,        \* and the nodes whose predecessors it is to look at
    indegree,       \* of a component: the links into it not yet passed over
    queue,          \* the components in topological order
    passed,         \* the links passed over of the component at the cursor
    rank            \* of a component

vars == <<graph, stage, cursor, stack, visited, order, component, pending, indegree, queue,
          passed, rank>>
firstSearch == <<stack, visited, order>>
secondSearch == <<component, pending>>
sorting == <<indegree, queue, passed>>

Nodes == Range(graph.nodes)
Frame(node, edge) == [node |-> node, edge |-> edge]
Final == {"done", "refused", "exhausted"}

Init ==
    /\ graph \in Graphs
    /\ stage = "visit" /\ cursor = 1 /\ stack = <<>>
    /\ visited = {} /\ order = <<>>
    /\ component = [node \in Nodes |-> 0]
    /\ pending = {}
    /\ indegree = <<>> /\ queue = <<>> /\ passed = {} /\ rank = <<>>
-----------------------------------------------------------------------------
(* finishing_order.                                                          *)
Untouched == UNCHANGED <<graph, secondSearch, sorting, rank>>

NextRoot ==
    /\ stage = "visit" /\ stack = <<>> /\ cursor <= Len(graph.nodes)
    /\ LET root == graph.nodes[cursor]
       IN /\ stack' = IF root \in visited THEN <<>> ELSE <<Frame(root, 1)>>
          /\ visited' = visited \cup {root}
    /\ cursor' = cursor + 1
    /\ Untouched /\ UNCHANGED <<stage, order>>

EdgesOfTop == graph.next[Last(stack).node]

(* Mutant: the search looks at the same edge again.                          *)
FollowEdgeAgain ==
    /\ stage = "visit" /\ stack # <<>> /\ Last(stack).edge <= Len(EdgesOfTop)
    /\ LET destination == EdgesOfTop[Last(stack).edge]
       IN /\ stack' = IF destination \in visited THEN stack
                      ELSE Append(stack, Frame(destination, 1))
          /\ visited' = visited \cup {destination}
    /\ Untouched /\ UNCHANGED <<stage, cursor, order>>

FollowEdge ==
    /\ stage = "visit" /\ stack # <<>> /\ Last(stack).edge <= Len(EdgesOfTop)
    /\ LET destination == EdgesOfTop[Last(stack).edge]
           advanced == [stack EXCEPT ![Len(stack)].edge = @ + 1]
       IN /\ stack' = IF destination \in visited THEN advanced
                      ELSE Append(advanced, Frame(destination, 1))
          /\ visited' = visited \cup {destination}
    /\ Untouched /\ UNCHANGED <<stage, cursor, order>>

Finish ==
    /\ stage = "visit" /\ stack # <<>> /\ Last(stack).edge > Len(EdgesOfTop)
    /\ order' = Append(order, Last(stack).node)
    /\ stack' = Front(stack)
    /\ Untouched /\ UNCHANGED <<stage, cursor, visited>>

BeginComponents ==
    /\ stage = "visit" /\ stack = <<>> /\ cursor > Len(graph.nodes)
    /\ stage' = "assign" /\ cursor' = Len(order)
    /\ Untouched /\ UNCHANGED firstSearch
-----------------------------------------------------------------------------
(* strongly_connected_components, from the node finished last.  The nodes    *)
(* that wait on its stack are taken in any order.                            *)
Count == Max({0} \cup Range(component))

NextComponent ==
    /\ stage = "assign" /\ pending = {} /\ cursor > 0
    /\ LET start == order[cursor]
       IN IF component[start] # 0 THEN UNCHANGED secondSearch
          ELSE /\ component' = [component EXCEPT ![start] = Count + 1]
               /\ pending' = {start}
    /\ cursor' = cursor - 1
    /\ UNCHANGED <<graph, stage, firstSearch, sorting, rank>>

(* Mutant: the second search goes along the edges too.                       *)
FreshSuccessors(node) ==
    {m \in Nodes : component[m] = 0 /\ Contains(graph.next[node], m)}

FreshPredecessors(node) ==
    {m \in Nodes : component[m] = 0 /\ Contains(graph.next[m], node)}

Spread(node) ==
    /\ stage = "assign"
    /\ LET fresh == FreshPredecessors(node)
       IN /\ component' = [m \in Nodes |-> IF m \in fresh THEN component[node] ELSE component[m]]
          /\ pending' = (pending \ {node}) \cup fresh
    /\ UNCHANGED <<graph, stage, cursor, firstSearch, sorting, rank>>
-----------------------------------------------------------------------------
(* progress_ranks, between its two parts.  An edge is a pair of nodes and a  *)
(* link a pair of components; a link is strict if one of its edges is.       *)
Edges == {e \in Nodes \X Nodes : Contains(graph.next[e[1]], e[2])}
LinkOf(e) == <<component[e[1]], component[e[2]]>>
Links == {LinkOf(e) : e \in Edges} \ {<<c, c>> : c \in 1..Count}

(* Mutant: the strictness of links is not added up.                          *)
IncrementOfNone(link) == 0

Increment(link) == IF \E e \in Edges : LinkOf(e) = link /\ graph.strict[e[1]] THEN 1 ELSE 0

(* Mutant: only a node that follows itself is noticed.                       *)
StrictSelfLoop == \E e \in Edges : graph.strict[e[1]] /\ e[1] = e[2]

StrictLoop == \E e \in Edges : graph.strict[e[1]] /\ component[e[1]] = component[e[2]]

Condense ==
    /\ stage = "assign" /\ pending = {} /\ cursor = 0
    /\ stage' = IF StrictLoop THEN "refused" ELSE "seed"
    /\ cursor' = 1
    /\ indegree' = [c \in 1..Count |-> Cardinality({link \in Links : link[2] = c})]
    /\ UNCHANGED <<graph, firstSearch, secondSearch, queue, passed, rank>>
-----------------------------------------------------------------------------
(* dag_ranks: the order, from the components that no link leads into.        *)
Seed ==
    /\ stage = "seed" /\ cursor <= Count
    /\ queue' = IF indegree[cursor] = 0 THEN Append(queue, cursor) ELSE queue
    /\ cursor' = cursor + 1
    /\ UNCHANGED <<graph, stage, firstSearch, secondSearch, indegree, passed, rank>>

BeginSort ==
    /\ stage = "seed" /\ cursor > Count
    /\ stage' = "sort" /\ cursor' = 1
    /\ UNCHANGED <<graph, firstSearch, secondSearch, sorting, rank>>

After(c) == {link[2] : link \in {link \in Links : link[1] = c}}

(* Mutant: a link is passed over twice.                                      *)
PassedTwice(d) == [indegree EXCEPT ![d] = @ - 2]

PassedOver(d) == [indegree EXCEPT ![d] = @ - 1]

(* The links of a component are passed over as they were found: in any order.*)
PassLink(d) ==
    /\ stage = "sort" /\ cursor <= Len(queue)
    /\ d \in After(queue[cursor]) \ passed
    /\ indegree' = PassedOver(d)
    /\ queue' = IF indegree'[d] = 0 THEN Append(queue, d) ELSE queue
    /\ passed' = passed \cup {d}
    /\ UNCHANGED <<graph, stage, cursor, firstSearch, secondSearch, rank>>

NextSorted ==
    /\ stage = "sort" /\ cursor <= Len(queue)
    /\ After(queue[cursor]) \subseteq passed
    /\ cursor' = cursor + 1 /\ passed' = {}
    /\ UNCHANGED <<graph, stage, firstSearch, secondSearch, indegree, queue, rank>>

(* Then the ranks, from its end.                                             *)
BeginRanks ==
    /\ stage = "sort" /\ cursor > Len(queue)
    /\ stage' = IF Len(queue) = Count THEN "rank" ELSE "refused"
    /\ cursor' = Len(queue)
    /\ rank' = [c \in 1..Count |-> 0]
    /\ UNCHANGED <<graph, firstSearch, secondSearch, sorting>>

Raise ==
    /\ stage = "rank" /\ cursor > 0
    /\ LET c == queue[cursor]
       IN rank' = [rank EXCEPT ![c] =
                     Max({@} \cup {rank[d] + Increment(<<c, d>>) : d \in After(c)})]
    /\ cursor' = cursor - 1
    /\ UNCHANGED <<graph, stage, firstSearch, secondSearch, sorting>>

Return ==
    /\ stage = "rank" /\ cursor = 0
    /\ stage' = "done"
    /\ UNCHANGED <<graph, cursor, firstSearch, secondSearch, sorting, rank>>

(* charge or an allocation fails.                                            *)
Exhaust ==
    /\ stage \notin Final
    /\ stage' = "exhausted"
    /\ UNCHANGED <<graph, cursor, firstSearch, secondSearch, sorting, rank>>

Work ==
    \/ NextRoot \/ FollowEdge \/ Finish \/ BeginComponents
    \/ NextComponent \/ (\E node \in pending : Spread(node)) \/ Condense
    \/ Seed \/ BeginSort \/ (\E d \in 1..Count : PassLink(d)) \/ NextSorted
    \/ BeginRanks \/ Raise \/ Return

Next == Work \/ Exhaust

Spec == Init /\ [][Next]_vars /\ WF_vars(Work)
-----------------------------------------------------------------------------
(* Every variable has its type; every node is finished, and every component  *)
(* put in order, at most once.                                               *)
TypeOK ==
    /\ graph \in Graphs
    /\ stage \in {"visit", "assign", "seed", "sort", "rank"} \cup Final
    /\ cursor \in Nat
    /\ stack \in Seq([node : Nodes, edge : Nat \ {0}]) /\ pending \subseteq Nodes
    /\ visited \subseteq Nodes
    /\ Range(order) \subseteq visited /\ IsInjective(order)
    /\ component \in [Nodes -> 0..Len(graph.nodes)]
    /\ DOMAIN indegree \subseteq 1..Count /\ Range(indegree) \subseteq Nat
    /\ Range(queue) \subseteq 1..Count /\ IsInjective(queue) /\ passed \subseteq 1..Count
    /\ DOMAIN rank \subseteq 1..Count /\ Range(rank) \subseteq Nat

(* What can come after a node, itself included, said without a search.       *)
Onward(S) == S \cup UNION {Range(graph.next[node]) : node \in S}
Reached(node) ==
    LET reached[n \in Nat] == IF n = 0 THEN {node} ELSE Onward(reached[n - 1])
    IN reached[Len(graph.nodes)]

(* Two nodes are given one component just when each can come after the other *)
(* (strongly_connected_components), however the searches went.               *)
ComponentsAreExact ==
    stage \in {"seed", "sort", "rank", "done"} =>
      \A a, b \in Nodes :
        component[a] = component[b] <=> b \in Reached(a) /\ a \in Reached(b)

(* A grammar is refused just when reductions that do not shrink the stack    *)
(* could follow one another for ever (NoReductionProgressWitness); the sort, *)
(* in particular, refuses nothing that the search for loops let through.     *)
Loops == \E e \in Edges : graph.strict[e[1]] /\ e[1] \in Reached(e[2])
RefusesJustLoops ==
    /\ stage = "refused" => Loops
    /\ stage = "done" => ~Loops

(* What check_reduction_progress of the core asks of two reductions in a row *)
(* holds of every edge.                                                      *)
RankOf(node) == rank[component[node]]
RanksFall ==
    stage = "done" =>
      \A e \in Edges : \/ RankOf(e[2]) < RankOf(e[1])
                       \/ RankOf(e[2]) = RankOf(e[1]) /\ ~graph.strict[e[1]]

(* The compiler gives a rank, a refusal or an error of its limits.           *)
Ends == <>(stage \in Final)
=============================================================================
