----------------------------- MODULE RanksProofs ----------------------------
(* What the compiler finds about a graph of reductions, whatever the graph:  *)
(* ranks that fall along every edge, exact components, and a refusal of just *)
(* the graphs that loop.                                                     *)
(*                                                                           *)
(* For the ranks it is not the searches that matter (Falling): were the      *)
(* components wrong, they would fall all the same.  It takes that every node *)
(* has one, that no strict edge stays in one, and that the order puts a      *)
(* link's source before its destination (Sorted), so that no rank is raised  *)
(* that another was raised above (Ranked).  For the refusals the components  *)
(* have to be exact (Deep).                                                  *)
EXTENDS Ranks, Lowering, FiniteSetTheorems, WellFoundedInduction, TLAPS

(* A bounded set of numbers has a largest.                                   *)
LEMMA LargestExists ==
    ASSUME NEW n \in Nat, NEW numbers, numbers \subseteq 0..n, numbers # {}
    PROVE  Max(numbers) \in numbers /\ \A k \in numbers : k <= Max(numbers)
<1> DEFINE gaps == {n - k : k \in numbers}
<1>1. gaps \subseteq Nat /\ gaps # {}
    <2>1. \A k \in numbers : n - k \in Nat
        OBVIOUS
    <2> QED
        BY <2>1
<1>2. PICK g \in gaps : \A h \in gaps : <<h, g>> \notin OpToRel(<, Nat)
    BY <1>1, WFMin, NatLessThanWellFounded, Zenon
<1>3. \A h \in gaps : ~(h < g)
    BY <1>1, <1>2, Zenon DEF OpToRel
<1>4. PICK k \in numbers : g = n - k
    OBVIOUS
<1>5. \A other \in numbers : other <= k
    <2> TAKE other \in numbers
    <2>1. n - other \in gaps
        OBVIOUS
    <2>2. ~(n - other < n - k)
        BY <1>3, <1>4, <2>1
    <2> QED
        BY <2>2
<1> QED
    BY <1>4, <1>5 DEF Max

Bounded(f, S) == \E n \in Nat : f \in [S -> 0..n]

(* An injective sequence of as many elements as there are is onto.           *)
LEMMA AllInOrder ==
    ASSUME NEW n \in Nat, NEW s \in Seq(1..n), IsInjective(s), Len(s) = n
    PROVE  \A c \in 1..n : \E i \in 1..n : s[i] = c
<1>1. s \in Injection(1..n, 1..n)
    BY DEF IsInjective, Injection
<1>2. s \in Surjection(1..n, 1..n)
    BY <1>1, FS_Injection, FS_Interval
<1> QED
    BY <1>2 DEF Surjection

(* An element more, that was not there.                                      *)
LEMMA OneMore ==
    ASSUME NEW S, NEW s \in Seq(S), NEW x \in S
    PROVE  /\ Append(s, x) \in Seq(S) /\ Len(Append(s, x)) = Len(s) + 1
           /\ \A i \in 1..Len(s) : Append(s, x)[i] = s[i]
           /\ Append(s, x)[Len(s) + 1] = x
           /\ Range(Append(s, x)) = Range(s) \cup {x}
           /\ IsInjective(s) /\ x \notin Range(s) => IsInjective(Append(s, x))
<1>1. /\ Append(s, x) \in Seq(S) /\ Len(Append(s, x)) = Len(s) + 1
      /\ \A i \in 1..Len(s) : Append(s, x)[i] = s[i]
      /\ Append(s, x)[Len(s) + 1] = x
    OBVIOUS
<1>2. DOMAIN Append(s, x) = 1..Len(s) + 1 /\ DOMAIN s = 1..Len(s) /\ Len(s) \in Nat
    BY <1>1
<1>3. \A i \in 1..Len(s) + 1 : i = Len(s) + 1 \/ i \in 1..Len(s)
    BY <1>2
<1>4. Range(Append(s, x)) = Range(s) \cup {x}
    BY <1>1, <1>2, <1>3 DEF Range
<1>5. ASSUME IsInjective(s), x \notin Range(s) PROVE IsInjective(Append(s, x))
    BY <1>1, <1>2, <1>3, <1>5 DEF IsInjective, Range
<1> QED
    BY <1>1, <1>4, <1>5
LEMMA ElementOfSeq ==
    ASSUME NEW S, NEW s \in Seq(S), NEW i \in 1..Len(s)
    PROVE  s[i] \in S
    OBVIOUS
-----------------------------------------------------------------------------
(* The first search leaves every node it has met.                            *)
Frames == {stack[i].node : i \in 1..Len(stack)}
Searched ==
    /\ stack \in Seq([node : Nodes, edge : Nat \ {0}])
    /\ order \in Seq(Nodes) /\ visited = Range(order) \cup Frames
Visiting ==
    stage = "visit" =>
      /\ cursor >= 1
      /\ \A i \in 1..Len(graph.nodes) : i < cursor => graph.nodes[i] \in visited
      /\ queue = <<>> /\ passed = {}

(* The second gives every node of that order a component.                    *)
Numbered == Bounded(component, Nodes) /\ pending \subseteq {m \in Nodes : component[m] # 0}
Assigning ==
    stage = "assign" =>
      /\ Nodes \subseteq Range(order) /\ cursor <= Len(order)
      /\ \A i \in 1..Len(order) : i > cursor => component[order[i]] # 0
      /\ queue = <<>> /\ passed = {}
Condensed ==
    stage \in {"seed", "sort", "rank", "done"} =>
      ~StrictLoop /\ \A m \in Nodes : component[m] # 0

(* The links that the sort has not passed over, and what it has put in order.*)
Gone(link) ==
    /\ stage = "sort"
    /\ \/ \E i \in 1..Len(queue) : i < cursor /\ queue[i] = link[1]
       \/ cursor <= Len(queue) /\ queue[cursor] = link[1] /\ link[2] \in passed
Left(c) == {link \in Links : link[2] = c /\ ~Gone(link)}

Seeded(c) == stage = "seed" => c < cursor
Queued ==
    stage \in {"seed", "sort"} =>
      /\ cursor >= 1
      /\ indegree = [c \in 1..Count |-> Cardinality(Left(c))]
      /\ Range(queue) = {c \in 1..Count : Seeded(c) /\ indegree[c] = 0}
      /\ cursor <= Len(queue) => passed \subseteq After(queue[cursor])
      /\ stage = "seed" \/ cursor > Len(queue) => passed = {}
InOrder == queue \in Seq(1..Count) /\ IsInjective(queue)
Sorted ==
    stage \in {"seed", "sort", "rank", "done"} =>
      /\ InOrder
      /\ \A link \in Links : \A j \in 1..Len(queue) :
           link[2] = queue[j] => \E i \in 1..j - 1 : queue[i] = link[1]

(* The ranks of the components from the cursor on are above those they link  *)
(* to.                                                                       *)
Settled(c) == \A d \in After(c) : rank[d] + Increment(<<c, d>>) <= rank[c]
Ranked ==
    stage \in {"rank", "done"} =>
      /\ Len(queue) = Count /\ Bounded(rank, 1..Count)
      /\ cursor <= Count /\ (stage = "done" => cursor = 0)
      /\ \A j \in 1..Len(queue) : j > cursor => Settled(queue[j])

Falling ==
    /\ graph \in Graphs /\ cursor \in Nat
    /\ Searched /\ Visiting /\ Numbered /\ Assigning /\ Condensed
    /\ Queued /\ Sorted /\ Ranked
-----------------------------------------------------------------------------
(* What a graph with its components determines.                              *)
LEMMA SameComponents ==
    ASSUME graph' = graph, component' = component
    PROVE  /\ Nodes' = Nodes /\ Count' = Count /\ Links' = Links /\ StrictLoop' = StrictLoop
           /\ \A c : After(c)' = After(c)
           /\ \A link : Increment(link)' = Increment(link)
           /\ Bounded(component, Nodes)' = Bounded(component, Nodes)
<1>1. Nodes' = Nodes
    BY DEF Nodes
<1>2. Count' = Count
    BY DEF Count
<1>3. Edges' = Edges
    BY <1>1 DEF Edges
<1>4. \A e : LinkOf(e)' = LinkOf(e)
    BY DEF LinkOf
<1>5. Links' = Links
    BY <1>2, <1>3, <1>4 DEF Links
<1>6. StrictLoop' = StrictLoop
    BY <1>3 DEF StrictLoop
<1>7. \A c : After(c)' = After(c)
    BY <1>5 DEF After
<1>8. \A link : Increment(link)' = Increment(link)
    BY <1>3, <1>4 DEF Increment
<1> QED
    BY <1>1, <1>2, <1>5, <1>6, <1>7, <1>8 DEF Bounded

LEMMA CountIsLargest ==
    ASSUME Bounded(component, Nodes)
    PROVE  Count \in Nat /\ \A m \in Nodes : component[m] \in 0..Count
<1>1. PICK n \in Nat : component \in [Nodes -> 0..n]
    BY DEF Bounded
<1>2. {0} \cup Range(component) \subseteq 0..n
    BY <1>1 DEF Range
<1>3. Count \in {0} \cup Range(component) /\ \A k \in {0} \cup Range(component) : k <= Count
    BY <1>2, LargestExists DEF Count
<1>4. \A m \in Nodes : component[m] \in Range(component)
    BY <1>1 DEF Range
<1> QED
    BY <1>1, <1>2, <1>3, <1>4

(* Once every node has a component, links are between components, and no     *)
(* component has one to itself.                                              *)
LEMMA LinksAreBetween ==
    ASSUME Bounded(component, Nodes), \A m \in Nodes : component[m] # 0
    PROVE  /\ Count \in Nat /\ \A m \in Nodes : component[m] \in 1..Count
           /\ \A link \in Links : /\ link = <<link[1], link[2]>> /\ link[1] # link[2]
                                  /\ link[1] \in 1..Count /\ link[2] \in 1..Count
           /\ IsFiniteSet(Links)
<1>1. Count \in Nat /\ \A m \in Nodes : component[m] \in 1..Count
    BY CountIsLargest
<1>2. \A link \in Links : /\ link = <<link[1], link[2]>> /\ link[1] # link[2]
                          /\ link[1] \in 1..Count /\ link[2] \in 1..Count
    BY <1>1 DEF Links, LinkOf, Edges
<1>3. Links \subseteq (1..Count) \X (1..Count)
    BY <1>2
<1>4. IsFiniteSet((1..Count) \X (1..Count))
    <2>1. IsFiniteSet(1..Count)
        BY <1>1, FS_Interval
    <2> QED
        BY <2>1, FS_Product
<1> QED
    BY <1>1, <1>2, <1>3, <1>4, FS_Subset
-----------------------------------------------------------------------------
LEMMA GraphTypes ==
    ASSUME graph \in Graphs
    PROVE  /\ graph.nodes \in Seq(Nodes) /\ Nodes = {graph.nodes[i] : i \in 1..Len(graph.nodes)}
           /\ graph.next \in [Nodes -> Seq(Nodes)]
<1>1. graph.nodes \in Seq(Range(graph.nodes)) /\ graph.next \in [Nodes -> Seq(Nodes)]
    BY RanksAssumption DEF Nodes
<1>2. DOMAIN graph.nodes = 1..Len(graph.nodes)
    BY <1>1
<1> QED
    BY <1>1, <1>2 DEF Nodes, Range

LEMMA Starts == Init => Falling
<1> SUFFICES ASSUME Init PROVE Falling
    OBVIOUS
<1>1. stack = <<>> /\ order = <<>> /\ stage = "visit" /\ cursor = 1
    BY DEF Init
<1>2. Searched
    <2>1. Range(order) = {} /\ Frames = {}
        BY <1>1 DEF Range, Frames
    <2> QED
        BY <1>1, <2>1 DEF Init, Searched
<1>3. Bounded(component, Nodes)
    <2>1. component \in [Nodes -> 0..0]
        BY DEF Init
    <2> QED
        BY <2>1 DEF Bounded
<1> QED
    BY <1>1, <1>2, <1>3 DEF Init, Falling, Visiting, Numbered, Assigning, Condensed, Queued, Sorted, Ranked

(* A step of the first search.                                               *)
LEMMA FirstSearch ==
    ASSUME Falling, stage = "visit", stage' = "visit", Untouched, cursor' \in Nat, cursor' >= 1,
           Searched',
           \A i \in 1..Len(graph.nodes) : i < cursor' => graph.nodes[i] \in visited'
    PROVE  Falling'
<1>1. Bounded(component, Nodes)' = Bounded(component, Nodes) /\ Nodes' = Nodes
    BY SameComponents DEF Untouched, secondSearch
<1>2. Numbered'
    BY <1>1 DEF Falling, Numbered, Untouched, secondSearch
<1> QED
    BY <1>2 DEF Falling, Visiting, Assigning, Condensed, Queued, Sorted, Ranked, Untouched, sorting

LEMMA LastIsOne ==
    ASSUME NEW S, NEW s \in Seq(S), s # <<>>
    PROVE  /\ Len(s) \in Nat /\ Len(s) >= 1 /\ Last(s) = s[Len(s)] /\ Last(s) \in S
           /\ Front(s) \in Seq(S) /\ Len(Front(s)) = Len(s) - 1
           /\ \A i \in 1..Len(s) - 1 : Front(s)[i] = s[i]
<1>1. Len(s) \in Nat /\ Len(s) >= 1
    OBVIOUS
<1>2. Last(s) = s[Len(s)] /\ Last(s) \in S
    BY <1>1 DEF Last
<1> DEFINE n == Len(s) - 1
<1>3. n \in Nat /\ n <= Len(s) /\ Front(s) = SubSeq(s, 1, n)
    BY <1>1 DEF Front
<1> HIDE DEF n
<1>4. SubSeq(s, 1, n) \in Seq(S) /\ Len(SubSeq(s, 1, n)) = n /\ \A i \in 1..n : SubSeq(s, 1, n)[i] = s[i]
    BY <1>3
<1> QED
    BY <1>1, <1>2, <1>3, <1>4 DEF n

LEMMA TopFrame ==
    ASSUME Searched, stack # <<>>
    PROVE  /\ Len(stack) \in Nat /\ Len(stack) >= 1 /\ Last(stack) = stack[Len(stack)]
           /\ Last(stack) \in [node : Nodes, edge : Nat \ {0}]
           /\ Last(stack).node \in Nodes /\ Last(stack).edge \in Nat \ {0}
           /\ Front(stack) \in Seq([node : Nodes, edge : Nat \ {0}])
           /\ Len(Front(stack)) = Len(stack) - 1
           /\ \A i \in 1..Len(stack) - 1 : Front(stack)[i] = stack[i]
<1> DEFINE frames == [node : Nodes, edge : Nat \ {0}]
<1>1. stack \in Seq(frames)
    BY DEF Searched
<1>2. \A f \in frames : f.node \in Nodes /\ f.edge \in Nat \ {0}
    OBVIOUS
<1> HIDE DEF frames
<1>3. /\ Len(stack) \in Nat /\ Len(stack) >= 1 /\ Last(stack) = stack[Len(stack)]
      /\ Last(stack) \in frames /\ Front(stack) \in Seq(frames)
      /\ Len(Front(stack)) = Len(stack) - 1
      /\ \A i \in 1..Len(stack) - 1 : Front(stack)[i] = stack[i]
    BY <1>1, LastIsOne
<1> QED
    BY <1>2, <1>3 DEF frames

LEMMA NewFrame ==
    ASSUME NEW frames \in Seq([node : Nodes, edge : Nat \ {0}]), NEW node \in Nodes
    PROVE  /\ Append(frames, Frame(node, 1)) \in Seq([node : Nodes, edge : Nat \ {0}])
           /\ {Append(frames, Frame(node, 1))[i].node : i \in 1..Len(frames) + 1}
                = {frames[i].node : i \in 1..Len(frames)} \cup {node}
           /\ Len(Append(frames, Frame(node, 1))) = Len(frames) + 1
<1>1. Frame(node, 1) \in [node : Nodes, edge : Nat \ {0}] /\ Frame(node, 1).node = node
    BY DEF Frame
<1> HIDE DEF Frame
<1>2. /\ Append(frames, Frame(node, 1)) \in Seq([node : Nodes, edge : Nat \ {0}])
      /\ Len(Append(frames, Frame(node, 1))) = Len(frames) + 1 /\ Len(frames) \in Nat
      /\ Append(frames, Frame(node, 1))[Len(frames) + 1] = Frame(node, 1)
      /\ \A i \in 1..Len(frames) : Append(frames, Frame(node, 1))[i] = frames[i]
    BY <1>1
<1>3. \A i \in 1..Len(frames) + 1 : i = Len(frames) + 1 \/ i \in 1..Len(frames)
    BY <1>2
<1> QED
    BY <1>1, <1>2, <1>3

LEMMA NextRoots ==
    ASSUME Falling, NextRoot
    PROVE  Falling'
<1> DEFINE root == graph.nodes[cursor]
<1>1. cursor \in 1..Len(graph.nodes) /\ root \in Nodes
    BY GraphTypes DEF Falling, NextRoot, Visiting
<1>2. Searched /\ order' = order /\ Nodes' = Nodes /\ stack = <<>>
    BY SameComponents DEF Falling, NextRoot, Untouched, secondSearch
<1>3. Frames = {}
    BY <1>2 DEF Frames
<1>4. Searched'
    <2>1. CASE root \in visited
        BY <1>2, <2>1 DEF NextRoot, Searched, Frames
    <2>2. CASE root \notin visited
        <3>1. stack' = <<Frame(root, 1)>> /\ visited' = visited \cup {root}
            BY <2>2 DEF NextRoot
        <3>2. Frame(root, 1) \in [node : Nodes, edge : Nat \ {0}] /\ Frame(root, 1).node = root
            BY <1>1 DEF Frame
        <3>3. stack' \in Seq([node : Nodes, edge : Nat \ {0}]) /\ Frames' = {root}
            BY <3>1, <3>2 DEF Frames
        <3> QED
            BY <1>2, <1>3, <3>1, <3>3 DEF Searched
    <2> QED
        BY <2>1, <2>2
<1>5. \A i \in 1..Len(graph.nodes) : i < cursor' => graph.nodes[i] \in visited'
    BY <1>1 DEF Falling, NextRoot, Visiting
<1> QED
    BY <1>1, <1>4, <1>5, FirstSearch DEF NextRoot

LEMMA EdgeFollowed ==
    ASSUME Falling, FollowEdge
    PROVE  Falling'
<1> DEFINE destination == EdgesOfTop[Last(stack).edge]
           advanced == [stack EXCEPT ![Len(stack)].edge = @ + 1]
<1>1. Searched /\ order' = order /\ Nodes' = Nodes /\ stack # <<>>
    BY SameComponents DEF Falling, FollowEdge, Untouched, secondSearch
<1>2. /\ stack \in Seq([node : Nodes, edge : Nat \ {0}]) /\ Len(stack) \in 1..Len(stack)
      /\ stack[Len(stack)] \in [node : Nodes, edge : Nat \ {0}]
      /\ Last(stack).node \in Nodes /\ Last(stack).edge \in Nat \ {0}
    BY <1>1, TopFrame DEF Searched
<1>3. destination \in Nodes
    <2>1. EdgesOfTop \in Seq(Nodes) /\ Last(stack).edge <= Len(EdgesOfTop)
        BY <1>2, GraphTypes DEF FollowEdge, EdgesOfTop, Falling
    <2> QED
        BY <1>2, <2>1
<1>4. /\ advanced \in Seq([node : Nodes, edge : Nat \ {0}]) /\ Len(advanced) = Len(stack)
      /\ \A i \in 1..Len(stack) : advanced[i].node = stack[i].node
    BY <1>2
<1>5. {advanced[i].node : i \in 1..Len(advanced)} = Frames
    BY <1>4 DEF Frames
<1> HIDE DEF destination, advanced
<1>6. visited' = visited \cup {destination}
    BY DEF FollowEdge, destination
<1>7. Searched'
    <2>1. CASE destination \in visited
        <3>1. stack' = advanced
            BY <2>1 DEF FollowEdge, destination, advanced
        <3> QED
            BY <1>1, <1>4, <1>5, <1>6, <2>1, <3>1 DEF Searched, Frames
    <2>2. CASE destination \notin visited
        <3>1. stack' = Append(advanced, Frame(destination, 1))
            BY <2>2 DEF FollowEdge, destination, advanced
        <3>2. /\ Append(advanced, Frame(destination, 1)) \in Seq([node : Nodes, edge : Nat \ {0}])
              /\ Len(Append(advanced, Frame(destination, 1))) = Len(advanced) + 1
              /\ {Append(advanced, Frame(destination, 1))[i].node : i \in 1..Len(advanced) + 1}
                   = Frames \cup {destination}
            BY <1>3, <1>4, <1>5, NewFrame
        <3>3. stack' \in Seq([node : Nodes, edge : Nat \ {0}]) /\ Frames' = Frames \cup {destination}
            BY <3>1, <3>2 DEF Frames
        <3> QED
            BY <1>1, <1>6, <3>3 DEF Searched
    <2> QED
        BY <2>1, <2>2
<1>8. \A i \in 1..Len(graph.nodes) : i < cursor' => graph.nodes[i] \in visited'
    BY <1>6 DEF Falling, FollowEdge, Visiting
<1> QED
    BY <1>7, <1>8, FirstSearch DEF FollowEdge, Falling, Visiting

LEMMA Finishes ==
    ASSUME Falling, Finish
    PROVE  Falling'
<1> DEFINE node == Last(stack).node
<1>1. Searched /\ Nodes' = Nodes /\ stack # <<>>
    BY SameComponents DEF Falling, Finish, Untouched, secondSearch
<1>2. /\ Len(stack) \in Nat /\ Len(stack) >= 1
      /\ node = stack[Len(stack)].node /\ node \in Nodes
    BY <1>1, TopFrame
<1>3. /\ stack' \in Seq([node : Nodes, edge : Nat \ {0}]) /\ Len(stack') = Len(stack) - 1
      /\ \A i \in 1..Len(stack) - 1 : stack'[i] = stack[i]
    BY <1>1, TopFrame DEF Finish
<1>4. Frames = Frames' \cup {node}
    <2>1. \A i \in 1..Len(stack) : i = Len(stack) \/ i \in 1..Len(stack) - 1
        BY <1>2
    <2>2. \A x \in Frames : x \in Frames' \/ x = node
        BY <1>2, <1>3, <2>1 DEF Frames
    <2>3. \A i \in 1..Len(stack) - 1 : i \in 1..Len(stack) /\ stack'[i] = stack[i]
        BY <1>2, <1>3
    <2>5. Frames' = {stack'[i].node : i \in 1..Len(stack) - 1}
        BY <1>3 DEF Frames
    <2>4. node \in Frames
        BY <1>2 DEF Frames
    <2>6. \A x \in Frames' : x \in Frames
        BY <2>3, <2>5 DEF Frames
    <2> QED
        BY <2>2, <2>4, <2>6
<1>5. order' = Append(order, node) /\ visited' = visited
    BY DEF Finish
<1> HIDE DEF node
<1>6. order' \in Seq(Nodes) /\ Range(order') = Range(order) \cup {node}
    BY <1>1, <1>2, <1>5, OneMore DEF Searched
<1>7. Searched'
    BY <1>1, <1>3, <1>4, <1>5, <1>6 DEF Searched
<1>8. \A i \in 1..Len(graph.nodes) : i < cursor' => graph.nodes[i] \in visited'
    BY <1>5 DEF Falling, Finish, Visiting
<1> QED
    BY <1>7, <1>8, FirstSearch DEF Finish, Falling, Visiting
-----------------------------------------------------------------------------
(* After it every node is in the order, and from its end each is numbered.   *)
LEMMA Between ==
    ASSUME Falling, BeginComponents
    PROVE  Falling'
<1>1. Searched' /\ Nodes' = Nodes /\ Bounded(component, Nodes)' = Bounded(component, Nodes)
    <2>1. graph' = graph /\ component' = component /\ UNCHANGED firstSearch
        BY DEF BeginComponents, Untouched, secondSearch
    <2>2. Nodes' = Nodes /\ Bounded(component, Nodes)' = Bounded(component, Nodes)
        BY <2>1, SameComponents
    <2> QED
        BY <2>1, <2>2 DEF Falling, Searched, Frames, firstSearch
<1>2. Nodes \subseteq Range(order)
    <2>1. Frames = {}
        BY DEF BeginComponents, Frames
    <2>2. visited = Range(order)
        BY <2>1 DEF Falling, Searched
    <2>3. \A i \in 1..Len(graph.nodes) : graph.nodes[i] \in visited
        <3>1. Len(graph.nodes) \in Nat
            BY GraphTypes DEF Falling
        <3> QED
            BY <3>1 DEF Falling, Visiting, BeginComponents
    <2>4. Nodes = {graph.nodes[i] : i \in 1..Len(graph.nodes)}
        BY GraphTypes DEF Falling
    <2> QED
        BY <2>2, <2>3, <2>4
<1>3. Len(order) \in Nat
    BY DEF Falling, Searched
<1>4. Assigning'
    BY <1>1, <1>2, <1>3 DEF Assigning, Falling, Visiting, BeginComponents, Untouched, sorting, firstSearch
<1>5. Numbered'
    BY <1>1 DEF Numbered, Falling, BeginComponents, Untouched, secondSearch
<1> QED
    BY <1>1, <1>3, <1>4, <1>5
    DEF Falling, Visiting, Condensed, Queued, Sorted, Ranked, BeginComponents, Untouched

(* A step of the second search.                                              *)
LEMMA SecondSearch ==
    ASSUME Falling, stage = "assign", stage' = "assign",
           UNCHANGED <<graph, firstSearch, sorting, rank>>,
           cursor' \in Nat, cursor' <= cursor, Numbered',
           \A m \in Nodes : component[m] # 0 => component'[m] # 0,
           \A i \in 1..Len(order) : i > cursor' /\ i <= cursor => component'[order[i]] # 0
    PROVE  Falling'
<1>1. Searched' /\ Nodes' = Nodes
    BY DEF Falling, Searched, Frames, Nodes, firstSearch
<1>2. Len(order) \in Nat /\ order \in Seq(Nodes)
    BY DEF Falling, Searched
<1>3. \A i \in 1..Len(order) : order[i] \in Nodes
    BY <1>2
<1>4. \A i \in 1..Len(order) : i > cursor' => component'[order[i]] # 0
    BY <1>2, <1>3 DEF Falling, Assigning
<1>5. Assigning'
    BY <1>1, <1>2, <1>4 DEF Falling, Assigning, firstSearch, sorting
<1> QED
    BY <1>1, <1>5 DEF Falling, Visiting, Condensed, Queued, Sorted, Ranked

LEMMA Numbers ==
    ASSUME Falling, NextComponent
    PROVE  Falling'
<1> DEFINE start == order[cursor]
<1>1. Len(order) \in Nat /\ cursor \in 1..Len(order) /\ start \in Nodes
    BY DEF Falling, NextComponent, Assigning, Searched
<1>2. PICK n \in Nat : component \in [Nodes -> 0..n]
    BY DEF Falling, Numbered, Bounded
<1>3. Count \in Nat /\ Nodes' = Nodes
    BY CountIsLargest DEF Falling, Numbered, NextComponent, Nodes
<1> HIDE DEF start
<1>4. CASE component[start] # 0
    <2>1. component' = component /\ pending' = pending
        BY <1>4 DEF NextComponent, start, secondSearch
    <2>2. Numbered'
        BY <1>3, <2>1 DEF Falling, Numbered, Bounded
    <2>3. \A i \in 1..Len(order) : i > cursor' /\ i <= cursor => i = cursor
        BY <1>1 DEF NextComponent
    <2> QED
        BY <1>1, <1>4, <2>1, <2>2, <2>3, SecondSearch DEF NextComponent, start
<1>5. CASE component[start] = 0
    <2>1. component' = [component EXCEPT ![start] = Count + 1] /\ pending' = {start}
        BY <1>5 DEF NextComponent, start
    <2>2. /\ component' \in [Nodes -> 0..n + Count + 1]
          /\ \A m \in Nodes : component'[m] = IF m = start THEN Count + 1 ELSE component[m]
        BY <1>1, <1>2, <1>3, <2>1
    <2>3. component'[start] # 0 /\ \A m \in Nodes : component[m] # 0 => component'[m] # 0
        BY <1>1, <1>3, <2>2
    <2>4. n + Count + 1 \in Nat
        BY <1>3
    <2>5. Numbered'
        BY <1>1, <1>3, <2>1, <2>2, <2>3, <2>4 DEF Numbered, Bounded
    <2>6. \A i \in 1..Len(order) : i > cursor' /\ i <= cursor => i = cursor
        BY <1>1 DEF NextComponent
    <2> QED
        BY <1>1, <2>3, <2>5, <2>6, SecondSearch DEF NextComponent, start
<1> QED
    BY <1>4, <1>5

LEMMA Spreads ==
    ASSUME Falling, NEW node \in pending, Spread(node)
    PROVE  Falling'
<1> DEFINE fresh == FreshPredecessors(node)
<1>1. PICK n \in Nat : component \in [Nodes -> 0..n]
    BY DEF Falling, Numbered, Bounded
<1>2. node \in Nodes /\ component[node] # 0 /\ Nodes' = Nodes
    BY DEF Falling, Numbered, Spread, Nodes
<1>3. fresh \subseteq Nodes
    BY DEF FreshPredecessors
<1> HIDE DEF fresh
<1>4. /\ component' = [m \in Nodes |-> IF m \in fresh THEN component[node] ELSE component[m]]
      /\ pending' = (pending \ {node}) \cup fresh
    BY DEF Spread, fresh
<1>5. component' \in [Nodes -> 0..n] /\ \A m \in Nodes : component[m] # 0 \/ m \in fresh => component'[m] # 0
    BY <1>1, <1>2, <1>4
<1>6. Numbered'
    BY <1>2, <1>3, <1>4, <1>5 DEF Numbered, Bounded, Falling
<1>7. \A i \in 1..Len(order) : ~(i > cursor /\ i <= cursor)
    BY DEF Falling
<1> QED
    BY <1>5, <1>6, <1>7, SecondSearch DEF Spread, Falling
-----------------------------------------------------------------------------
(* What the sort counts.                                                     *)
LEMMA Counted ==
    ASSUME Numbered, \A m \in Nodes : component[m] # 0, NEW c
    PROVE  /\ IsFiniteSet(Left(c)) /\ Cardinality(Left(c)) \in Nat
           /\ Cardinality(Left(c)) = 0 <=> Left(c) = {}
<1>1. IsFiniteSet(Links)
    BY LinksAreBetween DEF Numbered
<1>2. Left(c) \subseteq Links
    BY DEF Left
<1>3. IsFiniteSet(Left(c))
    BY <1>1, <1>2, FS_Subset
<1> QED
    BY <1>3, FS_CardinalityType, FS_EmptySet

LEMMA Condenses ==
    ASSUME Falling, Condense
    PROVE  Falling'
<1>1. /\ Nodes' = Nodes /\ Count' = Count /\ Links' = Links /\ StrictLoop' = StrictLoop
      /\ Bounded(component, Nodes)' = Bounded(component, Nodes)
    BY SameComponents DEF Condense, secondSearch
<1>2. \A m \in Nodes : component[m] # 0
    <2>1. \A i \in 1..Len(order) : component[order[i]] # 0
        BY DEF Falling, Assigning, Condense
    <2>2. DOMAIN order = 1..Len(order)
        BY DEF Falling, Searched
    <2> QED
        BY <2>1, <2>2 DEF Falling, Assigning, Condense, Range
<1>3. Searched' /\ Numbered'
    BY <1>1 DEF Falling, Searched, Numbered, Frames, Condense, firstSearch, secondSearch
<1>4. queue' = <<>> /\ passed' = {} /\ cursor' = 1
    BY DEF Condense, Falling, Assigning
<1>5. Range(queue') = {} /\ Len(queue') = 0
    BY <1>4 DEF Range
<1>6. stage' \in {"refused", "seed"} /\ (stage' = "seed" => ~StrictLoop)
    BY DEF Condense
<1>7. \A c \in 1..Count : Left(c)' = {link \in Links : link[2] = c}
    BY <1>1, <1>6 DEF Left, Gone
<1>8. indegree' = [c \in 1..Count |-> Cardinality(Left(c)')]
    BY <1>7 DEF Condense
<1>9. Queued'
    <2>1. Count \in Nat
        BY CountIsLargest DEF Falling, Numbered
    <2>2. \A c \in 1..Count : ~(c < 1)
        BY <2>1
    <2>3. stage' = "seed" => {c \in (1..Count)' : Seeded(c)' /\ indegree'[c] = 0} = {}
        BY <1>1, <1>4, <2>2 DEF Seeded
    <2>4. stage' # "sort" /\ ~(cursor' <= Len(queue'))
        BY <1>4, <1>5, <1>6
    <2>5. indegree' = [c \in (1..Count)' |-> Cardinality(Left(c)')]
        BY <1>1, <1>8
    <2>6. cursor' >= 1
        BY <1>4
    <2> QED
        BY <1>4, <1>5, <2>3, <2>4, <2>5, <2>6 DEF Queued
<1>10. Sorted'
    <2>1. queue' \in Seq((1..Count)') /\ IsInjective(queue')
        BY <1>4 DEF IsInjective
    <2>2. \A j \in 1..Len(queue') : FALSE
        BY <1>5
    <2> QED
        BY <2>1, <2>2 DEF Sorted, InOrder
<1>11. Condensed'
    BY <1>1, <1>2, <1>6 DEF Condensed, Condense, secondSearch
<1>12. Visiting' /\ Assigning' /\ Ranked'
    BY <1>6 DEF Visiting, Assigning, Ranked
<1>13. graph' \in Graphs /\ cursor' \in Nat
    BY <1>4 DEF Falling, Condense
<1> QED
    BY <1>3, <1>9, <1>10, <1>11, <1>12, <1>13 DEF Falling

(* A step of the rest.                                                       *)
LEMMA Thereafter ==
    ASSUME Falling, stage \in {"seed", "sort", "rank"},
           stage' \in {"seed", "sort", "rank", "done", "refused"},
           UNCHANGED <<graph, firstSearch, secondSearch>>,
           cursor' \in Nat, Queued', Sorted', Ranked'
    PROVE  Falling'
<1>1. /\ Nodes' = Nodes /\ StrictLoop' = StrictLoop
      /\ Bounded(component, Nodes)' = Bounded(component, Nodes)
    BY SameComponents DEF secondSearch
<1>2. Searched' /\ Numbered' /\ Condensed'
    BY <1>1 DEF Falling, Searched, Numbered, Condensed, Frames, firstSearch, secondSearch
<1> QED
    BY <1>2 DEF Falling, Visiting, Assigning

(* What holds whenever a sort is under way.                                  *)
LEMMA UnderWay ==
    ASSUME Falling, stage \in {"seed", "sort", "rank", "done"}
    PROVE  /\ Numbered /\ \A m \in Nodes : component[m] # 0
           /\ Count \in Nat /\ \A m \in Nodes : component[m] \in 1..Count
           /\ \A link \in Links : /\ link = <<link[1], link[2]>> /\ link[1] # link[2]
                                  /\ link[1] \in 1..Count /\ link[2] \in 1..Count
           /\ queue \in Seq(1..Count) /\ IsInjective(queue) /\ Len(queue) \in Nat
           /\ \A i \in 1..Len(queue) : queue[i] \in 1..Count /\ queue[i] \in Range(queue)
           /\ \A i, j \in 1..Len(queue) : queue[i] = queue[j] => i = j
           /\ cursor \in Nat
<1>1. Numbered /\ (\A m \in Nodes : component[m] # 0) /\ cursor \in Nat
    BY DEF Falling, Condensed
<1>2. queue \in Seq(1..Count) /\ IsInjective(queue)
    BY DEF Falling, Sorted, InOrder
<1>3. Len(queue) \in Nat /\ DOMAIN queue = 1..Len(queue)
    BY <1>2
<1>4. \A i \in 1..Len(queue) : queue[i] \in 1..Count /\ queue[i] \in Range(queue)
    <2>1. \A i \in 1..Len(queue) : queue[i] \in 1..Count
        BY <1>2, ElementOfSeq
    <2> QED
        BY <1>3, <2>1 DEF Range
<1>5. \A i, j \in 1..Len(queue) : queue[i] = queue[j] => i = j
    BY <1>2, <1>3 DEF IsInjective
<1> QED
    BY <1>1, <1>2, <1>3, <1>4, <1>5, LinksAreBetween DEF Numbered

LEMMA Seeds ==
    ASSUME Falling, Seed
    PROVE  Falling'
<1>1. /\ Numbered /\ Count \in Nat /\ cursor \in 1..Count /\ queue \in Seq(1..Count)
      /\ IsInjective(queue) /\ \A m \in Nodes : component[m] # 0
    BY UnderWay DEF Seed, Falling, Queued
<1>2. Count' = Count /\ Links' = Links
    BY SameComponents DEF Seed, secondSearch
<1>3. /\ cursor' = cursor + 1 /\ indegree' = indegree /\ passed' = {} /\ passed = {}
      /\ stage = "seed" /\ stage' = "seed"
      /\ indegree = [c \in 1..Count |-> Cardinality(Left(c))]
      /\ Range(queue) = {c \in 1..Count : c < cursor /\ indegree[c] = 0}
    BY DEF Seed, Falling, Queued, Seeded
<1>4. \A c : Left(c)' = Left(c) /\ Left(c) = {link \in Links : link[2] = c}
    BY <1>2, <1>3 DEF Left, Gone
<1>5. /\ queue' \in Seq(1..Count) /\ IsInjective(queue')
      /\ Range(queue') = {c \in 1..Count : c < cursor + 1 /\ indegree[c] = 0}
    <2>1. \A c \in 1..Count : c < cursor + 1 <=> c < cursor \/ c = cursor
        BY <1>1
    <2>2. cursor \notin Range(queue)
        BY <1>1, <1>3
    <2>3. CASE indegree[cursor] = 0
        <3>1. queue' = Append(queue, cursor)
            BY <2>3 DEF Seed
        <3>2. /\ queue' \in Seq(1..Count) /\ IsInjective(queue')
              /\ Range(queue') = Range(queue) \cup {cursor}
            BY <1>1, <2>2, <3>1, OneMore
        <3>3. Range(queue) \cup {cursor} = {c \in 1..Count : c < cursor + 1 /\ indegree[c] = 0}
            BY <1>1, <1>3, <2>1, <2>3
        <3> QED
            BY <3>2, <3>3
    <2>4. CASE indegree[cursor] # 0
        BY <1>1, <1>3, <2>1, <2>4 DEF Seed
    <2> QED
        BY <2>3, <2>4
<1>6. Queued'
    BY <1>1, <1>2, <1>3, <1>4, <1>5 DEF Queued, Seeded
<1>7. ASSUME NEW link \in Links, NEW j \in 1..Len(queue'), link[2] = queue'[j]
      PROVE  FALSE
    <2>1. queue'[j] \in Range(queue')
        BY <1>5 DEF Range
    <2>2. link[2] \in 1..Count /\ Cardinality(Left(link[2])) = 0
        BY <1>3, <1>5, <1>7, <2>1
    <2>3. Left(link[2]) = {}
        BY <1>1, <2>2, Counted
    <2> QED
        BY <1>4, <2>3
<1>8. Sorted'
    BY <1>2, <1>5, <1>7 DEF Sorted, InOrder
<1> QED
    BY <1>1, <1>3, <1>6, <1>8, Thereafter DEF Seed, Ranked

LEMMA SortBegins ==
    ASSUME Falling, BeginSort
    PROVE  Falling'
<1>1. Count \in Nat /\ cursor \in Nat /\ queue \in Seq(1..Count) /\ Len(queue) \in Nat
    BY UnderWay DEF BeginSort
<1>2. Count' = Count /\ Links' = Links
    BY SameComponents DEF BeginSort, secondSearch
<1>3. /\ cursor' = 1 /\ indegree' = indegree /\ passed' = {} /\ queue' = queue
      /\ stage = "seed" /\ stage' = "sort" /\ cursor > Count
      /\ indegree = [c \in 1..Count |-> Cardinality(Left(c))]
      /\ Range(queue) = {c \in 1..Count : c < cursor /\ indegree[c] = 0}
    BY DEF BeginSort, Falling, Queued, Seeded, sorting
<1>4. \A link : ~Gone(link) /\ ~Gone(link)'
    BY <1>1, <1>3 DEF Gone
<1>5. \A c : Left(c)' = Left(c)
    BY <1>2, <1>4 DEF Left
<1>6. Range(queue') = {c \in 1..Count : indegree[c] = 0}
    BY <1>1, <1>3
<1>7. Queued'
    <2>1. indegree' = [c \in (1..Count)' |-> Cardinality(Left(c)')]
        BY <1>2, <1>3, <1>5
    <2>2. Range(queue') = {c \in (1..Count)' : Seeded(c)' /\ indegree'[c] = 0}
        BY <1>2, <1>3, <1>6 DEF Seeded
    <2>3. cursor' >= 1 /\ passed' = {} /\ passed' \subseteq After(queue[cursor])'
        BY <1>3
    <2> HIDE DEF Left, After, Seeded, Count
    <2> QED
        BY <2>1, <2>2, <2>3 DEF Queued
<1>8. Sorted'
    BY <1>2, <1>3 DEF Falling, Sorted, InOrder
<1> QED
    BY <1>3, <1>7, <1>8, Thereafter DEF BeginSort, Ranked

LEMMA Passes ==
    ASSUME Falling, NEW d \in 1..Count, PassLink(d)
    PROVE  Falling'
<1> DEFINE link == <<queue[cursor], d>>
<1>1. /\ Numbered /\ Count \in Nat /\ queue \in Seq(1..Count) /\ IsInjective(queue)
      /\ Len(queue) \in Nat /\ cursor \in 1..Len(queue) /\ (\A m \in Nodes : component[m] # 0)
      /\ \A i, j \in 1..Len(queue) : queue[i] = queue[j] => i = j
    BY UnderWay DEF PassLink, Falling, Queued
<1>2. Count' = Count /\ Links' = Links /\ \A c : After(c)' = After(c)
    BY SameComponents DEF PassLink, secondSearch
<1>3. /\ stage = "sort" /\ stage' = "sort" /\ cursor' = cursor /\ passed' = passed \cup {d}
      /\ d \in After(queue[cursor]) /\ d \notin passed /\ passed \subseteq After(queue[cursor])
      /\ indegree = [c \in 1..Count |-> Cardinality(Left(c))]
      /\ indegree' = [indegree EXCEPT ![d] = @ - 1]
      /\ queue' = IF indegree'[d] = 0 THEN Append(queue, d) ELSE queue
      /\ Range(queue) = {c \in 1..Count : indegree[c] = 0}
    BY <1>1 DEF PassLink, PassedOver, Falling, Queued, Seeded
<1>4. link \in Left(d)
    <2>1. link \in Links
        <3>1. PICK found \in Links : found[1] = queue[cursor] /\ found[2] = d
            BY <1>3 DEF After
        <3>2. found = <<found[1], found[2]>>
            BY <1>3, UnderWay
        <3> QED
            BY <3>1, <3>2
    <2>2. ~Gone(link)
        BY <1>1, <1>3 DEF Gone
    <2> QED
        BY <2>1, <2>2 DEF Left
<1>5. /\ Len(queue') \in Nat /\ Len(queue') >= Len(queue)
      /\ \A i \in 1..Len(queue) : i \in 1..Len(queue') /\ queue'[i] = queue[i]
    <2>1. \A i \in 1..Len(queue) : Append(queue, d)[i] = queue[i]
        BY <1>1, OneMore
    <2>2. Len(Append(queue, d)) = Len(queue) + 1
        BY <1>1
    <2> QED
        BY <1>1, <1>3, <2>1, <2>2
<1>6. \A other \in Links : Gone(other)' <=> Gone(other) \/ other = link
    <2> TAKE other \in Links
    <2>1. other = <<other[1], other[2]>>
        BY <1>3, UnderWay
    <2>2. (\E i \in 1..Len(queue') : i < cursor /\ queue'[i] = other[1])
            <=> (\E i \in 1..Len(queue) : i < cursor /\ queue[i] = other[1])
        <3>1. \A i \in 1..Len(queue') : i < cursor => i \in 1..Len(queue)
            BY <1>1, <1>5
        <3> QED
            BY <1>5, <3>1
    <2>3. queue'[cursor] = queue[cursor] /\ cursor <= Len(queue') /\ cursor <= Len(queue)
        BY <1>1, <1>5
    <2>4. other = link <=> other[1] = queue[cursor] /\ other[2] = d
        BY <2>1
    <2> QED
        BY <1>3, <2>2, <2>3, <2>4 DEF Gone
<1>7. \A c \in 1..Count : Left(c)' = Left(c) \ {link}
    BY <1>2, <1>6 DEF Left
<1>8. \A c \in 1..Count : c # d => Left(c)' = Left(c)
    <2>1. \A c \in 1..Count : c # d => link \notin Left(c)
        BY DEF Left
    <2> QED
        BY <1>7, <2>1
<1>9. /\ IsFiniteSet(Left(d)) /\ Cardinality(Left(d)) \in Nat /\ Cardinality(Left(d)) # 0
      /\ Cardinality(Left(d)') = Cardinality(Left(d)) - 1
    <2>1. IsFiniteSet(Left(d)) /\ Cardinality(Left(d)) \in Nat /\ Cardinality(Left(d)) # 0
        BY <1>1, <1>4, Counted
    <2>2. Cardinality(Left(d) \ {link}) = Cardinality(Left(d)) - 1
        BY <1>4, <2>1, FS_RemoveElement
    <2> QED
        BY <1>7, <2>1, <2>2
<1>10. indegree' = [c \in 1..Count |-> Cardinality(Left(c)')]
    <2>1. \A c \in 1..Count : indegree'[c] = Cardinality(Left(c)')
        BY <1>3, <1>8, <1>9
    <2>2. indegree' = [c \in 1..Count |-> indegree'[c]]
        BY <1>3
    <2> QED
        BY <2>1, <2>2
<1>11. d \notin Range(queue) /\ indegree[d] # 0
    BY <1>3, <1>9
<1>12. /\ queue' \in Seq(1..Count) /\ IsInjective(queue')
       /\ Range(queue') = {c \in 1..Count : indegree'[c] = 0}
    <2>1. \A c \in 1..Count : c # d => indegree'[c] = indegree[c]
        BY <1>3
    <2>2. CASE indegree'[d] = 0
        <3>1. queue' = Append(queue, d)
            BY <1>3, <2>2
        <3>2. /\ queue' \in Seq(1..Count) /\ IsInjective(queue')
              /\ Range(queue') = Range(queue) \cup {d}
            BY <1>1, <1>11, <3>1, OneMore
        <3>3. Range(queue) \cup {d} = {c \in 1..Count : indegree'[c] = 0}
            BY <1>3, <2>1, <2>2
        <3> QED
            BY <3>2, <3>3
    <2>3. CASE indegree'[d] # 0
        <3>1. queue' = queue
            BY <1>3, <2>3
        <3>2. {c \in 1..Count : indegree[c] = 0} = {c \in 1..Count : indegree'[c] = 0}
            BY <1>11, <2>1, <2>3
        <3> QED
            BY <1>1, <1>3, <3>1, <3>2
    <2> QED
        BY <2>2, <2>3
<1>13. Queued'
    <2>1. queue'[cursor] = queue[cursor] /\ cursor <= Len(queue')
        BY <1>1, <1>5
    <2>2. (passed \subseteq After(queue[cursor]))'
        <3>1. After(queue[cursor])' = {l[2] : l \in {l \in Links : l[1] = queue[cursor]}}
            BY <1>2, <1>3, <2>1 DEF After
        <3> QED
            BY <1>3, <3>1 DEF After
    <2>3. indegree' = [c \in (1..Count)' |-> Cardinality(Left(c)')]
        BY <1>2, <1>10
    <2>4. Range(queue') = {c \in (1..Count)' : Seeded(c)' /\ indegree'[c] = 0}
        BY <1>2, <1>3, <1>12 DEF Seeded
    <2>5. cursor' >= 1 /\ ~(cursor' > Len(queue')) /\ stage' # "seed"
        BY <1>1, <1>3, <2>1, <1>5
    <2> QED
        BY <1>3, <2>2, <2>3, <2>4, <2>5 DEF Queued
<1>14. ASSUME NEW other \in Links, NEW j \in 1..Len(queue'), other[2] = queue'[j]
       PROVE  \E i \in 1..j - 1 : queue'[i] = other[1]
    <2>1. CASE j \in 1..Len(queue)
        <3>1. other[2] = queue[j]
            BY <1>5, <1>14, <2>1
        <3>2. PICK i \in 1..j - 1 : queue[i] = other[1]
            BY <1>3, <2>1, <3>1 DEF Falling, Sorted
        <3>3. i \in 1..Len(queue)
            BY <1>1, <2>1
        <3> QED
            BY <1>5, <3>2, <3>3
    <2>2. CASE j \notin 1..Len(queue)
        <3>1. indegree'[d] = 0 /\ queue' = Append(queue, d)
            BY <1>3, <2>2
        <3>2. j = Len(queue) + 1 /\ queue'[j] = d
            <4>1. /\ Len(Append(queue, d)) = Len(queue) + 1
                  /\ Append(queue, d)[Len(queue) + 1] = d
                BY <1>1, OneMore
            <4>2. j = Len(queue) + 1
                BY <1>1, <2>2, <3>1, <4>1
            <4> QED
                BY <3>1, <4>1, <4>2
        <3>3. Left(d)' = {}
            <4>1. Cardinality(Left(d)') = 0
                BY <1>10, <3>1
            <4>2. IsFiniteSet(Left(d)')
                BY <1>7, <1>9, FS_Subset
            <4> QED
                BY <4>1, <4>2, FS_EmptySet
        <3>4. Gone(other)'
            BY <1>2, <1>14, <3>2, <3>3 DEF Left
        <3>5. \E i \in 1..Len(queue') : i <= cursor /\ queue'[i] = other[1]
            BY <1>1, <1>3, <1>5, <3>4 DEF Gone
        <3> QED
            BY <1>1, <3>2, <3>5
    <2> QED
        BY <2>1, <2>2
<1>15. Sorted'
    BY <1>2, <1>12, <1>14 DEF Sorted, InOrder
<1> QED
    BY <1>1, <1>3, <1>13, <1>15, Thereafter DEF PassLink, Ranked

LEMMA Advances ==
    ASSUME Falling, NextSorted
    PROVE  Falling'
<1>1. /\ Count \in Nat /\ queue \in Seq(1..Count) /\ Len(queue) \in Nat
      /\ cursor \in 1..Len(queue)
    BY UnderWay DEF NextSorted, Falling, Queued
<1>2. Count' = Count /\ Links' = Links
    BY SameComponents DEF NextSorted, secondSearch
<1>3. /\ stage = "sort" /\ stage' = "sort" /\ cursor' = cursor + 1 /\ passed' = {}
      /\ queue' = queue /\ indegree' = indegree /\ After(queue[cursor]) \subseteq passed
      /\ indegree = [c \in 1..Count |-> Cardinality(Left(c))]
      /\ Range(queue) = {c \in 1..Count : indegree[c] = 0}
    BY DEF NextSorted, Falling, Queued, Seeded
<1>4. \A link \in Links : Gone(link)' <=> Gone(link)
    <2> TAKE link \in Links
    <2>1. queue[cursor] = link[1] => link[2] \in passed
        BY <1>3 DEF After
    <2>2. (\E i \in 1..Len(queue) : i < cursor + 1 /\ queue[i] = link[1])
            <=> \/ \E i \in 1..Len(queue) : i < cursor /\ queue[i] = link[1]
                \/ queue[cursor] = link[1]
        <3>1. \A i \in 1..Len(queue) : i < cursor + 1 <=> i < cursor \/ i = cursor
            BY <1>1
        <3> QED
            BY <1>1, <3>1
    <2>3. cursor <= Len(queue)
        BY <1>1
    <2> QED
        BY <1>3, <2>1, <2>2, <2>3 DEF Gone
<1>5. \A c : Left(c)' = Left(c)
    BY <1>2, <1>4 DEF Left
<1>6. Queued'
    BY <1>1, <1>2, <1>3, <1>5 DEF Queued, Seeded
<1>7. Sorted'
    BY <1>2, <1>3 DEF Falling, Sorted, InOrder
<1> QED
    BY <1>1, <1>3, <1>6, <1>7, Thereafter DEF NextSorted, Ranked
-----------------------------------------------------------------------------
(* The ranks.                                                                *)
LEMMA RanksBegin ==
    ASSUME Falling, BeginRanks
    PROVE  Falling'
<1>1. Count \in Nat /\ Len(queue) \in Nat
    BY UnderWay DEF BeginRanks
<1>2. Count' = Count /\ Links' = Links
    BY SameComponents DEF BeginRanks, secondSearch
<1>3. /\ stage = "sort" /\ stage' \in {"rank", "refused"} /\ cursor' = Len(queue)
      /\ (stage' = "rank" => Len(queue) = Count)
      /\ rank' = [c \in 1..Count |-> 0] /\ queue' = queue
    BY DEF BeginRanks, sorting
<1>4. Bounded(rank, 1..Count)'
    <2>1. rank' \in [1..Count -> 0..0]
        BY <1>3
    <2> QED
        BY <1>2, <2>1 DEF Bounded
<1>5. Ranked'
    <2>1. stage' = "rank" => cursor' <= Count /\ \A j \in 1..Len(queue) : ~(j > cursor')
        BY <1>1, <1>3
    <2> QED
        BY <1>2, <1>3, <1>4, <2>1 DEF Ranked
<1>6. Sorted' /\ Queued'
    BY <1>2, <1>3 DEF Falling, Sorted, InOrder, Queued
<1> QED
    BY <1>1, <1>3, <1>5, <1>6, Thereafter DEF BeginRanks

LEMMA Raises ==
    ASSUME Falling, Raise
    PROVE  Falling'
<1> DEFINE c == queue[cursor]
           numbers == {rank[c]} \cup {rank[d] + Increment(<<c, d>>) : d \in After(c)}
<1>1. /\ Count \in Nat /\ Len(queue) \in Nat /\ Len(queue) = Count
      /\ cursor \in 1..Len(queue) /\ c \in 1..Count /\ stage = "rank"
      /\ \A i \in 1..Len(queue) : queue[i] \in 1..Count
      /\ \A i, j \in 1..Len(queue) : queue[i] = queue[j] => i = j
    BY UnderWay DEF Raise, Falling, Ranked
<1>2. /\ Count' = Count /\ Links' = Links /\ \A b : After(b)' = After(b)
      /\ \A link : Increment(link)' = Increment(link)
    BY SameComponents DEF Raise, secondSearch
<1>3. PICK n \in Nat : rank \in [1..Count -> 0..n]
    BY <1>1 DEF Falling, Ranked, Bounded
<1>4. \A b : \A d \in After(b) : d \in 1..Count /\ d # b /\ <<b, d>> \in Links
    <2> TAKE b
    <2> TAKE d \in After(b)
    <2>1. PICK link \in Links : link[1] = b /\ link[2] = d
        BY DEF After
    <2>2. link = <<link[1], link[2]>> /\ link[1] # link[2] /\ link[2] \in 1..Count
        BY <1>1, UnderWay
    <2> QED
        BY <2>1, <2>2
<1>5. /\ stage' = "rank" /\ cursor' = cursor - 1 /\ queue' = queue
      /\ rank' = [rank EXCEPT ![c] = Max(numbers)]
    BY DEF Raise, sorting
<1>6. numbers \subseteq 0..n + 1 /\ numbers # {}
    <2>1. rank[c] \in 0..n + 1
        BY <1>1, <1>3
    <2>2. ASSUME NEW d \in After(c) PROVE rank[d] + Increment(<<c, d>>) \in 0..n + 1
        <3>1. rank[d] \in 0..n
            BY <1>3, <1>4
        <3>2. Increment(<<c, d>>) \in 0..1
            BY DEF Increment
        <3> QED
            BY <3>1, <3>2
    <2> QED
        BY <2>1, <2>2
<1> HIDE DEF numbers
<1>7. Max(numbers) \in 0..n + 1 /\ \A k \in numbers : k <= Max(numbers)
    <2>1. n + 1 \in Nat
        BY <1>3
    <2>2. Max(numbers) \in numbers /\ \A k \in numbers : k <= Max(numbers)
        BY <1>6, <2>1, LargestExists
    <2> QED
        BY <1>6, <2>2
<1>8. Bounded(rank, 1..Count)'
    <2>1. \A d \in 1..Count : rank[d] \in 0..n + 1
        BY <1>3
    <2>2. rank \in [1..Count -> 0..n + 1]
        BY <1>3, <2>1
    <2>3. rank' \in [1..Count -> 0..n + 1] /\ n + 1 \in Nat
        BY <1>1, <1>3, <1>5, <1>7, <2>2
    <2> QED
        BY <1>2, <2>3 DEF Bounded
<1>9. rank'[c] = Max(numbers) /\ \A d \in 1..Count : d # c => rank'[d] = rank[d]
    BY <1>1, <1>3, <1>5
<1>10. ASSUME NEW j \in 1..Len(queue), j > cursor - 1, NEW d \in After(queue[j])
       PROVE  rank'[d] + Increment(<<queue[j], d>>) <= rank'[queue[j]]
    <2>1. CASE j = cursor
        <3>1. rank'[d] = rank[d]
            BY <1>4, <1>9, <2>1
        <3>2. rank[d] + Increment(<<c, d>>) \in numbers
            BY <2>1 DEF numbers
        <3> QED
            BY <1>7, <1>9, <2>1, <3>1, <3>2
    <2>2. CASE j > cursor
        <3>1. d # c
            <4> SUFFICES ASSUME d = c PROVE FALSE
                OBVIOUS
            <4>1. <<queue[j], d>> \in Links /\ <<queue[j], d>>[2] = queue[cursor]
                BY <1>4
            <4>2. \E i \in 1..cursor - 1 : queue[i] = <<queue[j], d>>[1]
                <5>1. Sorted
                    BY DEF Falling
                <5> QED
                    BY <1>1, <4>1, <5>1 DEF Sorted
            <4>4. PICK i \in 1..cursor - 1 : queue[i] = queue[j]
                BY <4>2
            <4>3. i \in 1..Len(queue)
                BY <1>1
            <4> QED
                BY <1>1, <2>2, <4>4, <4>3
        <3>2. queue[j] # c /\ queue[j] \in 1..Count
            BY <1>1, <2>2
        <3>3. rank[d] + Increment(<<queue[j], d>>) <= rank[queue[j]]
            BY <1>1, <2>2 DEF Falling, Ranked, Settled
        <3> QED
            BY <1>4, <1>9, <3>1, <3>2, <3>3
    <2> QED
        BY <1>1, <1>10, <2>1, <2>2
<1>11. Ranked'
    <2>1. cursor' <= Count'
        BY <1>1, <1>2, <1>5
    <2>2. \A j \in 1..Len(queue) : j > cursor - 1 => Settled(queue[j])'
        <3> TAKE j \in 1..Len(queue)
        <3> HAVE j > cursor - 1
        <3>1. \A d \in After(queue[j]) : rank'[d] + Increment(<<queue[j], d>>) <= rank'[queue[j]]
            BY <1>10
        <3>2. After(queue[j])' = After(queue[j])
            BY <1>2, <1>5 DEF After
        <3>3. \A d : Increment(<<queue[j], d>>)' = Increment(<<queue[j], d>>)
            BY <1>2, <1>5
        <3> QED
            BY <1>5, <3>1, <3>2, <3>3 DEF Settled
    <2>3. (\A j \in 1..Len(queue) : j > cursor => Settled(queue[j]))'
        BY <1>5, <2>2
    <2>4. (Len(queue) = Count)' /\ stage' # "done"
        BY <1>1, <1>2, <1>5
    <2> QED
        BY <1>8, <2>1, <2>3, <2>4 DEF Ranked
<1>12. Sorted' /\ Queued'
    BY <1>1, <1>2, <1>5 DEF Falling, Sorted, InOrder, Queued
<1> QED
    BY <1>1, <1>5, <1>11, <1>12, Thereafter DEF Raise
-----------------------------------------------------------------------------
LEMMA Returns ==
    ASSUME Falling, Return
    PROVE  Falling'
<1>1. /\ Count' = Count /\ Links' = Links /\ Bounded(rank, 1..Count)' = Bounded(rank, 1..Count)
      /\ \A c : Settled(c)' = Settled(c)
    <2>1. /\ Count' = Count /\ Links' = Links /\ rank' = rank
          /\ \A c : After(c)' = After(c) /\ \A link : Increment(link)' = Increment(link)
        BY SameComponents DEF Return, secondSearch
    <2> QED
        BY <2>1 DEF Bounded, Settled
<1>2. Ranked'
    <2>1. queue' = queue /\ stage = "rank" /\ cursor' = cursor /\ cursor = 0
        BY DEF Return, sorting
    <2>2. (\A j \in 1..Len(queue) : j > cursor => Settled(queue[j]))'
        BY <1>1, <2>1 DEF Falling, Ranked
    <2> QED
        BY <1>1, <2>1, <2>2 DEF Falling, Ranked
<1>3. Sorted' /\ Queued'
    BY <1>1 DEF Falling, Sorted, InOrder, Queued, Return, sorting
<1> QED
    BY <1>2, <1>3, Thereafter DEF Return, Falling

(* A search cut short claims nothing of its result.                          *)
LEMMA Stops ==
    ASSUME Falling, Exhaust
    PROVE  Falling'
<1>1. Nodes' = Nodes /\ Bounded(component, Nodes)' = Bounded(component, Nodes)
    BY SameComponents DEF Exhaust, secondSearch
<1>2. Searched' /\ Numbered'
    BY <1>1 DEF Falling, Searched, Numbered, Frames, Exhaust, firstSearch, secondSearch
<1> QED
    BY <1>2 DEF Falling, Visiting, Assigning, Condensed, Queued, Sorted, Ranked, Exhaust

LEMMA Rests ==
    ASSUME Falling, UNCHANGED vars
    PROVE  Falling'
<1>1. /\ graph' = graph /\ stage' = stage /\ cursor' = cursor /\ stack' = stack
      /\ visited' = visited /\ order' = order /\ component' = component /\ pending' = pending
      /\ indegree' = indegree /\ queue' = queue /\ passed' = passed /\ rank' = rank
    BY DEF vars
<1>2. /\ Nodes' = Nodes /\ Count' = Count /\ Links' = Links /\ StrictLoop' = StrictLoop
      /\ \A c : After(c)' = After(c)
      /\ \A link : Increment(link)' = Increment(link)
      /\ Bounded(component, Nodes)' = Bounded(component, Nodes)
    BY <1>1, SameComponents
<1>3. Searched' /\ Visiting' /\ Numbered' /\ Assigning' /\ Condensed'
    BY <1>1, <1>2
    DEF Falling, Searched, Visiting, Numbered, Assigning, Condensed, Frames
<1>4. Queued'
    <2>1. \A link : Gone(link)' = Gone(link)
        BY <1>1 DEF Gone
    <2>2. \A c : Left(c)' = Left(c) /\ Seeded(c)' = Seeded(c)
        BY <1>1, <1>2, <2>1 DEF Left, Seeded
    <2>3. After(queue[cursor])' = After(queue[cursor])
        BY <1>1, <1>2 DEF After
    <2> QED
        BY <1>1, <1>2, <2>2, <2>3 DEF Falling, Queued
<1>5. Sorted'
    BY <1>1, <1>2 DEF Falling, Sorted, InOrder
<1>6. Ranked'
    <2>1. \A c : Settled(c)' = Settled(c)
        BY <1>1, <1>2 DEF Settled
    <2>2. (\A j \in 1..Len(queue) : j > cursor => Settled(queue[j]))'
            = \A j \in 1..Len(queue) : j > cursor => Settled(queue[j])
        BY <1>1, <1>2 DEF Settled
    <2>3. Bounded(rank, 1..Count)' = Bounded(rank, 1..Count)
        BY <1>1, <1>2 DEF Bounded
    <2> QED
        BY <1>1, <1>2, <2>2, <2>3 DEF Falling, Ranked
<1> QED
    BY <1>1, <1>3, <1>4, <1>5, <1>6 DEF Falling

LEMMA Descends ==
    ASSUME Falling
    PROVE  RanksFall
<1> SUFFICES ASSUME stage = "done", NEW e \in Edges
             PROVE  \/ RankOf(e[2]) < RankOf(e[1])
                    \/ RankOf(e[2]) = RankOf(e[1]) /\ ~graph.strict[e[1]]
    BY DEF RanksFall
<1> DEFINE a == component[e[1]]
           b == component[e[2]]
<1>1. /\ Count \in Nat /\ a \in 1..Count /\ b \in 1..Count
      /\ queue \in Seq(1..Count) /\ IsInjective(queue) /\ Len(queue) = Count
    BY UnderWay DEF Falling, Ranked, Edges
<1>2. PICK n \in Nat : rank \in [1..Count -> 0..n]
    BY DEF Falling, Ranked, Bounded
<1>3. rank[a] \in Nat /\ rank[b] \in Nat
    <2>1. \A c \in 1..Count : rank[c] \in 0..n
        BY <1>2
    <2>2. 0..n \subseteq Nat
        OBVIOUS
    <2> QED
        BY <1>1, <2>1, <2>2
<1>4. CASE a = b
    BY <1>4 DEF Falling, Condensed, StrictLoop, RankOf
<1>5. CASE a # b
    <2>1. <<a, b>> \in Links
        BY <1>5 DEF Links, LinkOf
    <2>2. b \in After(a)
        BY <2>1 DEF After
    <2>3. PICK i \in 1..Count : queue[i] = a
        BY <1>1, AllInOrder
    <2>4. Settled(a)
        BY <1>1, <2>3 DEF Falling, Ranked
    <2>5. rank[b] + Increment(<<a, b>>) <= rank[a]
        BY <2>2, <2>4 DEF Settled
    <2>6. /\ Increment(<<a, b>>) \in 0..1
          /\ graph.strict[e[1]] => Increment(<<a, b>>) = 1
        BY DEF Increment, LinkOf
    <2> QED
        BY <1>3, <2>5, <2>6 DEF RankOf
<1> QED
    BY <1>4, <1>5

LEMMA FallingHolds == Spec => []Falling
<1>1. Falling /\ [Next]_vars => Falling'
    <2> SUFFICES ASSUME Falling, [Next]_vars PROVE Falling'
        OBVIOUS
    <2>1. CASE NextRoot
        BY <2>1, NextRoots
    <2>2. CASE FollowEdge
        BY <2>2, EdgeFollowed
    <2>3. CASE Finish
        BY <2>3, Finishes
    <2>4. CASE BeginComponents
        BY <2>4, Between
    <2>5. CASE NextComponent
        BY <2>5, Numbers
    <2>6. CASE \E node \in pending : Spread(node)
        BY <2>6, Spreads
    <2>7. CASE Condense
        BY <2>7, Condenses
    <2>8. CASE Seed
        BY <2>8, Seeds
    <2>9. CASE BeginSort
        BY <2>9, SortBegins
    <2>10. CASE \E d \in 1..Count : PassLink(d)
        BY <2>10, Passes
    <2>11. CASE NextSorted
        BY <2>11, Advances
    <2>12. CASE BeginRanks
        BY <2>12, RanksBegin
    <2>13. CASE Raise
        BY <2>13, Raises
    <2>14. CASE Return
        BY <2>14, Returns
    <2>15. CASE Exhaust
        BY <2>15, Stops
    <2>16. CASE UNCHANGED vars
        BY <2>16, Rests
    <2> QED
        BY <2>1, <2>2, <2>3, <2>4, <2>5, <2>6, <2>7, <2>8, <2>9, <2>10, <2>11, <2>12, <2>13,
           <2>14, <2>15, <2>16 DEF Next, Work
<1> QED
    BY <1>1, Starts, PTL DEF Spec

(* When the compiler gives ranks, they fall along every edge of the graph,   *)
(* and strictly along the strict ones: the sort has put the source of every  *)
(* link before its destination, and ranks are raised from its end.           *)
THEOREM RanksAlwaysFall == Spec => []RanksFall
    BY FallingHolds, Descends, PTL

(* A graph is read off the table (reduction_ranks): its nodes are the cells  *)
(* with a reduction, and its edges lead to the reductions that may follow.   *)
IsOfTable ==
    /\ Nodes = Cells
    /\ \A cell \in Cells : /\ Range(graph.next[cell]) = Successors(cell)
                           /\ graph.strict[cell] = Strict(cell)

(* So a table with the ranks that the compiler found for it has ranks that   *)
(* are justified, which is all that RanksSuffice supposes of a table: the    *)
(* core's check of its own progress never fails on what the compiler made.   *)
THEOREM CompiledRanksAreJustified ==
    Spec => [](stage = "done" /\ IsOfTable /\ (\A cell \in Cells : StoredRank(cell) = RankOf(cell))
                 => RanksJustified)
<1>1. ASSUME Falling, stage = "done", IsOfTable, \A cell \in Cells : StoredRank(cell) = RankOf(cell)
      PROVE  RanksJustified
    <2> SUFFICES ASSUME NEW cell \in Cells, NEW next \in Successors(cell)
                 PROVE  \/ StoredRank(next) < StoredRank(cell)
                        \/ StoredRank(next) = StoredRank(cell) /\ ~Strict(cell)
        BY DEF RanksJustified
    <2>1. next \in Cells /\ next \in Range(graph.next[cell]) /\ graph.next[cell] \in Seq(Nodes)
        BY <1>1, GraphTypes DEF Successors, IsOfTable, Falling
    <2>2. Contains(graph.next[cell], next)
        BY <2>1 DEF Contains, Range
    <2>3. <<cell, next>> \in Edges
        BY <1>1, <2>1, <2>2 DEF Edges, IsOfTable
    <2> QED
        BY <1>1, <2>1, <2>3, Descends DEF RanksFall, IsOfTable
<1> QED
    BY <1>1, FallingHolds, PTL
-----------------------------------------------------------------------------
(* For the types of the rest: a node is met once, and so finished once, and  *)
(* there are never more components than nodes of the order looked at.        *)
Distinct ==
    /\ IsInjective(order)
    /\ \A i, j \in 1..Len(stack) : stack[i].node = stack[j].node => i = j
    /\ \A i \in 1..Len(stack) : stack[i].node \notin Range(order)
Few ==
    /\ stage = "visit" => \A m \in Nodes : component[m] = 0
    /\ stage = "assign" => \A m \in Nodes : component[m] + cursor <= Len(order)
    /\ component \in [Nodes -> 0..Len(graph.nodes)]
NotYet == stage \in {"visit", "assign"} => indegree = <<>> /\ rank = <<>>
Counts ==
    /\ DOMAIN indegree \subseteq 1..Count /\ Range(indegree) \subseteq Nat
    /\ Range(queue) \subseteq 1..Count /\ IsInjective(queue) /\ passed \subseteq 1..Count
    /\ DOMAIN rank \subseteq 1..Count /\ Range(rank) \subseteq Nat
Typed ==
    /\ stage \in {"visit", "assign", "seed", "sort", "rank"} \cup Final
    /\ Distinct /\ Few /\ NotYet /\ Counts

LEMMA NoMoreThanAll ==
    ASSUME graph \in Graphs, order \in Seq(Nodes), IsInjective(order)
    PROVE  Len(order) <= Len(graph.nodes)
<1> DEFINE n == Len(graph.nodes)
           k == Len(order)
<1>1. n \in Nat /\ k \in Nat /\ DOMAIN order = 1..k
    BY GraphTypes
<1>2. graph.nodes \in [1..n -> Nodes] /\ \A m \in Nodes : \E i \in 1..n : graph.nodes[i] = m
    <2>1. graph.nodes \in Seq(Nodes)
        BY GraphTypes
    <2>2. graph.nodes \in [1..n -> Nodes]
        BY <2>1
    <2>3. \A m \in Nodes : \E i \in 1..n : graph.nodes[i] = m
        BY GraphTypes
    <2> QED
        BY <2>2, <2>3
<1>3. order \in [1..k -> Nodes]
    BY <1>1
<1> HIDE DEF n, k
<1>4. graph.nodes \in Surjection(1..n, Nodes)
    BY <1>2 DEF Surjection
<1>5. /\ IsFiniteSet(1..n) /\ Cardinality(1..n) = n
      /\ IsFiniteSet(1..k) /\ Cardinality(1..k) = k
    BY <1>1, FS_Interval
<1>6. IsFiniteSet(Nodes) /\ Cardinality(Nodes) <= n
    BY <1>4, <1>5, FS_Surjection
<1>7. order \in Injection(1..k, Nodes)
    BY <1>1, <1>3 DEF Injection, IsInjective
<1>8. k <= Cardinality(Nodes) /\ Cardinality(Nodes) \in Nat
    BY <1>5, <1>6, <1>7, FS_Injection, FS_CardinalityType
<1> QED
    BY <1>1, <1>6, <1>8 DEF n, k

LEMMA TypedAtFirst == Init => Typed
<1> SUFFICES ASSUME Init PROVE Typed
    OBVIOUS
<1>1. /\ order = <<>> /\ stack = <<>> /\ indegree = <<>> /\ queue = <<>> /\ rank = <<>>
      /\ passed = {} /\ stage = "visit" /\ graph \in Graphs
      /\ component = [node \in Nodes |-> 0]
    BY DEF Init
<1>2. Distinct
    BY <1>1 DEF Distinct, IsInjective, Range
<1>3. Few
    <2>1. Len(graph.nodes) \in Nat
        BY <1>1, GraphTypes
    <2> QED
        BY <1>1, <2>1 DEF Few
<1>4. Counts
    BY <1>1 DEF Counts, IsInjective, Range
<1> QED
    BY <1>1, <1>2, <1>3, <1>4 DEF Typed, NotYet

(* The first search: a node goes on the stack when it is first met.          *)
LEMMA MetOnce ==
    ASSUME Falling, Distinct, NEW node \in Nodes, node \notin visited, order' = order,
           NEW frames \in Seq([node : Nodes, edge : Nat \ {0}]), Len(frames) = Len(stack),
           \A i \in 1..Len(stack) : frames[i].node = stack[i].node,
           stack' = Append(frames, Frame(node, 1))
    PROVE  Distinct'
<1>1. Len(stack) \in Nat /\ Len(stack') = Len(stack) + 1
      /\ \A i \in 1..Len(stack) : stack'[i] = frames[i]
    BY DEF Falling, Searched
<1>2. stack'[Len(stack) + 1].node = node
    <2>1. stack'[Len(stack) + 1] = Frame(node, 1)
        BY <1>1
    <2> QED
        BY <2>1 DEF Frame
<1>3. node \notin Range(order) /\ \A i \in 1..Len(stack) : stack[i].node # node
    BY DEF Falling, Searched, Frames
<1>4. \A i \in 1..Len(stack') : \/ i = Len(stack) + 1
                                \/ i \in 1..Len(stack) /\ stack'[i].node = stack[i].node
    BY <1>1
<1>5. IsInjective(order') /\ \A i \in 1..Len(stack') : stack'[i].node \notin Range(order')
    BY <1>2, <1>3, <1>4 DEF Distinct
<1>6. ASSUME NEW i \in 1..Len(stack'), NEW j \in 1..Len(stack'), stack'[i].node = stack'[j].node
      PROVE  i = j
    <2>1. CASE i = Len(stack) + 1
        BY <1>2, <1>3, <1>4, <1>6, <2>1
    <2>2. CASE j = Len(stack) + 1
        BY <1>2, <1>3, <1>4, <1>6, <2>2
    <2>3. CASE i # Len(stack) + 1 /\ j # Len(stack) + 1
        BY <1>4, <1>6, <2>3 DEF Distinct
    <2> QED
        BY <2>1, <2>2, <2>3
<1> QED
    BY <1>5, <1>6 DEF Distinct

LEMMA DistinctNext ==
    ASSUME Falling, Distinct, NextRoot \/ FollowEdge \/ Finish
    PROVE  Distinct'
<1> DEFINE F == [node : Nodes, edge : Nat \ {0}]
<1>1. Searched /\ stack \in Seq(F) /\ order \in Seq(Nodes)
    BY DEF Falling, Searched
<1>2. CASE NextRoot
    <2> DEFINE root == graph.nodes[cursor]
    <2>1. root \in Nodes /\ stack = <<>> /\ order' = order
        BY <1>2, GraphTypes DEF Falling, NextRoot, Visiting
    <2>2. CASE root \in visited
        BY <1>2, <2>1, <2>2 DEF NextRoot, Distinct
    <2>3. CASE root \notin visited
        <3>1. stack' = Append(<<>>, Frame(root, 1))
            BY <1>2, <2>3 DEF NextRoot
        <3>2. <<>> \in Seq(F) /\ Len(<<>>) = Len(stack) /\ \A i \in 1..Len(stack) : <<>>[i].node = stack[i].node
            BY <2>1
        <3> QED
            BY <2>1, <2>3, <3>1, <3>2, MetOnce
    <2> QED
        BY <2>2, <2>3
<1>3. CASE FollowEdge
    <2> DEFINE destination == EdgesOfTop[Last(stack).edge]
               advanced == [stack EXCEPT ![Len(stack)].edge = @ + 1]
    <2>1. stack # <<>> /\ order' = order
        BY <1>3 DEF FollowEdge
    <2>2. /\ Len(stack) \in 1..Len(stack) /\ stack[Len(stack)] \in F
          /\ Last(stack).node \in Nodes /\ Last(stack).edge \in Nat \ {0}
        BY <1>1, <2>1, TopFrame
    <2>3. destination \in Nodes
        <3>1. EdgesOfTop \in Seq(Nodes) /\ Last(stack).edge <= Len(EdgesOfTop)
            BY <1>3, <2>2, GraphTypes DEF FollowEdge, EdgesOfTop, Falling
        <3> QED
            BY <2>2, <3>1
    <2>4. /\ advanced \in Seq(F) /\ Len(advanced) = Len(stack)
          /\ \A i \in 1..Len(stack) : advanced[i].node = stack[i].node
        BY <1>1, <2>2
    <2>5. CASE destination \in visited
        <3>1. stack' = advanced
            BY <1>3, <2>5 DEF FollowEdge
        <3> HIDE DEF advanced
        <3> QED
            BY <2>1, <2>4, <3>1 DEF Distinct
    <2>6. CASE destination \notin visited
        <3>1. stack' = Append(advanced, Frame(destination, 1))
            BY <1>3, <2>6 DEF FollowEdge
        <3> HIDE DEF advanced, destination
        <3> QED
            BY <2>1, <2>3, <2>4, <2>6, <3>1, MetOnce
    <2> QED
        BY <2>5, <2>6
<1>4. CASE Finish
    <2> DEFINE node == Last(stack).node
               top == Len(stack)
    <2>1. /\ top \in Nat /\ top >= 1 /\ node = stack[top].node /\ node \in Nodes
          /\ Len(stack') = top - 1 /\ \A i \in 1..top - 1 : stack'[i] = stack[i]
        BY <1>1, <1>4, TopFrame DEF Finish
    <2>2. order' = Append(order, node)
        BY <1>4 DEF Finish
    <2>3. top \in 1..top /\ \A i \in 1..top - 1 : i \in 1..top /\ i # top
        BY <2>1
    <2>4. node \notin Range(order) /\ \A i \in 1..top - 1 : stack[i].node # node
        BY <2>1, <2>3 DEF Distinct
    <2> HIDE DEF node
    <2>5. IsInjective(order') /\ Range(order') = Range(order) \cup {node}
        BY <1>1, <2>1, <2>2, <2>4, OneMore DEF Distinct
    <2> QED
        BY <2>1, <2>3, <2>4, <2>5 DEF Distinct
<1> QED
    BY <1>2, <1>3, <1>4

(* The second search: a number more at most for a node of the order.         *)
LEMMA FewNext ==
    ASSUME Falling, Distinct, Few, NextComponent \/ (\E node \in pending : Spread(node))
    PROVE  Few'
<1>1. /\ stage = "assign" /\ stage' = "assign" /\ graph' = graph /\ Nodes' = Nodes
      /\ order' = order
    BY DEF NextComponent, Spread, Nodes, firstSearch
<1>2. /\ Len(order) \in Nat /\ cursor \in Nat /\ cursor <= Len(order)
      /\ Len(graph.nodes) \in Nat
    BY <1>1, GraphTypes DEF Falling, Searched, Assigning
<1>3. /\ component \in [Nodes -> 0..Len(graph.nodes)]
      /\ \A m \in Nodes : component[m] + cursor <= Len(order)
    BY <1>1 DEF Few
<1>4. \A m \in Nodes : component[m] \in Nat
    BY <1>2, <1>3
<1>5. CASE NextComponent
    <2> DEFINE start == order[cursor]
    <2>1. cursor \in 1..Len(order) /\ start \in Nodes /\ cursor' = cursor - 1
        BY <1>1, <1>5 DEF Falling, NextComponent, Assigning, Searched
    <2> HIDE DEF start
    <2>2. CASE component[start] # 0
        <3>1. component' = component
            BY <1>5, <2>2 DEF NextComponent, start, secondSearch
        <3> QED
            BY <1>1, <1>2, <1>3, <1>4, <2>1, <3>1 DEF Few
    <2>3. CASE component[start] = 0
        <3>1. component' = [component EXCEPT ![start] = Count + 1]
            BY <1>5, <2>3 DEF NextComponent, start
        <3>2. Count \in Nat /\ Count + cursor <= Len(order)
            <4>1. {0} \cup Range(component) \subseteq 0..Len(graph.nodes)
                BY <1>2, <1>3 DEF Range
            <4>2. Count \in {0} \cup Range(component)
                BY <1>2, <4>1, LargestExists DEF Count
            <4>3. \A k \in Range(component) : k \in Nat /\ k + cursor <= Len(order)
                BY <1>3, <1>4 DEF Range
            <4> QED
                BY <1>2, <4>2, <4>3
        <3>3. Len(order) <= Len(graph.nodes)
            BY NoMoreThanAll DEF Falling, Searched, Distinct
        <3> QED
            BY <1>1, <1>2, <1>3, <1>4, <2>1, <3>1, <3>2, <3>3 DEF Few
    <2> QED
        BY <2>2, <2>3
<1>6. ASSUME NEW node \in pending, Spread(node)
      PROVE  Few'
    <2> DEFINE fresh == FreshPredecessors(node)
    <2>1. node \in Nodes /\ cursor' = cursor
        BY <1>6 DEF Falling, Numbered, Spread
    <2> HIDE DEF fresh
    <2>2. component' = [m \in Nodes |-> IF m \in fresh THEN component[node] ELSE component[m]]
        BY <1>6 DEF Spread, fresh
    <2> QED
        BY <1>1, <1>3, <2>1, <2>2 DEF Few
<1> QED
    BY <1>5, <1>6

(* The rest counts links, and puts every component in order once.            *)
LEMMA CountsNext ==
    ASSUME Falling, Falling', Typed, UNCHANGED <<graph, component>>,
           \/ Condense \/ Seed \/ BeginSort \/ (\E d \in 1..Count : PassLink(d)) \/ NextSorted
           \/ BeginRanks \/ Raise \/ Return
    PROVE  Counts'
<1>1. /\ Count' = Count /\ Links' = Links /\ Nodes' = Nodes
      /\ Bounded(rank, 1..Count)' = \E n \in Nat : rank' \in [1..Count -> 0..n]
    BY SameComponents DEF Bounded
<1>2. Counts
    BY DEF Typed
<1>3. Range(queue') \subseteq 1..Count /\ IsInjective(queue')
    <2>1. CASE queue' = queue
        BY <1>2, <2>1 DEF Counts
    <2>2. CASE stage' \in {"seed", "sort"}
        <3>1. queue' \in Seq(1..Count) /\ IsInjective(queue')
            BY <1>1, <2>2 DEF Falling, Sorted, InOrder
        <3> DEFINE components == 1..Count
        <3>2. queue' \in Seq(components)
            BY <3>1
        <3> HIDE DEF components
        <3>3. DOMAIN queue' = 1..Len(queue')
            BY <3>2
        <3>4. \A i \in 1..Len(queue') : queue'[i] \in components
            BY <3>2, ElementOfSeq
        <3>5. Range(queue') \subseteq components
            BY <3>3, <3>4 DEF Range
        <3> QED
            BY <3>1, <3>5 DEF components
    <2>3. Seed \/ (\E d \in 1..Count : PassLink(d)) => stage' \in {"seed", "sort"}
        BY DEF Seed, PassLink
    <2>4. \/ Seed \/ (\E d \in 1..Count : PassLink(d))
          \/ queue' = queue
        BY DEF Condense, BeginSort, NextSorted, BeginRanks, Raise, Return, sorting
    <2> QED
        BY <2>1, <2>2, <2>3, <2>4
<1>4. DOMAIN indegree' \subseteq 1..Count /\ Range(indegree') \subseteq Nat
    <2>1. CASE indegree' = indegree
        BY <1>2, <2>1 DEF Counts
    <2>2. CASE Condense
        <3>1. IsFiniteSet(Links)
            <4>1. \A m \in Nodes : component[m] # 0
                <5>1. \A i \in 1..Len(order) : component[order[i]] # 0
                    BY <2>2 DEF Falling, Assigning, Condense
                <5>2. DOMAIN order = 1..Len(order)
                    BY DEF Falling, Searched
                <5> QED
                    BY <2>2, <5>1, <5>2 DEF Falling, Assigning, Condense, Range
            <4> QED
                BY <4>1, LinksAreBetween DEF Falling, Numbered
        <3>2. \A c : Cardinality({link \in Links : link[2] = c}) \in Nat
            <4> TAKE c
            <4>1. {link \in Links : link[2] = c} \in SUBSET Links
                OBVIOUS
            <4>2. IsFiniteSet({link \in Links : link[2] = c})
                BY <3>1, <4>1, FS_Subset
            <4> QED
                BY <4>2, FS_CardinalityType
        <3>3. indegree' = [c \in 1..Count |-> Cardinality({link \in Links : link[2] = c})]
            BY <2>2 DEF Condense
        <3> QED
            BY <3>2, <3>3 DEF Range
    <2>3. ASSUME NEW d \in 1..Count, PassLink(d)
          PROVE  DOMAIN indegree' \subseteq 1..Count /\ Range(indegree') \subseteq Nat
        <3>1. stage = "sort" /\ stage' = "sort"
            BY <2>3 DEF PassLink
        <3>2. IsFiniteSet(Links)
            BY <3>1, LinksAreBetween DEF Falling, Numbered, Condensed
        <3>3. \A c : Cardinality(Left(c)') \in Nat
            <4> TAKE c
            <4>1. Left(c)' \in SUBSET Links
                BY <1>1 DEF Left
            <4>2. IsFiniteSet(Left(c)')
                BY <3>2, <4>1, FS_Subset
            <4> QED
                BY <4>2, FS_CardinalityType
        <3>4. indegree' = [c \in 1..Count |-> Cardinality(Left(c)')]
            BY <1>1, <3>1 DEF Falling, Queued
        <3> QED
            BY <3>3, <3>4 DEF Range
    <2>4. \/ Condense \/ (\E d \in 1..Count : PassLink(d))
          \/ indegree' = indegree
        BY DEF Seed, BeginSort, NextSorted, BeginRanks, Raise, Return, sorting
    <2> QED
        BY <2>1, <2>2, <2>3, <2>4
<1>5. passed' \subseteq 1..Count
    <2>1. ASSUME NEW d \in 1..Count, PassLink(d)
          PROVE  passed' = passed \cup {d}
        BY <2>1 DEF PassLink
    <2>2. \/ \E d \in 1..Count : PassLink(d)
          \/ passed' = passed
          \/ passed' = {}
        BY DEF Condense, Seed, BeginSort, NextSorted, BeginRanks, Raise, Return, sorting
    <2> QED
        BY <1>2, <2>1, <2>2 DEF Counts
<1>6. DOMAIN rank' \subseteq 1..Count /\ Range(rank') \subseteq Nat
    <2>1. CASE rank' = rank
        BY <1>2, <2>1 DEF Counts
    <2>2. CASE BeginRanks
        <3>1. rank' = [c \in 1..Count |-> 0]
            BY <2>2 DEF BeginRanks
        <3> QED
            BY <3>1 DEF Range
    <2>3. CASE Raise
        <3>1. stage' = "rank"
            BY <2>3 DEF Raise
        <3>2. PICK n \in Nat : rank' \in [1..Count -> 0..n]
            BY <1>1, <3>1 DEF Falling, Ranked
        <3>3. \A c \in 1..Count : rank'[c] \in Nat
            <4>1. \A c \in 1..Count : rank'[c] \in 0..n
                BY <3>2
            <4>2. 0..n \subseteq Nat
                OBVIOUS
            <4> QED
                BY <4>1, <4>2
        <3> QED
            BY <3>2, <3>3 DEF Range
    <2>4. BeginRanks \/ Raise \/ rank' = rank
        BY DEF Condense, Seed, BeginSort, PassLink, NextSorted, Return
    <2> QED
        BY <2>1, <2>2, <2>3, <2>4
<1> QED
    BY <1>1, <1>3, <1>4, <1>5, <1>6 DEF Counts

LEMMA TypedNext ==
    ASSUME Falling, Falling', Typed, [Next]_vars
    PROVE  Typed'
<1>1. Len(graph.nodes) \in Nat
    BY GraphTypes DEF Falling
<1>2. CASE NextRoot \/ FollowEdge \/ Finish
    <2>1. /\ stage' = stage /\ stage = "visit" /\ Nodes' = Nodes /\ graph' = graph
          /\ component' = component /\ indegree' = indegree /\ queue' = queue
          /\ passed' = passed /\ rank' = rank
        BY <1>2 DEF NextRoot, FollowEdge, Finish, Untouched, secondSearch, sorting, Nodes
    <2>2. Count' = Count
        BY <2>1 DEF Count
    <2>3. Distinct'
        BY <1>2, DistinctNext DEF Typed
    <2>4. Few' /\ NotYet' /\ Counts'
        BY <2>1, <2>2 DEF Typed, Few, NotYet, Counts
    <2> QED
        BY <2>1, <2>3, <2>4 DEF Typed
<1>3. CASE BeginComponents
    <2>1. /\ stage = "visit" /\ stage' = "assign" /\ Nodes' = Nodes /\ graph' = graph
          /\ component' = component /\ indegree' = indegree /\ queue' = queue
          /\ passed' = passed /\ rank' = rank /\ stack' = stack /\ order' = order
          /\ cursor' = Len(order)
        BY <1>3 DEF BeginComponents, Untouched, firstSearch, secondSearch, sorting, Nodes
    <2>2. Count' = Count
        BY <2>1 DEF Count
    <2>3. Distinct'
        BY <2>1 DEF Typed, Distinct
    <2>4. Len(order) \in Nat
        BY DEF Falling, Searched
    <2>5. Few'
        BY <2>1, <2>4 DEF Typed, Few
    <2>6. NotYet' /\ Counts'
        BY <2>1, <2>2 DEF Typed, NotYet, Counts
    <2> QED
        BY <2>1, <2>3, <2>5, <2>6 DEF Typed
<1>4. CASE NextComponent \/ \E node \in pending : Spread(node)
    <2>1. /\ stage = "assign" /\ stage' = "assign" /\ stack' = stack /\ order' = order
          /\ indegree' = indegree /\ queue' = queue /\ passed' = passed /\ rank' = rank
        BY <1>4 DEF NextComponent, Spread, firstSearch, sorting
    <2>2. Distinct'
        BY <2>1 DEF Typed, Distinct
    <2>3. Few'
        BY <1>4, FewNext DEF Typed
    <2>4. indegree' = <<>> /\ rank' = <<>> /\ queue' = <<>> /\ passed' = {}
        BY <2>1 DEF Typed, NotYet, Falling, Assigning
    <2>5. NotYet' /\ Counts'
        BY <2>4 DEF NotYet, Counts, Range, IsInjective
    <2> QED
        BY <2>1, <2>2, <2>3, <2>5 DEF Typed
<1>5. CASE \/ Condense \/ Seed \/ BeginSort \/ (\E d \in 1..Count : PassLink(d)) \/ NextSorted
           \/ BeginRanks \/ Raise \/ Return
    <2>1. /\ stage' \in {"seed", "sort", "rank", "done", "refused"}
          /\ graph' = graph /\ component' = component /\ stack' = stack /\ order' = order
        BY <1>5 DEF Condense, Seed, BeginSort, PassLink, NextSorted, BeginRanks, Raise, Return,
                    firstSearch, secondSearch
    <2>2. Distinct'
        BY <2>1 DEF Typed, Distinct
    <2>3. Few' /\ NotYet'
        BY <2>1 DEF Typed, Few, NotYet, Nodes
    <2>4. Counts'
        BY <1>5, <2>1, CountsNext
    <2> QED
        BY <2>1, <2>2, <2>3, <2>4 DEF Typed, Final
<1>6. CASE Exhaust \/ UNCHANGED vars
    <2>1. /\ stage' \in {stage, "exhausted"}
          /\ graph' = graph /\ component' = component /\ stack' = stack /\ order' = order
          /\ cursor' = cursor /\ indegree' = indegree /\ queue' = queue /\ passed' = passed
          /\ rank' = rank
        BY <1>6 DEF Exhaust, vars, firstSearch, secondSearch, sorting
    <2>2. Count' = Count /\ Nodes' = Nodes
        BY <2>1, SameComponents
    <2>3. Distinct'
        BY <2>1 DEF Typed, Distinct
    <2>4. Few' /\ NotYet' /\ Counts'
        BY <2>1, <2>2 DEF Typed, Few, NotYet, Counts
    <2> QED
        BY <2>1, <2>3, <2>4 DEF Typed, Final
<1> QED
    BY <1>2, <1>3, <1>4, <1>5, <1>6 DEF Next, Work

(* Every variable of the search for ranks keeps its type: no node is finished*)
(* twice, no component numbered beyond the number of nodes, none put in order*)
(* twice, and no count of links falls below zero.                            *)
THEOREM RanksAreTyped == Spec => []TypeOK
<1>1. Falling /\ Falling' /\ Typed /\ [Next]_vars => Typed'
    BY TypedNext
<1>2. Falling /\ Typed => TypeOK
    <2> SUFFICES ASSUME Falling, Typed PROVE TypeOK
        OBVIOUS
    <2>1. /\ graph \in Graphs /\ cursor \in Nat /\ pending \subseteq Nodes
          /\ stack \in Seq([node : Nodes, edge : Nat \ {0}]) /\ order \in Seq(Nodes)
          /\ visited = Range(order) \cup Frames
        BY DEF Falling, Searched, Numbered
    <2>2. Range(order) \subseteq Nodes
        <3>1. DOMAIN order = 1..Len(order) /\ \A i \in 1..Len(order) : order[i] \in Nodes
            BY <2>1
        <3> QED
            BY <3>1 DEF Range
    <2>3. Frames \subseteq Nodes
        <3>1. \A i \in 1..Len(stack) : stack[i] \in [node : Nodes, edge : Nat \ {0}]
            BY <2>1, ElementOfSeq
        <3> QED
            BY <3>1 DEF Frames
    <2> QED
        BY <2>1, <2>2, <2>3 DEF Typed, Distinct, Few, Counts, TypeOK
<1> QED
    BY <1>1, <1>2, TypedAtFirst, FallingHolds, PTL DEF Spec
-----------------------------------------------------------------------------
(* What can come after a node (Reached) is the least set that holds it and   *)
(* that no edge leaves.                                                      *)
LEMMA LeastExists ==
    ASSUME NEW numbers, numbers \subseteq Nat, numbers # {}
    PROVE  \E n \in numbers : \A k \in numbers : n <= k
<1>1. PICK n \in numbers : \A k \in numbers : <<k, n>> \notin OpToRel(<, Nat)
    BY WFMin, NatLessThanWellFounded, Zenon
<1>2. \A k \in numbers : ~(k < n)
    BY <1>1, Zenon DEF OpToRel
<1> QED
    BY <1>2

Leads(a, b) == b \in Range(graph.next[a])

LEMMA NextNodes ==
    ASSUME graph \in Graphs
    PROVE  /\ \A a \in Nodes : Range(graph.next[a]) \subseteq Nodes
           /\ \A a \in Nodes : Range(graph.next[a])
                                 = {graph.next[a][k] : k \in 1..Len(graph.next[a])}
           /\ \A e : e \in Edges <=> e \in Nodes \X Nodes /\ Leads(e[1], e[2])
<1>1. \A a \in Nodes : /\ graph.next[a] \in Seq(Nodes)
                       /\ DOMAIN graph.next[a] = 1..Len(graph.next[a])
    BY GraphTypes
<1>2. \A a \in Nodes : Range(graph.next[a]) = {graph.next[a][k] : k \in 1..Len(graph.next[a])}
    BY <1>1 DEF Range
<1>3. \A a \in Nodes : \A k \in 1..Len(graph.next[a]) : graph.next[a][k] \in Nodes
    BY <1>1, ElementOfSeq
<1>4. \A a \in Nodes : \A b : Contains(graph.next[a], b) <=> Leads(a, b)
    BY <1>2 DEF Contains, Leads
<1>5. ASSUME NEW e PROVE e \in Edges <=> e \in Nodes \X Nodes /\ Leads(e[1], e[2])
    <2>1. e \in Edges <=> e \in Nodes \X Nodes /\ Contains(graph.next[e[1]], e[2])
        BY DEF Edges
    <2>2. e \in Nodes \X Nodes => e[1] \in Nodes
        OBVIOUS
    <2> QED
        BY <1>4, <2>1, <2>2
<1>6. ASSUME NEW a \in Nodes, NEW b \in Range(graph.next[a]) PROVE b \in Nodes
    <2>1. PICK k \in 1..Len(graph.next[a]) : b = graph.next[a][k]
        BY <1>2
    <2> QED
        BY <1>3, <2>1
<1> QED
    BY <1>2, <1>5, <1>6

LEMMA OnwardGrows ==
    ASSUME graph \in Graphs, NEW S, S \subseteq Nodes
    PROVE  /\ S \subseteq Onward(S) /\ Onward(S) \subseteq Nodes
           /\ \A b : b \in Onward(S) <=> b \in S \/ \E a \in S : Leads(a, b)
<1>1. \A b : b \in Onward(S) <=> b \in S \/ \E a \in S : Leads(a, b)
    BY DEF Onward, Leads
<1> QED
    BY <1>1, NextNodes DEF Leads

(* The first so many sets on the way.                                        *)
Way(node, n) ==
    {g \in [0..n -> SUBSET Nodes] : g[0] = {node} /\ \A i \in 1..n : g[i] = Onward(g[i - 1])}

LEMMA WaysExist ==
    ASSUME graph \in Graphs, NEW node \in Nodes
    PROVE  \A n \in Nat : Way(node, n) # {}
<1> DEFINE none == {n \in Nat : Way(node, n) = {}}
<1> SUFFICES ASSUME none # {} PROVE FALSE
    OBVIOUS
<1>1. PICK n \in none : \A k \in none : n <= k
    BY LeastExists
<1>2. CASE n = 0
    <2> DEFINE g == [i \in 0..0 |-> {node}]
    <2>1. g \in [0..0 -> SUBSET Nodes] /\ g[0] = {node} /\ \A i \in 1..0 : FALSE
        OBVIOUS
    <2>2. g \in Way(node, 0)
        BY <2>1 DEF Way
    <2> QED
        BY <1>1, <1>2, <2>2
<1>3. CASE n # 0
    <2>1. n - 1 \in Nat /\ n - 1 \notin none /\ n \in Nat
        BY <1>1, <1>3
    <2>2. PICK g : g \in Way(node, n - 1)
        BY <2>1
    <2>3. /\ g \in [0..n - 1 -> SUBSET Nodes] /\ g[0] = {node}
          /\ \A i \in 1..n - 1 : g[i] = Onward(g[i - 1])
        BY <2>2 DEF Way
    <2> DEFINE h == [i \in 0..n |-> IF i = n THEN Onward(g[n - 1]) ELSE g[i]]
    <2>4. g[n - 1] \subseteq Nodes
        BY <2>1, <2>3
    <2>5. Onward(g[n - 1]) \subseteq Nodes
        BY <2>4, OnwardGrows
    <2>6. /\ h \in [0..n -> SUBSET Nodes] /\ h[n] = Onward(g[n - 1])
          /\ \A i \in 0..n - 1 : h[i] = g[i]
        BY <2>1, <2>3, <2>5
    <2> HIDE DEF h
    <2>7. h[0] = {node}
        BY <2>1, <2>3, <2>6
    <2>8. ASSUME NEW i \in 1..n PROVE h[i] = Onward(h[i - 1])
        <3>1. i - 1 \in 0..n - 1 /\ h[i - 1] = g[i - 1]
            BY <2>1, <2>6
        <3>2. CASE i = n
            BY <2>6, <3>1, <3>2
        <3>3. CASE i # n
            BY <2>1, <2>3, <2>6, <3>1, <3>3
        <3> QED
            BY <3>2, <3>3
    <2>9. h \in Way(node, n)
        BY <2>6, <2>7, <2>8 DEF Way
    <2> QED
        BY <1>1, <2>9
<1> QED
    BY <1>2, <1>3

LEMMA WaysAgree ==
    ASSUME NEW node, NEW m \in Nat, NEW n \in Nat, m <= n,
           NEW g \in Way(node, m), NEW h \in Way(node, n)
    PROVE  \A i \in 0..m : g[i] = h[i]
<1> DEFINE bad == {i \in 0..m : g[i] # h[i]}
<1> SUFFICES ASSUME bad # {} PROVE FALSE
    OBVIOUS
<1>1. PICK i \in bad : \A k \in bad : i <= k
    <2>1. bad \subseteq Nat
        OBVIOUS
    <2> QED
        BY <2>1, LeastExists
<1>2. g[0] = h[0]
    BY DEF Way
<1>3. i # 0 /\ i \in 1..m /\ i \in 1..n /\ i - 1 \in 0..m /\ i - 1 \notin bad
    BY <1>1, <1>2
<1>4. g[i] = Onward(g[i - 1]) /\ h[i] = Onward(h[i - 1])
    BY <1>3 DEF Way
<1> QED
    BY <1>1, <1>3, <1>4

LEMMA ReachedInSteps ==
    ASSUME graph \in Graphs, NEW node \in Nodes
    PROVE  \E f : /\ f \in [Nat -> SUBSET Nodes] /\ f[0] = {node}
                  /\ \A n \in Nat : f[n + 1] = Onward(f[n])
                  /\ Reached(node) = f[Len(graph.nodes)]
<1> DEFINE way(n) == CHOOSE g : g \in Way(node, n)
           f == [n \in Nat |-> way(n)[n]]
           fixed == CHOOSE r : r = [n \in Nat |-> IF n = 0 THEN {node} ELSE Onward(r[n - 1])]
<1>1. \A n \in Nat : way(n) \in Way(node, n)
    BY WaysExist
<1> HIDE DEF way
<1>2. f \in [Nat -> SUBSET Nodes] /\ f[0] = {node}
    BY <1>1 DEF Way
<1>3. ASSUME NEW n \in Nat PROVE f[n + 1] = Onward(f[n])
    <2>1. n + 1 \in Nat /\ n <= n + 1 /\ n \in 0..n /\ n + 1 \in 1..n + 1
        OBVIOUS
    <2>2. way(n) \in Way(node, n) /\ way(n + 1) \in Way(node, n + 1)
        BY <1>1, <2>1
    <2>3. way(n)[n] = way(n + 1)[n]
        BY <2>1, <2>2, WaysAgree
    <2>4. way(n + 1)[n + 1] = Onward(way(n + 1)[n + 1 - 1])
        BY <2>1, <2>2 DEF Way
    <2>5. n + 1 - 1 = n
        OBVIOUS
    <2> QED
        BY <2>1, <2>3, <2>4, <2>5
<1>4. f = [n \in Nat |-> IF n = 0 THEN {node} ELSE Onward(f[n - 1])]
    <2>1. \A n \in Nat : f[n] = IF n = 0 THEN {node} ELSE Onward(f[n - 1])
        <3> SUFFICES ASSUME NEW n \in Nat, n # 0 PROVE f[n] = Onward(f[n - 1])
            BY <1>2
        <3>1. n - 1 \in Nat /\ n - 1 + 1 = n
            OBVIOUS
        <3> HIDE DEF f
        <3> QED
            BY <1>3, <3>1
    <2>2. f = [n \in Nat |-> f[n]]
        OBVIOUS
    <2> HIDE DEF f
    <2>3. [n \in Nat |-> f[n]] = [n \in Nat |-> IF n = 0 THEN {node} ELSE Onward(f[n - 1])]
        BY <2>1
    <2> QED
        BY <2>2, <2>3
<1> HIDE DEF f
<1>5. fixed = [n \in Nat |-> IF n = 0 THEN {node} ELSE Onward(fixed[n - 1])]
    BY <1>4, Zenon
<1>6. Reached(node) = fixed[Len(graph.nodes)]
    BY Zenon DEF Reached
<1> HIDE DEF fixed
<1>7. fixed[0] = {node} /\ \A n \in Nat : fixed[n + 1] = Onward(fixed[n])
    <2>1. \A n \in Nat : fixed[n] = IF n = 0 THEN {node} ELSE Onward(fixed[n - 1])
        BY <1>5, Zenon
    <2>2. \A n \in Nat : n + 1 \in Nat /\ n + 1 # 0 /\ n + 1 - 1 = n
        OBVIOUS
    <2>3. 0 \in Nat
        OBVIOUS
    <2>4. fixed[0] = {node}
        BY <2>1, <2>3, Zenon
    <2>5. \A n \in Nat : fixed[n + 1] = Onward(fixed[n])
        <3> TAKE n \in Nat
        <3>1. PICK k \in Nat : k = n + 1
            BY <2>2
        <3>2. fixed[k] = IF k = 0 THEN {node} ELSE Onward(fixed[k - 1])
            BY <2>1, Zenon
        <3>3. k # 0 /\ k - 1 = n
            BY <3>1
        <3> QED
            BY <3>1, <3>2, <3>3, Zenon
    <2> QED
        BY <2>4, <2>5
<1>8. fixed \in [Nat -> SUBSET Nodes]
    <2>1. DOMAIN fixed = Nat /\ fixed = [n \in Nat |-> fixed[n]]
        BY <1>5, Zenon
    <2> DEFINE bad == {n \in Nat : ~(fixed[n] \subseteq Nodes)}
    <2>2. ASSUME bad # {} PROVE FALSE
        <3>1. PICK n \in bad : \A k \in bad : n <= k
            BY <2>2, LeastExists
        <3>2. n # 0 /\ n - 1 \in Nat /\ n - 1 \notin bad /\ n - 1 + 1 = n
            BY <1>7, <3>1
        <3>3. fixed[n - 1] \subseteq Nodes /\ fixed[n] = Onward(fixed[n - 1])
            BY <1>7, <3>2
        <3>4. fixed[n] \subseteq Nodes
            BY <3>3, OnwardGrows
        <3> QED
            BY <3>1, <3>4
    <2>3. \A n \in Nat : fixed[n] \in SUBSET Nodes
        BY <2>2
    <2> QED
        BY <2>1, <2>3
<1> QED
    BY <1>6, <1>7, <1>8

LEMMA Stable ==
    ASSUME NEW f, \A n \in Nat : f[n + 1] = Onward(f[n]), NEW m \in Nat, f[m + 1] = f[m]
    PROVE  \A n \in Nat : n >= m => f[n] = f[m]
<1> DEFINE bad == {n \in Nat : n >= m /\ f[n] # f[m]}
<1> SUFFICES ASSUME bad # {} PROVE FALSE
    OBVIOUS
<1>1. PICK n \in bad : \A k \in bad : n <= k
    BY LeastExists
<1>2. n - 1 \in Nat /\ n - 1 >= m /\ n - 1 \notin bad /\ n - 1 + 1 = n
    BY <1>1
<1>3. f[n - 1] = f[m] /\ f[n] = Onward(f[n - 1]) /\ f[m + 1] = Onward(f[m])
    BY <1>2
<1> QED
    BY <1>1, <1>3

LEMMA NodesAreFinite ==
    ASSUME graph \in Graphs
    PROVE  /\ IsFiniteSet(Nodes) /\ Cardinality(Nodes) \in Nat
           /\ Len(graph.nodes) \in Nat /\ Cardinality(Nodes) <= Len(graph.nodes)
<1> DEFINE n == Len(graph.nodes)
<1>1. n \in Nat /\ graph.nodes \in [1..n -> Nodes]
    <2>1. graph.nodes \in Seq(Nodes)
        BY GraphTypes
    <2> QED
        BY <2>1
<1>2. \A m \in Nodes : \E i \in 1..n : graph.nodes[i] = m
    BY GraphTypes
<1> HIDE DEF n
<1>3. graph.nodes \in Surjection(1..n, Nodes)
    BY <1>1, <1>2 DEF Surjection
<1>4. IsFiniteSet(1..n) /\ Cardinality(1..n) = n
    BY <1>1, FS_Interval
<1>5. IsFiniteSet(Nodes) /\ Cardinality(Nodes) <= n
    BY <1>3, <1>4, FS_Surjection
<1> QED
    BY <1>1, <1>5, FS_CardinalityType DEF n

LEMMA ReachedIsLeast ==
    ASSUME graph \in Graphs, NEW node \in Nodes
    PROVE  /\ node \in Reached(node) /\ Reached(node) \subseteq Nodes
           /\ \A a \in Reached(node) : \A b : Leads(a, b) => b \in Reached(node)
           /\ \A S \in SUBSET Nodes :
                node \in S /\ (\A a \in S : \A b : Leads(a, b) => b \in S) => Reached(node) \subseteq S
<1> DEFINE all == Len(graph.nodes)
<1>1. PICK f : /\ f \in [Nat -> SUBSET Nodes] /\ f[0] = {node}
               /\ \A n \in Nat : f[n + 1] = Onward(f[n])
               /\ Reached(node) = f[all]
    BY ReachedInSteps
<1>2. all \in Nat /\ IsFiniteSet(Nodes) /\ Cardinality(Nodes) \in Nat /\ Cardinality(Nodes) <= all
    BY NodesAreFinite
<1> HIDE DEF all
<1>3. \A n \in Nat : /\ n + 1 \in Nat /\ f[n] \subseteq Nodes /\ f[n] \subseteq f[n + 1]
                     /\ IsFiniteSet(f[n]) /\ Cardinality(f[n]) \in Nat
                     /\ Cardinality(f[n]) <= Cardinality(Nodes)
    <2> TAKE n \in Nat
    <2>1. f[n] \subseteq Nodes /\ n + 1 \in Nat
        BY <1>1
    <2>2. f[n] \subseteq f[n + 1]
        BY <1>1, <2>1, OnwardGrows
    <2>3. IsFiniteSet(f[n]) /\ Cardinality(f[n]) <= Cardinality(Nodes)
        BY <1>2, <2>1, FS_Subset
    <2> QED
        BY <2>1, <2>2, <2>3, FS_CardinalityType
<1>4. f[all + 1] = f[all]
    <2> DEFINE small == {n \in Nat : Cardinality(f[n]) <= n}
    <2>1. all \in small
        <3>1. Cardinality(f[all]) \in Nat /\ Cardinality(f[all]) <= Cardinality(Nodes)
            BY <1>2, <1>3
        <3> QED
            BY <1>2, <3>1
    <2>2. PICK n \in small : \A k \in small : n <= k
        BY <2>1, LeastExists
    <2>3. n # 0
        <3>1. Cardinality(f[0]) = 1
            BY <1>1, FS_Singleton
        <3> QED
            BY <2>2, <3>1
    <2>4. n - 1 \in Nat /\ n - 1 \notin small /\ n - 1 + 1 = n
        BY <2>2, <2>3
    <2>5. /\ f[n - 1] \subseteq f[n] /\ IsFiniteSet(f[n])
          /\ Cardinality(f[n]) \in Nat /\ Cardinality(f[n - 1]) \in Nat
        BY <1>3, <2>4
    <2>6. Cardinality(f[n - 1]) <= Cardinality(f[n])
        BY <2>5, FS_Subset
    <2>7. Cardinality(f[n - 1]) = Cardinality(f[n])
        BY <2>2, <2>4, <2>5, <2>6
    <2>8. f[n - 1] = f[n]
        BY <2>5, <2>7, FS_Subset
    <2>9. \A k \in Nat : k >= n - 1 => f[k] = f[n - 1]
        <3>1. f[n - 1 + 1] = f[n - 1] /\ n - 1 \in Nat
            BY <2>4, <2>8
        <3> QED
            BY <1>1, <3>1, Stable
    <2>10. all >= n - 1 /\ all + 1 >= n - 1 /\ all + 1 \in Nat
        BY <1>2, <2>1, <2>2
    <2> QED
        BY <1>2, <2>9, <2>10
<1>5. \A a \in f[all] : \A b : Leads(a, b) => b \in f[all]
    <2>1. f[all + 1] = Onward(f[all]) /\ f[all] \subseteq Nodes
        BY <1>1, <1>2, <1>3
    <2> QED
        BY <1>4, <2>1, OnwardGrows
<1>6. ASSUME NEW S \in SUBSET Nodes, node \in S, \A a \in S : \A b : Leads(a, b) => b \in S
      PROVE  f[all] \subseteq S
    <2> DEFINE bad == {n \in Nat : ~(f[n] \subseteq S)}
    <2> SUFFICES ASSUME bad # {} PROVE FALSE
        BY <1>2
    <2>1. PICK n \in bad : \A k \in bad : n <= k
        BY LeastExists
    <2>2. n # 0
        BY <1>1, <1>6, <2>1
    <2>3. n - 1 \in Nat /\ n - 1 \notin bad /\ n - 1 + 1 = n
        BY <2>1, <2>2
    <2>4. f[n] = Onward(f[n - 1]) /\ f[n - 1] \subseteq S /\ f[n - 1] \subseteq Nodes
        BY <1>1, <1>3, <2>3
    <2>5. f[n] \subseteq S
        BY <1>6, <2>4, OnwardGrows
    <2> QED
        BY <2>1, <2>5
<1>7. node \in f[all]
    <2> DEFINE bad == {n \in Nat : node \notin f[n]}
    <2> SUFFICES ASSUME bad # {} PROVE FALSE
        BY <1>2
    <2>1. PICK n \in bad : \A k \in bad : n <= k
        BY LeastExists
    <2>2. n # 0
        BY <1>1, <2>1
    <2>3. n - 1 \in Nat /\ n - 1 \notin bad /\ n - 1 + 1 = n
        BY <2>1, <2>2
    <2> QED
        BY <1>3, <2>1, <2>3
<1> QED
    BY <1>1, <1>2, <1>3, <1>5, <1>6, <1>7

LEMMA ReachesOn ==
    ASSUME graph \in Graphs, NEW a \in Nodes, NEW b \in Reached(a), NEW c \in Reached(b)
    PROVE  c \in Reached(a) /\ b \in Nodes
<1>1. b \in Nodes /\ Reached(a) \subseteq Nodes
    BY ReachedIsLeast
<1>2. \A x \in Reached(a) : \A y : Leads(x, y) => y \in Reached(a)
    BY ReachedIsLeast
<1>3. Reached(b) \subseteq Reached(a)
    BY <1>1, <1>2, ReachedIsLeast
<1> QED
    BY <1>1, <1>3

LEMMA ReachedIsKept ==
    ASSUME graph \in Graphs, graph' = graph
    PROVE  Nodes' = Nodes /\ \A node : Reached(node)' = Reached(node)
<1>1. Nodes' = Nodes
    BY DEF Nodes
<1>2. \A S : Onward(S)' = Onward(S)
    BY DEF Onward
<1>3. ASSUME NEW node PROVE Reached(node)' = Reached(node)
    BY <1>2 DEF Reached
<1> QED
    BY <1>1, <1>3
-----------------------------------------------------------------------------
(* The components are exact.  When the first search leaves a node, what it   *)
(* leads to has been met (Met); so a node that was left, and that can still  *)
(* reach one that was not, has one of its own component on the stack (Waits),*)
(* and if it reaches a node that was left later, then one of its own was left*)
(* later still, or waits (Postorder).  That is why the second search, from   *)
(* the end of the order, does not leave a component.                         *)
Mutual(a, b) == b \in Reached(a) /\ a \in Reached(b)

Met ==
    /\ \A m \in Range(order) : \A b : Leads(m, b) => b \in visited
    /\ \A i \in 1..Len(stack), a \in Nodes : stack[i].node = a =>
         \A k \in 1..Len(graph.next[a]) : k < stack[i].edge => graph.next[a][k] \in visited
    /\ \A i, j \in 1..Len(stack), a, b \in Nodes :
         i <= j /\ stack[i].node = a /\ stack[j].node = b => b \in Reached(a)
Waits ==
    \A m \in Range(order), u \in Nodes \ Range(order) :
      u \in Reached(m) => \E s \in Frames : Mutual(m, s)
Postorder ==
    \A i, j \in 1..Len(order), a, b \in Nodes :
      i <= j /\ order[i] = a /\ order[j] = b /\ b \in Reached(a) =>
        \/ \E k \in j..Len(order), c \in Nodes : order[k] = c /\ Mutual(a, c)
        \/ \E s \in Frames : Mutual(a, s)
FirstExact == stage \in {"visit", "assign"} => Met /\ Waits /\ Postorder

(* Every number but the last has been given to all of its component, and the *)
(* last to all that lead to it but from the nodes still pending.             *)
InOne == \A a, b \in Nodes : component[a] # 0 /\ component[a] = component[b] => Mutual(a, b)
Complete ==
    \A a, b \in Nodes : component[a] # 0 /\ component[a] # Count /\ Mutual(a, b) =>
      component[b] = component[a]
Backward ==
    \A a, b \in Nodes : component[b] = Count /\ b \notin pending /\ Leads(a, b) /\ Count # 0 =>
      component[a] # 0
FromRoot ==
    pending # {} =>
      /\ cursor < Len(order) /\ \A p \in pending : component[p] = Count
      /\ \A r \in Nodes : order[cursor + 1] = r => component[r] = Count
SecondExact ==
    stage = "assign" => stack = <<>> /\ InOne /\ Complete /\ Backward /\ FromRoot

Exact == \A a, b \in Nodes : component[a] = component[b] <=> Mutual(a, b)
Deep ==
    /\ FirstExact /\ SecondExact
    /\ stage \in {"seed", "sort", "rank", "done"} => Exact
    /\ stage = "refused" => Loops

LEMMA MutualIs ==
    ASSUME graph \in Graphs
    PROVE  /\ \A a \in Nodes : a \in Reached(a) /\ Mutual(a, a)
           /\ \A a, b \in Nodes : Mutual(a, b) => Mutual(b, a)
           /\ \A a, b, c \in Nodes : b \in Reached(a) /\ c \in Reached(b) => c \in Reached(a)
           /\ \A a, b, c \in Nodes : Mutual(a, b) /\ Mutual(b, c) => Mutual(a, c)
           /\ \A a, b \in Nodes : Leads(a, b) => b \in Reached(a)
           /\ \A a, b, c \in Nodes : b \in Reached(a) /\ Leads(b, c) => c \in Reached(a)
<1>1. \A a, b, c \in Nodes : b \in Reached(a) /\ c \in Reached(b) => c \in Reached(a)
    BY ReachesOn
<1>2. \A a \in Nodes : a \in Reached(a)
    BY ReachedIsLeast
<1>3. \A a, b, c \in Nodes : b \in Reached(a) /\ Leads(b, c) => c \in Reached(a)
    BY ReachedIsLeast
<1> QED
    BY <1>1, <1>2, <1>3 DEF Mutual

LEMMA MutualIsKept ==
    ASSUME graph \in Graphs, graph' = graph
    PROVE  /\ Nodes' = Nodes /\ \A node : Reached(node)' = Reached(node)
           /\ \A a, b : Mutual(a, b)' = Mutual(a, b)
           /\ \A a, b : Leads(a, b)' = Leads(a, b)
           /\ Edges' = Edges /\ Loops' = Loops
<1>1. Nodes' = Nodes /\ \A node : Reached(node)' = Reached(node)
    BY ReachedIsKept
<1>2. \A a, b : Mutual(a, b)' = Mutual(a, b)
    BY <1>1 DEF Mutual
<1>3. \A a, b : Leads(a, b)' = Leads(a, b)
    BY DEF Leads
<1>4. Edges' = Edges
    BY <1>1 DEF Edges
<1>5. Loops' = Loops
    <2>1. \A e \in Edges : Reached(e[2])' = Reached(e[2])
        BY <1>1
    <2> QED
        BY <1>4, <2>1 DEF Loops
<1> QED
    BY <1>1, <1>2, <1>3, <1>4, <1>5

LEMMA DeepAtFirst == Init => Deep
<1> SUFFICES ASSUME Init PROVE Deep
    OBVIOUS
<1>1. order = <<>> /\ stack = <<>> /\ stage = "visit"
    BY DEF Init
<1>2. Range(order) = {} /\ Len(order) = 0 /\ Len(stack) = 0
    BY <1>1 DEF Range
<1>3. Met /\ Waits /\ Postorder
    BY <1>2 DEF Met, Waits, Postorder
<1> QED
    BY <1>1, <1>3 DEF Deep, FirstExact, SecondExact

(* What the frames are.                                                      *)
LEMMA FramesAre ==
    ASSUME Searched
    PROVE  /\ Len(stack) \in Nat /\ Frames \subseteq Nodes
           /\ \A i \in 1..Len(stack) : /\ stack[i].node \in Nodes /\ stack[i].node \in Frames
                                       /\ stack[i].edge \in Nat \ {0}
           /\ \A a \in Frames : \E i \in 1..Len(stack) : stack[i].node = a
           /\ order \in Seq(Nodes) /\ Len(order) \in Nat /\ DOMAIN order = 1..Len(order)
           /\ Range(order) = {order[i] : i \in 1..Len(order)} /\ Range(order) \subseteq Nodes
<1>1. Len(stack) \in Nat /\ order \in Seq(Nodes)
    BY DEF Searched
<1>2. \A i \in 1..Len(stack) : stack[i] \in [node : Nodes, edge : Nat \ {0}]
    BY ElementOfSeq DEF Searched
<1>3. \A f \in [node : Nodes, edge : Nat \ {0}] : f.node \in Nodes /\ f.edge \in Nat \ {0}
    OBVIOUS
<1>4. \A i \in 1..Len(stack) : stack[i].node \in Nodes /\ stack[i].edge \in Nat \ {0}
    BY <1>2, <1>3
<1>5. DOMAIN order = 1..Len(order) /\ Len(order) \in Nat
    BY <1>1
<1>6. \A i \in 1..Len(order) : order[i] \in Nodes
    BY <1>1, ElementOfSeq
<1>7. Range(order) = {order[i] : i \in 1..Len(order)}
    BY <1>5 DEF Range
<1> QED
    BY <1>1, <1>4, <1>5, <1>6, <1>7 DEF Frames

(* A node more on the stack.                                                 *)
LEMMA MorePending ==
    ASSUME graph \in Graphs, graph' = graph, order' = order, Waits, Postorder, Frames \subseteq Frames'
    PROVE  Waits' /\ Postorder'
<1>1. Nodes' = Nodes /\ (\A node : Reached(node)' = Reached(node)) /\ \A a, b : Mutual(a, b)' = Mutual(a, b)
    BY MutualIsKept
<1>2. Waits'
    BY <1>1 DEF Waits
<1>3. Postorder'
    BY <1>1 DEF Postorder
<1> QED
    BY <1>2, <1>3

LEMMA RootIsExact ==
    ASSUME Falling, Falling', Met, Waits, Postorder, NextRoot
    PROVE  Met' /\ Waits' /\ Postorder'
<1>1. /\ stack = <<>> /\ order' = order /\ graph' = graph /\ graph \in Graphs
      /\ visited \subseteq visited' /\ Searched'
    BY DEF NextRoot, Untouched, Falling
<1>2. Nodes' = Nodes /\ (\A node : Reached(node)' = Reached(node)) /\ \A a, b : Leads(a, b)' = Leads(a, b)
    BY <1>1, MutualIsKept
<1>3. Frames = {}
    BY <1>1 DEF Frames
<1>4. Waits' /\ Postorder'
    BY <1>1, <1>3, MorePending
<1>5. stack' = <<>> \/ \E root \in Nodes : stack' = <<Frame(root, 1)>>
    <2>1. graph.nodes[cursor] \in Nodes
        BY GraphTypes DEF Falling, NextRoot, Visiting
    <2> QED
        BY <2>1 DEF NextRoot
<1>6. \A i \in 1..Len(stack') : i = 1 /\ stack'[i].edge = 1 /\ Len(stack') = 1
    <2>1. CASE stack' = <<>>
        BY <2>1
    <2>2. ASSUME NEW root \in Nodes, stack' = <<Frame(root, 1)>>
          PROVE  Len(stack') = 1 /\ stack'[1].edge = 1
        <3>1. Len(stack') = 1 /\ stack'[1] = Frame(root, 1)
            BY <2>2
        <3> QED
            BY <3>1 DEF Frame
    <2>3. CASE Len(stack') = 1 /\ stack'[1].edge = 1
        BY <2>3
    <2> QED
        BY <1>5, <2>1, <2>2, <2>3
<1>7. \A m \in Range(order') : \A b : Leads(m, b)' => b \in visited'
    BY <1>1, <1>2 DEF Met
<1>8. \A i \in 1..Len(stack'), a \in Nodes : stack'[i].node = a =>
        \A k \in 1..Len(graph.next[a]) : k < stack'[i].edge => graph.next[a][k] \in visited'
    BY <1>6
<1>9. \A i, j \in 1..Len(stack'), a, b \in Nodes :
        i <= j /\ stack'[i].node = a /\ stack'[j].node = b => b \in Reached(a)
    <2>1. \A i, j \in 1..Len(stack') : i = j
        BY <1>6
    <2> QED
        BY <1>1, <2>1, MutualIs
<1>10. Met'
    BY <1>1, <1>2, <1>7, <1>8, <1>9 DEF Met
<1> QED
    BY <1>4, <1>10

LEMMA EdgeIsExact ==
    ASSUME Falling, Falling', Met, Waits, Postorder, FollowEdge
    PROVE  Met' /\ Waits' /\ Postorder'
<1> DEFINE destination == EdgesOfTop[Last(stack).edge]
           advanced == [stack EXCEPT ![Len(stack)].edge = @ + 1]
           n == Len(stack)
           F == [node : Nodes, edge : Nat \ {0}]
<1>1. /\ stack # <<>> /\ order' = order /\ graph' = graph /\ graph \in Graphs
      /\ Searched /\ Searched' /\ visited' = visited \cup {destination}
    BY DEF FollowEdge, Untouched, Falling
<1>2. /\ Nodes' = Nodes /\ (\A node : Reached(node)' = Reached(node))
      /\ \A a, b : Leads(a, b)' = Leads(a, b)
    BY <1>1, MutualIsKept
<1>3. /\ n \in Nat /\ n >= 1 /\ n \in 1..n /\ Last(stack) = stack[n] /\ stack[n] \in F
      /\ stack \in Seq(F) /\ stack[n].node \in Nodes /\ stack[n].edge \in Nat \ {0}
    BY <1>1, TopFrame DEF Searched
<1>4. /\ EdgesOfTop = graph.next[stack[n].node] /\ EdgesOfTop \in Seq(Nodes)
      /\ stack[n].edge \in 1..Len(EdgesOfTop)
    <2>1. EdgesOfTop = graph.next[stack[n].node]
        BY <1>3 DEF EdgesOfTop
    <2>2. EdgesOfTop \in Seq(Nodes)
        BY <1>1, <1>3, <2>1, GraphTypes
    <2>3. stack[n].edge <= Len(EdgesOfTop)
        BY <1>3 DEF FollowEdge
    <2> QED
        BY <1>3, <2>1, <2>2, <2>3
<1>5. destination \in Nodes /\ Leads(stack[n].node, destination)
    <2>1. destination \in Nodes
        BY <1>3, <1>4, ElementOfSeq
    <2> QED
        BY <1>1, <1>3, <1>4, <2>1, NextNodes DEF Leads
<1>6. /\ advanced \in Seq(F) /\ Len(advanced) = n
      /\ \A i \in 1..n : advanced[i].node = stack[i].node
      /\ \A i \in 1..n : i # n => advanced[i].edge = stack[i].edge
      /\ advanced[n].edge = stack[n].edge + 1
    BY <1>3
<1>7. graph.next[stack[n].node][stack[n].edge] = destination
    BY <1>3, <1>4
<1>8. stack' = IF destination \in visited THEN advanced ELSE Append(advanced, Frame(destination, 1))
    BY DEF FollowEdge
<1> HIDE DEF destination, advanced
<1>9. /\ Len(stack') \in {n, n + 1}
      /\ \A i \in 1..n : /\ stack'[i].node = stack[i].node
                         /\ i # n => stack'[i].edge = stack[i].edge
      /\ stack'[n].edge = stack[n].edge + 1
      /\ Len(stack') = n + 1 => stack'[n + 1].node = destination /\ stack'[n + 1].edge = 1
    <2>1. CASE destination \in visited
        BY <1>3, <1>6, <1>8, <2>1
    <2>2. CASE destination \notin visited
        <3>1. Frame(destination, 1) \in F /\ Frame(destination, 1).node = destination /\ Frame(destination, 1).edge = 1
            BY <1>5 DEF Frame
        <3>2. /\ Len(stack') = n + 1 /\ stack'[n + 1] = Frame(destination, 1)
              /\ \A i \in 1..n : stack'[i] = advanced[i]
            BY <1>3, <1>6, <1>8, <2>2, <3>1, OneMore
        <3> QED
            BY <1>3, <1>6, <3>1, <3>2
    <2> QED
        BY <2>1, <2>2
<1> HIDE DEF n, F
<1>10. \A i \in 1..Len(stack') : i \in 1..n \/ (i = n + 1 /\ Len(stack') = n + 1)
    <2>1. n \in Nat /\ (Len(stack') = n \/ Len(stack') = n + 1)
        BY <1>3, <1>9
    <2>2. CASE Len(stack') = n
        BY <2>2
    <2>3. CASE Len(stack') = n + 1
        <3>1. \A i \in 1..n + 1 : i \in 1..n \/ i = n + 1
            BY <2>1
        <3> QED
            BY <2>3, <3>1
    <2> QED
        BY <2>1, <2>2, <2>3
<1>11. Frames \subseteq Frames'
    <2> SUFFICES ASSUME NEW a \in Frames PROVE a \in Frames'
        OBVIOUS
    <2>1. PICK i \in 1..n : stack[i].node = a
        BY DEF Frames, n
    <2>2. i \in 1..Len(stack') /\ stack'[i].node = a
        BY <1>3, <1>9, <2>1
    <2> QED
        BY <2>2 DEF Frames
<1>12. Waits' /\ Postorder'
    BY <1>1, <1>11, MorePending
<1>13. \A m \in Range(order') : \A b : Leads(m, b)' => b \in visited'
    BY <1>1, <1>2 DEF Met
<1>14. ASSUME NEW i \in 1..Len(stack'), NEW a \in Nodes, stack'[i].node = a,
              NEW k \in 1..Len(graph.next[a]), k < stack'[i].edge
       PROVE  graph.next[a][k] \in visited'
    <2>1. CASE i \in 1..n /\ i # n
        BY <1>1, <1>9, <1>14, <2>1 DEF Met, n
    <2>2. CASE i = n
        <3>1. a = stack[n].node /\ k < stack[n].edge + 1
            BY <1>3, <1>9, <1>14, <2>2
        <3>2. k \in Nat /\ stack[n].edge \in Nat
            BY <1>3
        <3>3. CASE k = stack[n].edge
            BY <1>1, <1>7, <3>1, <3>3
        <3>4. CASE k # stack[n].edge
            <4>1. k < stack[n].edge
                BY <3>1, <3>2, <3>4
            <4> QED
                BY <1>1, <1>3, <3>1, <4>1 DEF Met, n
        <3> QED
            BY <3>3, <3>4
    <2>3. CASE i = n + 1 /\ Len(stack') = n + 1
        BY <1>9, <1>14, <2>3
    <2> QED
        BY <1>10, <2>1, <2>2, <2>3
<1>15. ASSUME NEW i \in 1..Len(stack'), NEW j \in 1..Len(stack'), NEW a \in Nodes, NEW b \in Nodes,
              i <= j, stack'[i].node = a, stack'[j].node = b
       PROVE  b \in Reached(a)
    <2>1. CASE j \in 1..n
        <3>1. i \in 1..n
            BY <1>3, <1>15, <2>1
        <3> QED
            BY <1>9, <1>15, <2>1, <3>1 DEF Met, n
    <2>2. CASE j = n + 1 /\ Len(stack') = n + 1 /\ i \in 1..n
        <3>1. b = destination /\ a = stack[i].node /\ i <= n
            BY <1>3, <1>9, <1>15, <2>2
        <3>2. stack[n].node \in Reached(a)
            BY <1>3, <2>2, <3>1 DEF Met, n
        <3> QED
            BY <1>1, <1>3, <1>5, <3>1, <3>2, MutualIs
    <2>3. CASE i = n + 1 /\ j = n + 1
        BY <1>1, <1>15, <2>3, MutualIs
    <2> QED
        BY <1>10, <2>1, <2>2, <2>3
<1>16. Met'
    BY <1>1, <1>2, <1>13, <1>14, <1>15 DEF Met
<1> QED
    BY <1>12, <1>16

(* Leaving a node.                                                           *)
LEMMA LeavingIsExact ==
    ASSUME Falling, Falling', Distinct, Met, Waits, Postorder, Finish
    PROVE  Met' /\ Waits' /\ Postorder'
<1> DEFINE top == Len(stack)
           n == stack[top].node
<1>1. /\ stack # <<>> /\ graph' = graph /\ graph \in Graphs /\ visited' = visited
      /\ Searched /\ Searched' /\ order \in Seq(Nodes) /\ order' = Append(order, Last(stack).node)
    BY DEF Finish, Untouched, Falling, Searched
<1>2. /\ Nodes' = Nodes /\ (\A node : Reached(node)' = Reached(node))
      /\ (\A a, b : Mutual(a, b)' = Mutual(a, b)) /\ \A a, b : Leads(a, b)' = Leads(a, b)
    BY <1>1, MutualIsKept
<1>3. /\ top \in Nat /\ top >= 1 /\ top \in 1..top /\ n \in Nodes /\ Last(stack).node = n
      /\ Len(stack') = top - 1 /\ \A i \in 1..top - 1 : stack'[i] = stack[i]
      /\ Last(stack) = stack[top] /\ stack[top].edge \in Nat \ {0}
    BY <1>1, TopFrame DEF Finish
<1>4. \A i \in 1..top - 1 : i \in 1..top /\ i # top
    BY <1>3
<1>5. n \notin Range(order) /\ \A i \in 1..top - 1 : stack[i].node # n
    BY <1>3, <1>4 DEF Distinct
<1>6. \A k \in 1..Len(graph.next[n]) : graph.next[n][k] \in visited
    <2>1. stack[top].edge > Len(graph.next[n])
        BY <1>3 DEF Finish, EdgesOfTop
    <2>2. Len(graph.next[n]) \in Nat
        BY <1>1, <1>3, GraphTypes
    <2>3. \A k \in 1..Len(graph.next[n]) : k < stack[top].edge
        BY <1>3, <2>1, <2>2
    <2> QED
        BY <1>3, <2>3 DEF Met
<1> HIDE DEF top, n
<1>7. Frames = Frames' \cup {n} /\ n \notin Frames' /\ Frames \subseteq Nodes
    <2>1. \A i \in 1..top : i = top \/ i \in 1..top - 1
        BY <1>3
    <2>2. Frames = {stack[i].node : i \in 1..top} /\ Frames' = {stack'[i].node : i \in 1..top - 1}
        BY <1>3 DEF Frames, top
    <2>3. \A a \in Frames' : a \in Frames /\ a # n
        BY <1>3, <1>4, <1>5, <2>2
    <2>4. \A a \in Frames : a \in Frames' \/ a = n
        BY <1>3, <2>1, <2>2 DEF n
    <2>5. n \in Frames
        BY <1>3, <2>2 DEF n
    <2> QED
        BY <1>1, <2>3, <2>4, <2>5, FramesAre
<1>8. /\ order' = Append(order, n) /\ Len(order') = Len(order) + 1 /\ Len(order) \in Nat
      /\ \A i \in 1..Len(order) : order'[i] = order[i]
      /\ order'[Len(order) + 1] = n /\ Range(order') = Range(order) \cup {n}
    BY <1>1, <1>3, OneMore
<1>9. Range(order) \subseteq Nodes /\ visited = Range(order) \cup Frames
    BY <1>1, FramesAre DEF Searched
<1>10. ASSUME NEW b, Leads(n, b) PROVE b \in visited
    <2>1. Range(graph.next[n]) = {graph.next[n][k] : k \in 1..Len(graph.next[n])}
        BY <1>1, <1>3, NextNodes
    <2>2. PICK k \in 1..Len(graph.next[n]) : b = graph.next[n][k]
        BY <1>10, <2>1 DEF Leads
    <2> QED
        BY <1>6, <2>2
<1>11. ASSUME NEW u \in Nodes, u \notin Range(order'), u \in Reached(n)
       PROVE  \E s \in Frames' : Mutual(n, s)
    <2>1. CASE \E s \in Frames' : s \in Reached(n)
        <3>1. PICK s \in Frames' : s \in Reached(n)
            BY <2>1
        <3>2. PICK i \in 1..top - 1 : s = stack[i].node
            BY <1>3 DEF Frames
        <3>3. i <= top /\ i \in 1..top /\ s \in Nodes
            BY <1>3, <1>4, <1>7, <3>2
        <3>4. n \in Reached(s)
            BY <1>3, <3>2, <3>3 DEF Met, top, n
        <3> QED
            BY <3>1, <3>4 DEF Mutual
    <2>2. CASE \A s \in Frames' : s \notin Reached(n)
        <3> DEFINE left == {y \in Reached(n) : y \in Range(order) \cup {n}}
        <3>1. n \in left /\ left \in SUBSET Nodes
            BY <1>1, <1>3, <1>9, ReachedIsLeast
        <3>2. ASSUME NEW y \in left, NEW z, Leads(y, z) PROVE z \in left
            <4>1. z \in Reached(n)
                BY <1>1, <1>3, <3>2, ReachedIsLeast
            <4>2. z \in visited
                BY <1>10, <3>2 DEF Met
            <4> QED
                BY <1>7, <1>9, <2>2, <4>1, <4>2
        <3> HIDE DEF left
        <3>3. Reached(n) \subseteq left
            BY <1>1, <1>3, <3>1, <3>2, ReachedIsLeast
        <3> QED
            BY <1>8, <1>11, <3>3 DEF left
    <2> QED
        BY <2>1, <2>2
<1>12. Waits'
    <2> SUFFICES ASSUME NEW m \in Range(order'), NEW u \in Nodes, u \notin Range(order'), u \in Reached(m)
                 PROVE  \E s \in Frames' : Mutual(m, s)
        BY <1>2 DEF Waits
    <2>1. CASE m = n
        BY <1>11, <2>1
    <2>2. CASE m # n
        <3>1. m \in Range(order) /\ m \in Nodes
            BY <1>8, <1>9, <2>2
        <3>2. PICK s \in Frames : Mutual(m, s)
            BY <1>8, <3>1 DEF Waits
        <3>3. CASE s \in Frames'
            BY <3>2, <3>3
        <3>4. CASE s = n
            <4>1. u \in Reached(n)
                BY <1>1, <1>3, <3>1, <3>2, <3>4, MutualIs DEF Mutual
            <4>2. PICK t \in Frames' : Mutual(n, t)
                BY <1>11, <4>1
            <4> QED
                BY <1>1, <1>3, <1>7, <3>1, <3>2, <3>4, <4>2, MutualIs
        <3> QED
            BY <1>7, <3>3, <3>4
    <2> QED
        BY <2>1, <2>2
<1>13. Postorder'
    <2> SUFFICES ASSUME NEW i \in 1..Len(order'), NEW j \in 1..Len(order'), NEW a \in Nodes, NEW b \in Nodes,
                        i <= j, order'[i] = a, order'[j] = b, b \in Reached(a)
                 PROVE  \/ \E k \in j..Len(order'), c \in Nodes : order'[k] = c /\ Mutual(a, c)
                        \/ \E s \in Frames' : Mutual(a, s)
        BY <1>2 DEF Postorder
    <2>1. Len(order') \in j..Len(order') /\ order'[Len(order')] = n
        BY <1>8
    <2>2. CASE \E s \in Frames : Mutual(a, s)
        BY <1>3, <1>7, <2>1, <2>2
    <2>3. CASE j \in 1..Len(order)
        <3>1. i \in 1..Len(order) /\ order[i] = a /\ order[j] = b
            BY <1>8, <2>3
        <3>2. CASE \E k \in j..Len(order), c \in Nodes : order[k] = c /\ Mutual(a, c)
            <4>1. PICK k \in j..Len(order), c \in Nodes : order[k] = c /\ Mutual(a, c)
                BY <3>2
            <4>2. k \in j..Len(order') /\ order'[k] = c
                BY <1>8, <2>3, <4>1
            <4> QED
                BY <4>1, <4>2
        <3> QED
            BY <2>2, <2>3, <3>1, <3>2 DEF Postorder
    <2>4. CASE j = Len(order')
        <3>1. b = n
            BY <2>1, <2>4
        <3>2. CASE i = j
            <4>1. Mutual(a, n)
                BY <1>1, <3>1, <3>2, MutualIs
            <4> QED
                BY <1>3, <2>1, <4>1
        <3>3. CASE i # j
            <4>1. i \in 1..Len(order) /\ order[i] = a
                BY <1>8, <2>4, <3>3
            <4>2. a \in Range(order)
                BY <1>1, <4>1, FramesAre
            <4>3. \E s \in Frames : Mutual(a, s)
                BY <1>3, <1>5, <3>1, <4>2 DEF Waits
            <4> QED
                BY <2>2, <4>3
        <3> QED
            BY <3>2, <3>3
    <2> QED
        BY <1>8, <2>3, <2>4
<1>14. Met'
    <2>1. \A m \in Range(order') : \A b : Leads(m, b)' => b \in visited'
        BY <1>1, <1>2, <1>8, <1>10 DEF Met
    <2>2. \A i \in 1..Len(stack') : i \in 1..Len(stack) /\ stack'[i] = stack[i]
        BY <1>3, <1>4 DEF top
    <2>3. \A i \in 1..Len(stack'), a \in Nodes : stack'[i].node = a =>
            \A k \in 1..Len(graph.next[a]) : k < stack'[i].edge => graph.next[a][k] \in visited'
        BY <1>1, <2>2 DEF Met
    <2>4. \A i, j \in 1..Len(stack'), a, b \in Nodes :
            i <= j /\ stack'[i].node = a /\ stack'[j].node = b => b \in Reached(a)
        BY <2>2 DEF Met
    <2> QED
        BY <1>1, <1>2, <2>1, <2>3, <2>4 DEF Met
<1> QED
    BY <1>12, <1>13, <1>14

LEMMA FirstIsKept ==
    ASSUME graph \in Graphs, UNCHANGED <<graph, firstSearch>>, Met, Waits, Postorder
    PROVE  Met' /\ Waits' /\ Postorder'
<1>1. graph' = graph /\ stack' = stack /\ visited' = visited /\ order' = order
    BY DEF firstSearch
<1>2. /\ Nodes' = Nodes /\ (\A node : Reached(node)' = Reached(node))
      /\ \A a, b : Leads(a, b)' = Leads(a, b)
    BY <1>1, MutualIsKept
<1>3. Frames' = Frames
    BY <1>1 DEF Frames
<1>4. Waits' /\ Postorder'
    BY <1>1, <1>3, MorePending
<1>5. Met'
    BY <1>1, <1>2 DEF Met
<1> QED
    BY <1>4, <1>5

LEMMA FirstSearchIsExact ==
    ASSUME Falling, Falling', Distinct, Deep, NextRoot \/ FollowEdge \/ Finish
    PROVE  Deep'
<1>1. stage = "visit" /\ stage' = "visit"
    BY DEF NextRoot, FollowEdge, Finish
<1>2. Met /\ Waits /\ Postorder
    BY <1>1 DEF Deep, FirstExact
<1>3. Met' /\ Waits' /\ Postorder'
    BY <1>2, RootIsExact, EdgeIsExact, LeavingIsExact
<1> QED
    BY <1>1, <1>3 DEF Deep, FirstExact, SecondExact

LEMMA BetweenIsExact ==
    ASSUME Falling, Few, Deep, BeginComponents
    PROVE  Deep'
<1>1. /\ stage = "visit" /\ stage' = "assign" /\ UNCHANGED <<graph, firstSearch>> /\ stack = <<>>
      /\ stack' = <<>> /\ component' = component /\ pending' = pending /\ graph \in Graphs
    BY DEF BeginComponents, Untouched, firstSearch, secondSearch, Falling
<1>2. Met' /\ Waits' /\ Postorder'
    BY <1>1, FirstIsKept DEF Deep, FirstExact
<1>3. Nodes' = Nodes /\ \A m \in Nodes : component'[m] = 0
    BY <1>1 DEF Few, Nodes
<1>4. pending' = {}
    BY <1>1, <1>3 DEF Falling, Numbered
<1>5. InOne' /\ Complete' /\ Backward' /\ FromRoot'
    BY <1>3, <1>4 DEF InOne, Complete, Backward, FromRoot
<1> QED
    BY <1>1, <1>2, <1>5 DEF Deep, FirstExact, SecondExact

(* With nothing pending, the last number is complete as well: what is        *)
(* unnumbered, or of an earlier component, does not reach the last.          *)
LEMMA NowComplete ==
    ASSUME Falling, Deep, stage = "assign", pending = {}
    PROVE  \A a, b \in Nodes : component[a] # 0 /\ Mutual(a, b) => component[b] = component[a]
<1> SUFFICES ASSUME NEW a \in Nodes, NEW b \in Nodes, component[a] # 0, Mutual(a, b)
             PROVE  component[b] = component[a]
    OBVIOUS
<1>1. graph \in Graphs /\ InOne /\ Complete /\ Backward
    BY DEF Falling, Deep, SecondExact
<1>2. CASE component[a] # Count
    BY <1>1, <1>2 DEF Complete
<1>3. CASE component[a] = Count /\ component[b] # 0
    <2>1. CASE component[b] = Count
        BY <1>3, <2>1
    <2>2. CASE component[b] # Count
        BY <1>1, <1>3, <2>2, MutualIs DEF Complete
    <2> QED
        BY <2>1, <2>2
<1>4. CASE component[a] = Count /\ component[b] = 0
    <2> DEFINE apart == {y \in Reached(b) : component[y] = 0 \/ a \notin Reached(y)}
    <2>1. b \in apart /\ apart \in SUBSET Nodes
        BY <1>1, <1>4, ReachedIsLeast
    <2>2. ASSUME NEW y \in apart, NEW z, Leads(y, z) PROVE z \in apart
        <3>1. y \in Nodes /\ z \in Nodes /\ z \in Reached(y) /\ y \in Reached(b) /\ z \in Reached(b)
            <4>1. y \in Nodes /\ y \in Reached(b)
                BY <2>1, <2>2
            <4>2. z \in Nodes
                BY <1>1, <2>2, <4>1, NextNodes DEF Leads
            <4> QED
                BY <1>1, <2>2, <4>1, <4>2, MutualIs
        <3>2. ASSUME component[y] = 0, component[z] # 0, a \in Reached(z) PROVE FALSE
            <4>1. component[z] # Count
                BY <1>1, <1>4, <2>2, <3>1, <3>2 DEF Backward
            <4>2. z \in Reached(a)
                BY <1>1, <3>1, MutualIs DEF Mutual
            <4>3. Mutual(z, a)
                BY <3>2, <4>2 DEF Mutual
            <4> QED
                BY <1>1, <1>4, <3>1, <3>2, <4>1, <4>3 DEF Complete
        <3>3. CASE a \notin Reached(y)
            BY <1>1, <3>1, <3>3, MutualIs
        <3> QED
            BY <2>2, <3>1, <3>2, <3>3
    <2> HIDE DEF apart
    <2>3. Reached(b) \subseteq apart
        BY <1>1, <2>1, <2>2, ReachedIsLeast
    <2>4. a \in Reached(b) /\ a \in Reached(a)
        BY <1>1, MutualIs DEF Mutual
    <2> QED
        BY <2>3, <2>4 DEF apart
<1> QED
    BY <1>2, <1>3, <1>4

LEMMA LargestIs ==
    ASSUME NEW n \in Nat, NEW numbers, numbers \subseteq 0..n, n \in numbers
    PROVE  Max(numbers) = n
<1>1. Max(numbers) \in numbers /\ \A k \in numbers : k <= Max(numbers)
    BY LargestExists
<1>2. PICK m \in numbers : m = Max(numbers) /\ \A k \in numbers : k <= m
    BY <1>1
<1>3. m \in 0..n /\ n <= m
    BY <1>2
<1> QED
    BY <1>2, <1>3

LEMMA NumberIsExact ==
    ASSUME Falling, Deep, NextComponent
    PROVE  Deep'
<1> DEFINE start == order[cursor]
<1>1. /\ stage = "assign" /\ stage' = "assign" /\ UNCHANGED <<graph, firstSearch>> /\ graph' = graph
      /\ order' = order /\ stack' = stack /\ pending = {} /\ graph \in Graphs /\ cursor' = cursor - 1
    BY DEF NextComponent, firstSearch, Falling
<1>2. Met' /\ Waits' /\ Postorder' /\ stack' = <<>>
    BY <1>1, FirstIsKept DEF Deep, FirstExact, SecondExact
<1>3. /\ Nodes' = Nodes /\ (\A a, b : Mutual(a, b)' = Mutual(a, b))
      /\ \A a, b : Leads(a, b)' = Leads(a, b)
    BY <1>1, MutualIsKept
<1>4. cursor \in 1..Len(order) /\ Len(order) \in Nat /\ start \in Nodes
    BY DEF Falling, NextComponent, Assigning, Searched
<1> HIDE DEF start
<1>5. CASE component[start] # 0
    <2>1. component' = component /\ pending' = pending
        BY <1>5 DEF NextComponent, secondSearch, start
    <2>2. Count' = Count
        BY <2>1 DEF Count
    <2>3. InOne' /\ Complete' /\ Backward' /\ FromRoot'
        BY <1>1, <1>3, <2>1, <2>2 DEF Deep, SecondExact, InOne, Complete, Backward, FromRoot
    <2> QED
        BY <1>1, <1>2, <2>3 DEF Deep, FirstExact, SecondExact
<1>6. CASE component[start] = 0
    <2>1. component' = [component EXCEPT ![start] = Count + 1] /\ pending' = {start}
        BY <1>6 DEF NextComponent, start
    <2>2. PICK n \in Nat : component \in [Nodes -> 0..n]
        BY DEF Falling, Numbered, Bounded
    <2>3. Count \in Nat /\ \A m \in Nodes : component[m] \in 0..Count
        BY CountIsLargest DEF Falling, Numbered
    <2>4. /\ component' \in [Nodes -> 0..Count + 1] /\ component'[start] = Count + 1
          /\ \A m \in Nodes : m # start => component'[m] = component[m]
        BY <1>4, <2>1, <2>2, <2>3
    <2>5. Count' = Count + 1
        <3> DEFINE numbers == {0} \cup Range(component')
        <3>1. Range(component') = {component'[m] : m \in Nodes}
            BY <2>4 DEF Range
        <3>2. numbers \subseteq 0..Count + 1 /\ Count + 1 \in numbers
            BY <1>4, <2>3, <2>4, <3>1
        <3> HIDE DEF numbers
        <3>3. Count + 1 \in Nat
            BY <2>3
        <3>4. Max(numbers) = Count + 1
            BY <3>2, <3>3, LargestIs
        <3> QED
            BY <3>4 DEF Count, numbers
    <2>6. \A m \in Nodes : /\ component[m] \in Nat /\ component[m] # Count + 1
                           /\ component'[m] = Count + 1 <=> m = start
        BY <2>3, <2>4
    <2>7. InOne'
        <3> SUFFICES ASSUME NEW a \in Nodes, NEW b \in Nodes, component'[a] # 0, component'[a] = component'[b]
                     PROVE  Mutual(a, b)
            BY <1>3 DEF InOne
        <3>1. CASE a = start
            BY <1>1, <2>4, <2>6, <3>1, MutualIs
        <3>2. CASE a # start
            BY <1>1, <2>4, <2>6, <3>2 DEF Deep, SecondExact, InOne
        <3> QED
            BY <3>1, <3>2
    <2>8. Complete'
        <3> SUFFICES ASSUME NEW a \in Nodes, NEW b \in Nodes, component'[a] # 0, component'[a] # Count + 1,
                            Mutual(a, b)
                     PROVE  component'[b] = component'[a]
            BY <1>3, <2>5 DEF Complete
        <3>1. a # start /\ component'[a] = component[a]
            BY <2>4
        <3>2. component[b] = component[a]
            BY <1>1, <3>1, NowComplete
        <3>3. b # start
            BY <1>6, <3>1, <3>2
        <3> QED
            BY <2>4, <3>1, <3>2, <3>3
    <2>9. Backward'
        BY <1>3, <2>1, <2>5, <2>6 DEF Backward
    <2>10. FromRoot'
        <3>1. cursor' < Len(order') /\ cursor' + 1 = cursor
            BY <1>1, <1>4
        <3> QED
            BY <1>1, <1>3, <2>1, <2>4, <2>5, <3>1 DEF FromRoot, start
    <2> QED
        BY <1>1, <1>2, <2>7, <2>8, <2>9, <2>10 DEF Deep, FirstExact, SecondExact
<1> QED
    BY <1>5, <1>6

(* A node that leads to one of the last component is of it, if it is new:    *)
(* otherwise a node of its own component was left later, and numbered.       *)
LEMMA NewIsMutual ==
    ASSUME Falling, Deep, stage = "assign", NEW node \in pending, NEW x \in Nodes,
           component[x] = 0, Leads(x, node)
    PROVE  Mutual(x, node)
<1> DEFINE r == order[cursor + 1]
<1>1. /\ graph \in Graphs /\ InOne /\ Complete /\ FromRoot /\ Postorder /\ stack = <<>>
      /\ Searched /\ Numbered /\ cursor \in Nat
    BY DEF Falling, Deep, FirstExact, SecondExact
<1>2. node \in Nodes /\ component[node] = Count /\ component[node] # 0 /\ cursor < Len(order)
    BY <1>1 DEF Numbered, FromRoot
<1>3. /\ Len(order) \in Nat /\ Range(order) = {order[i] : i \in 1..Len(order)}
      /\ \A i \in 1..Len(order) : order[i] \in Nodes
    <2>1. /\ Len(order) \in Nat /\ Range(order) = {order[i] : i \in 1..Len(order)}
          /\ order \in Seq(Nodes)
        BY <1>1, FramesAre
    <2> QED
        BY <2>1, ElementOfSeq
<1>4. cursor + 1 \in 1..Len(order) /\ r \in Nodes /\ component[r] = Count
    <2>1. cursor + 1 \in 1..Len(order)
        BY <1>1, <1>2, <1>3
    <2> QED
        BY <1>1, <1>3, <2>1 DEF FromRoot
<1>5. PICK i \in 1..Len(order) : order[i] = x
    <2>1. x \in Range(order)
        BY DEF Falling, Assigning
    <2> QED
        BY <1>3, <2>1
<1>6. i <= cursor
    <2>1. ~(i > cursor)
        BY <1>5 DEF Falling, Assigning
    <2> QED
        BY <1>1, <2>1
<1> HIDE DEF r
<1>7. r \in Reached(x)
    <2>1. Mutual(node, r)
        BY <1>1, <1>2, <1>4 DEF InOne
    <2>2. node \in Reached(x)
        BY <1>1, <1>2, MutualIs
    <2> QED
        BY <1>1, <1>2, <1>4, <2>1, <2>2, MutualIs DEF Mutual
<1>8. PICK k \in cursor + 1..Len(order), c \in Nodes : order[k] = c /\ Mutual(x, c)
    <2>1. Frames = {}
        BY <1>1 DEF Frames
    <2>2. i <= cursor + 1 /\ order[cursor + 1] = r
        BY <1>1, <1>6 DEF r
    <2> QED
        BY <1>1, <1>4, <1>5, <1>7, <2>1, <2>2 DEF Postorder
<1>9. component[c] # 0
    <2>1. k \in 1..Len(order) /\ k > cursor
        BY <1>1, <1>3
    <2> QED
        BY <1>8, <2>1 DEF Falling, Assigning
<1>10. component[c] = Count
    BY <1>1, <1>8, <1>9, MutualIs DEF Complete
<1>11. Mutual(c, node)
    BY <1>1, <1>2, <1>9, <1>10 DEF InOne
<1> QED
    BY <1>1, <1>2, <1>8, <1>11, MutualIs

LEMMA SpreadIsExact ==
    ASSUME Falling, Deep, NEW node \in pending, Spread(node)
    PROVE  Deep'
<1> DEFINE fresh == FreshPredecessors(node)
<1>1. /\ stage = "assign" /\ stage' = "assign" /\ UNCHANGED <<graph, firstSearch>> /\ graph' = graph
      /\ order' = order /\ graph \in Graphs /\ cursor' = cursor
      /\ component' = [m \in Nodes |-> IF m \in fresh THEN component[node] ELSE component[m]]
      /\ pending' = (pending \ {node}) \cup fresh
    BY DEF Spread, firstSearch, Falling
<1>2. Met' /\ Waits' /\ Postorder' /\ stack' = <<>>
    BY <1>1, FirstIsKept DEF Deep, FirstExact, SecondExact, firstSearch
<1>3. /\ Nodes' = Nodes /\ (\A a, b : Mutual(a, b)' = Mutual(a, b))
      /\ \A a, b : Leads(a, b)' = Leads(a, b)
    BY <1>1, MutualIsKept
<1>4. /\ InOne /\ Complete /\ Backward /\ FromRoot
      /\ node \in Nodes /\ component[node] = Count /\ Count # 0 /\ cursor < Len(order)
    BY <1>1 DEF Deep, SecondExact, FromRoot, Falling, Numbered
<1>5. \A m : m \in fresh <=> m \in Nodes /\ component[m] = 0 /\ Leads(m, node)
    <2>1. \A m \in Nodes : Contains(graph.next[m], node) <=> Leads(m, node)
        BY <1>1, NextNodes DEF Contains, Leads
    <2> QED
        BY <2>1 DEF FreshPredecessors
<1> HIDE DEF fresh
<1>6. \A m \in Nodes : component'[m] = IF m \in fresh THEN Count ELSE component[m]
    BY <1>1, <1>4
<1>7. Count \in Nat /\ \A m \in Nodes : component[m] \in 0..Count
    BY CountIsLargest DEF Falling, Numbered
<1>8. Count' = Count
    <2> DEFINE numbers == {0} \cup Range(component')
    <2>1. Range(component') = {component'[m] : m \in Nodes}
        BY <1>1 DEF Range
    <2>2. component'[node] = Count
        BY <1>4, <1>6
    <2>3. \A m \in Nodes : component'[m] \in 0..Count
        BY <1>6, <1>7
    <2>4. numbers \subseteq 0..Count /\ Count \in numbers
        BY <1>4, <1>7, <2>1, <2>2, <2>3
    <2> HIDE DEF numbers
    <2>5. Max(numbers) = Count
        BY <1>7, <2>4, LargestIs
    <2> QED
        BY <2>5 DEF Count, numbers
<1>9. \A x \in fresh : x \in Nodes /\ Mutual(x, node) /\ Mutual(node, x)
    BY <1>1, <1>4, <1>5, NewIsMutual, MutualIs
<1>10. \A m \in Nodes : component'[m] = Count => Mutual(m, node) /\ Mutual(node, m)
    <2> SUFFICES ASSUME NEW m \in Nodes, component'[m] = Count PROVE Mutual(m, node) /\ Mutual(node, m)
        OBVIOUS
    <2>1. CASE m \in fresh
        BY <1>9, <2>1
    <2>2. CASE m \notin fresh
        BY <1>4, <1>6, <2>2 DEF InOne
    <2> QED
        BY <2>1, <2>2
<1>11. InOne'
    <2> SUFFICES ASSUME NEW a \in Nodes, NEW b \in Nodes, component'[a] # 0, component'[a] = component'[b]
                 PROVE  Mutual(a, b)
        BY <1>3 DEF InOne
    <2>1. CASE component'[a] = Count
        BY <1>1, <1>4, <1>10, <2>1, MutualIs
    <2>2. CASE component'[a] # Count
        BY <1>4, <1>6, <2>2 DEF InOne
    <2> QED
        BY <2>1, <2>2
<1>12. Complete'
    <2> SUFFICES ASSUME NEW a \in Nodes, NEW b \in Nodes, component'[a] # 0, component'[a] # Count,
                        Mutual(a, b)
                 PROVE  component'[b] = component'[a]
        BY <1>3, <1>8 DEF Complete
    <2>1. component'[a] = component[a]
        BY <1>6
    <2>2. component[b] = component[a]
        BY <1>4, <2>1 DEF Complete
    <2>3. b \notin fresh
        BY <1>5, <2>1, <2>2
    <2> QED
        BY <1>6, <2>1, <2>2, <2>3
<1>13. Backward'
    <2> SUFFICES ASSUME NEW a \in Nodes, NEW b \in Nodes, component'[b] = Count, b \notin pending', Leads(a, b)
                 PROVE  component'[a] # 0
        BY <1>3, <1>8 DEF Backward
    <2>1. b \notin fresh /\ component[b] = Count
        BY <1>1, <1>6
    <2>2. CASE b = node
        BY <1>4, <1>5, <1>6, <2>2
    <2>3. CASE b # node
        <3>1. component[a] # 0
            BY <1>1, <1>4, <2>1, <2>3 DEF Backward
        <3> QED
            BY <1>4, <1>6, <3>1
    <2> QED
        BY <2>2, <2>3
<1>14. FromRoot'
    <2>1. \A p \in pending' : component'[p] = Count
        <3> SUFFICES ASSUME NEW p \in pending' PROVE component'[p] = Count
            OBVIOUS
        <3>1. p \in Nodes
            BY <1>1, <1>5 DEF Falling, Numbered
        <3>2. p \in fresh \/ component[p] = Count
            BY <1>1, <1>4 DEF FromRoot
        <3> QED
            BY <1>6, <3>1, <3>2
    <2>2. \A r \in Nodes : order[cursor + 1] = r => component'[r] = Count
        BY <1>4, <1>6 DEF FromRoot
    <2> QED
        BY <1>1, <1>3, <1>4, <1>8, <2>1, <2>2 DEF FromRoot
<1> QED
    BY <1>1, <1>2, <1>11, <1>12, <1>13, <1>14 DEF Deep, FirstExact, SecondExact

LEMMA CondensesExactly ==
    ASSUME Falling, Falling', Deep, Condense
    PROVE  Deep'
<1>1. /\ stage = "assign" /\ stage' \in {"refused", "seed"} /\ graph' = graph /\ component' = component
      /\ pending = {} /\ cursor = 0 /\ graph \in Graphs
      /\ stage' = "refused" => StrictLoop
    BY DEF Condense, secondSearch, Falling
<1>2. /\ Nodes' = Nodes /\ (\A a, b : Mutual(a, b)' = Mutual(a, b))
      /\ Edges' = Edges /\ Loops' = Loops
    BY <1>1, MutualIsKept
<1>3. \A m \in Nodes : component[m] # 0
    <2>1. \A i \in 1..Len(order) : component[order[i]] # 0
        <3>1. Len(order) \in Nat
            BY DEF Falling, Searched
        <3> QED
            BY <1>1, <3>1 DEF Falling, Assigning
    <2>2. DOMAIN order = 1..Len(order)
        BY DEF Falling, Searched
    <2> QED
        BY <1>1, <2>1, <2>2 DEF Falling, Assigning, Range
<1>4. Exact
    BY <1>1, <1>3, NowComplete DEF Exact, Deep, SecondExact, InOne
<1>5. Exact'
    BY <1>1, <1>2, <1>4 DEF Exact
<1>6. StrictLoop => Loops
    <2> SUFFICES ASSUME NEW e \in Edges, graph.strict[e[1]], component[e[1]] = component[e[2]]
                 PROVE  Loops
        BY DEF StrictLoop
    <2>1. e[1] \in Nodes /\ e[2] \in Nodes
        BY DEF Edges
    <2>2. e[1] \in Reached(e[2])
        BY <1>4, <2>1 DEF Exact, Mutual
    <2> QED
        BY <2>2 DEF Loops
<1> QED
    BY <1>1, <1>2, <1>5, <1>6 DEF Deep, FirstExact, SecondExact

(* When the components are exact, none is left over by the sort: of those    *)
(* left over, each would have a link from another left over, and so a node   *)
(* that reaches more than any.                                               *)
LEMMA NoneLeftOver ==
    ASSUME Falling, Exact, stage = "sort", cursor > Len(queue)
    PROVE  Len(queue) = Count
<1>1. /\ Count \in Nat /\ \A m \in Nodes : component[m] \in 1..Count
      /\ queue \in Seq(1..Count) /\ IsInjective(queue) /\ Len(queue) \in Nat /\ cursor \in Nat
      /\ \A i \in 1..Len(queue) : queue[i] \in 1..Count
      /\ graph \in Graphs
      /\ \A link \in Links : link[1] \in 1..Count /\ link[2] \in 1..Count
    BY UnderWay DEF Falling
<1>2. /\ indegree = [c \in 1..Count |-> Cardinality(Left(c))]
      /\ Range(queue) = {c \in 1..Count : indegree[c] = 0}
    BY DEF Falling, Queued, Seeded
<1>3. Range(queue) = {queue[i] : i \in 1..Len(queue)}
    <2>1. DOMAIN queue = 1..Len(queue)
        BY <1>1
    <2> QED
        BY <2>1 DEF Range
<1> DEFINE rest == {m \in Nodes : component[m] \notin Range(queue)}
<1>4. ASSUME NEW x \in rest
      PROVE  \E y \in rest : x \in Reached(y) /\ y \notin Reached(x)
    <2> DEFINE c == component[x]
    <2>1. c \in 1..Count /\ indegree[c] # 0
        BY <1>1, <1>2
    <2>2. Left(c) # {}
        <3>1. \A m \in Nodes : component[m] # 0
            BY <1>1
        <3>2. Numbered
            BY DEF Falling
        <3> HIDE DEF c
        <3> QED
            BY <1>2, <2>1, <3>1, <3>2, Counted
    <2>3. PICK link \in Links : link[2] = c /\ ~Gone(link)
        BY <2>2 DEF Left
    <2>4. link[1] \notin Range(queue)
        <3> SUFFICES ASSUME link[1] \in Range(queue) PROVE FALSE
            OBVIOUS
        <3>1. PICK i \in 1..Len(queue) : queue[i] = link[1]
            BY <1>3
        <3>2. i < cursor
            BY <1>1, <3>1
        <3> QED
            BY <2>3, <3>1, <3>2 DEF Gone
    <2>5. PICK e \in Edges : link = LinkOf(e)
        BY <2>3 DEF Links
    <2>6. /\ e[1] \in Nodes /\ e[2] \in Nodes /\ Leads(e[1], e[2])
          /\ component[e[1]] = link[1] /\ component[e[2]] = c
        <3>1. e \in Nodes \X Nodes /\ Leads(e[1], e[2])
            BY <1>1, NextNodes
        <3> QED
            BY <2>3, <2>5, <3>1 DEF LinkOf
    <2>7. link[1] # link[2]
        <3>1. \A m \in Nodes : component[m] # 0
            BY <1>1
        <3> QED
            BY <3>1, LinksAreBetween DEF Falling, Numbered
    <2>8. Mutual(e[2], x)
        BY <2>6 DEF Exact
    <2>9. x \in Reached(e[1])
        BY <1>1, <2>6, <2>8, MutualIs DEF Mutual
    <2>10. e[1] \notin Reached(x)
        <3> SUFFICES ASSUME e[1] \in Reached(x) PROVE FALSE
            OBVIOUS
        <3>1. Mutual(e[1], x)
            BY <2>9 DEF Mutual
        <3>2. component[e[1]] = c
            BY <2>6, <3>1 DEF Exact
        <3> QED
            BY <2>3, <2>6, <2>7, <3>2
    <2> QED
        BY <2>4, <2>6, <2>9, <2>10
<1> HIDE DEF rest
<1>5. rest = {}
    <2> SUFFICES ASSUME rest # {} PROVE FALSE
        OBVIOUS
    <2> DEFINE n == Cardinality(Nodes)
               sizes == {Cardinality(Reached(x)) : x \in rest}
    <2>1. rest \subseteq Nodes
        BY DEF rest
    <2>2. IsFiniteSet(Nodes) /\ n \in Nat
        BY <1>1, NodesAreFinite
    <2>3. \A x \in Nodes : /\ Reached(x) \subseteq Nodes /\ IsFiniteSet(Reached(x))
                           /\ Cardinality(Reached(x)) \in Nat /\ Cardinality(Reached(x)) <= n
        <3> TAKE x \in Nodes
        <3>1. Reached(x) \subseteq Nodes
            BY <1>1, ReachedIsLeast
        <3>2. IsFiniteSet(Reached(x)) /\ Cardinality(Reached(x)) <= n
            BY <2>2, <3>1, FS_Subset
        <3> QED
            BY <3>1, <3>2, FS_CardinalityType
    <2> HIDE DEF n
    <2>4. sizes \subseteq 0..n /\ sizes # {}
        <3>1. \A x \in rest : Cardinality(Reached(x)) \in 0..n
            BY <2>1, <2>2, <2>3
        <3> QED
            BY <3>1
    <2>5. Max(sizes) \in sizes /\ \A k \in sizes : k <= Max(sizes)
        <3> HIDE DEF sizes
        <3> QED
            BY <2>2, <2>4, LargestExists
    <2>6. PICK x \in rest : Cardinality(Reached(x)) = Max(sizes)
        BY <2>5
    <2>7. PICK y \in rest : x \in Reached(y) /\ y \notin Reached(x)
        BY <1>4
    <2>8. x \in Nodes /\ y \in Nodes
        BY <2>1
    <2>9. Reached(x) \subseteq Reached(y) /\ Reached(x) # Reached(y)
        <3>1. \A z \in Reached(x) : z \in Reached(y)
            BY <1>1, <2>7, <2>8, ReachesOn
        <3>2. y \in Reached(y)
            BY <1>1, <2>8, MutualIs
        <3> QED
            BY <2>7, <3>1, <3>2
    <2>10. /\ Cardinality(Reached(x)) <= Cardinality(Reached(y))
           /\ Cardinality(Reached(x)) # Cardinality(Reached(y))
        BY <2>3, <2>8, <2>9, FS_Subset
    <2>11. Cardinality(Reached(y)) <= Cardinality(Reached(x))
        BY <2>5, <2>6
    <2> QED
        BY <2>3, <2>8, <2>10, <2>11
<1>6. \A c \in 1..Count : c \in Range(queue)
    <2> SUFFICES ASSUME NEW c \in 1..Count, c \notin Range(queue) PROVE FALSE
        OBVIOUS
    <2>1. Left(c) # {}
        <3>1. \A m \in Nodes : component[m] # 0
            BY <1>1
        <3>2. Numbered
            BY DEF Falling
        <3> QED
            BY <1>2, <3>1, <3>2, Counted
    <2>2. PICK link \in Links : link[2] = c
        BY <2>1 DEF Left
    <2>3. PICK e \in Edges : link = LinkOf(e)
        BY DEF Links
    <2>4. e[2] \in Nodes /\ component[e[2]] = c
        BY <2>2, <2>3 DEF LinkOf, Edges
    <2> QED
        BY <1>5, <2>4 DEF rest
<1> DEFINE k == Len(queue)
           n == Count
<1>7. queue \in [1..k -> 1..n] /\ k \in Nat /\ n \in Nat
    BY <1>1
<1> HIDE DEF k, n
<1>8. queue \in Injection(1..k, 1..n)
    BY <1>1, <1>7 DEF Injection, IsInjective
<1>9. queue \in Surjection(1..k, 1..n)
    BY <1>3, <1>6, <1>7 DEF Surjection, k, n
<1>10. /\ IsFiniteSet(1..n) /\ Cardinality(1..n) = n
       /\ IsFiniteSet(1..k) /\ Cardinality(1..k) = k
    <2>1. \A j \in Nat : IsFiniteSet(1..j) /\ Cardinality(1..j) = j
        <3> TAKE j \in Nat
        <3>1. IsFiniteSet(1..j) /\ Cardinality(1..j) = IF 1 > j THEN 0 ELSE j - 1 + 1
            BY FS_Interval
        <3> QED
            BY <3>1
    <2> QED
        BY <1>7, <2>1
<1>11. Cardinality(1..k) = Cardinality(1..n)
    BY <1>8, <1>9, <1>10, FS_Injection
<1> QED
    BY <1>10, <1>11 DEF k, n

LEMMA RestIsExact ==
    ASSUME Falling, Deep, UNCHANGED <<graph, component>>,
           stage \in {"seed", "sort", "rank"},
           stage' \in {"seed", "sort", "rank", "done"} \/ (stage' = "refused" /\ BeginRanks)
    PROVE  Deep'
<1>1. graph' = graph /\ component' = component /\ graph \in Graphs /\ Exact
    BY DEF Falling, Deep
<1>2. /\ Nodes' = Nodes /\ \A a, b : Mutual(a, b)' = Mutual(a, b)
    BY <1>1, MutualIsKept
<1>3. Exact'
    BY <1>1, <1>2 DEF Exact
<1>4. stage' # "refused"
    BY <1>1, NoneLeftOver DEF BeginRanks
<1> QED
    BY <1>3, <1>4 DEF Deep, FirstExact, SecondExact

LEMMA DeepNext ==
    ASSUME Falling, Falling', Typed, Deep, [Next]_vars
    PROVE  Deep'
<1>1. CASE NextRoot \/ FollowEdge \/ Finish
    BY <1>1, FirstSearchIsExact DEF Typed
<1>2. CASE BeginComponents
    BY <1>2, BetweenIsExact DEF Typed
<1>3. CASE NextComponent
    BY <1>3, NumberIsExact
<1>4. CASE \E node \in pending : Spread(node)
    BY <1>4, SpreadIsExact
<1>5. CASE Condense
    BY <1>5, CondensesExactly
<1>6. CASE \/ Seed \/ BeginSort \/ (\E d \in 1..Count : PassLink(d)) \/ NextSorted
           \/ BeginRanks \/ Raise \/ Return
    <2>1. /\ graph' = graph /\ component' = component /\ stage \in {"seed", "sort", "rank"}
          /\ stage' \in {"seed", "sort", "rank", "done"} \/ (stage' = "refused" /\ BeginRanks)
        BY <1>6 DEF Seed, BeginSort, PassLink, NextSorted, BeginRanks, Raise, Return, secondSearch
    <2> QED
        BY <2>1, RestIsExact
<1>7. CASE Exhaust
    BY <1>7 DEF Exhaust, Deep, FirstExact, SecondExact
<1>8. CASE UNCHANGED vars
    <2>1. /\ stage' = stage /\ UNCHANGED <<graph, firstSearch>> /\ graph' = graph /\ order' = order
          /\ stack' = stack /\ cursor' = cursor /\ component' = component /\ pending' = pending
          /\ graph \in Graphs
        BY <1>8 DEF vars, firstSearch, Falling
    <2>2. /\ Nodes' = Nodes /\ (\A a, b : Mutual(a, b)' = Mutual(a, b))
          /\ (\A a, b : Leads(a, b)' = Leads(a, b)) /\ Loops' = Loops
        BY <2>1, MutualIsKept
    <2>3. Count' = Count
        BY <2>1 DEF Count
    <2>4. FirstExact'
        BY <2>1, FirstIsKept DEF Deep, FirstExact
    <2>5. SecondExact'
        BY <2>1, <2>2, <2>3 DEF Deep, SecondExact, InOne, Complete, Backward, FromRoot
    <2>6. Exact' = Exact
        BY <2>1, <2>2 DEF Exact
    <2> QED
        BY <2>1, <2>2, <2>4, <2>5, <2>6 DEF Deep
<1> QED
    BY <1>1, <1>2, <1>3, <1>4, <1>5, <1>6, <1>7, <1>8 DEF Next, Work

LEMMA DeepHolds == Spec => []Deep
<1>1. Falling /\ Falling' /\ Typed /\ [Next]_vars => Typed'
    BY TypedNext
<1>2. Falling /\ Falling' /\ Typed /\ Deep /\ [Next]_vars => Deep'
    BY DeepNext
<1> QED
    BY <1>1, <1>2, TypedAtFirst, DeepAtFirst, FallingHolds, PTL DEF Spec

(* The two searches of strongly_connected_components give two nodes one      *)
(* component just when each can come after the other, whatever the graph and *)
(* the order in which it lists nodes and edges.                              *)
THEOREM ComponentsAlwaysExact == Spec => []ComponentsAreExact
<1>1. Deep => ComponentsAreExact
    BY DEF Deep, Exact, Mutual, ComponentsAreExact
<1> QED
    BY <1>1, DeepHolds, PTL

(* progress_ranks refuses a grammar just when reductions that do not shrink  *)
(* the stack could follow one another for ever: its sort never comes short,  *)
(* and its test for strict edges within a component finds every loop.        *)
THEOREM RefusalsAreRight == Spec => []RefusesJustLoops
<1>1. Falling /\ Deep => RefusesJustLoops
    <2> SUFFICES ASSUME Falling, Deep PROVE RefusesJustLoops
        OBVIOUS
    <2>1. ASSUME stage = "done", Loops PROVE FALSE
        <3>1. PICK e \in Edges : graph.strict[e[1]] /\ e[1] \in Reached(e[2])
            BY <2>1 DEF Loops
        <3>2. e[1] \in Nodes /\ e[2] \in Nodes /\ Leads(e[1], e[2]) /\ graph \in Graphs
            <4>1. graph \in Graphs
                BY DEF Falling
            <4>2. e \in Nodes \X Nodes /\ Leads(e[1], e[2])
                BY <4>1, NextNodes
            <4> QED
                BY <4>1, <4>2
        <3>3. Mutual(e[1], e[2])
            BY <3>1, <3>2, MutualIs DEF Mutual
        <3>4. component[e[1]] = component[e[2]]
            BY <2>1, <3>2, <3>3 DEF Deep, Exact
        <3>5. StrictLoop
            BY <3>1, <3>4 DEF StrictLoop
        <3> QED
            BY <2>1, <3>5 DEF Falling, Condensed
    <2> QED
        BY <2>1 DEF Deep, RefusesJustLoops
<1> QED
    BY <1>1, FallingHolds, DeepHolds, PTL
=============================================================================
