------------------------ MODULE StackCalculatorProofs ------------------------
(***************************************************************************)
(* Proofs about the stack calculator, for every call graph, frame sizes    *)
(* and lists of methods: the search in three colours reports a loop just   *)
(* when there is one, and without a loop the relaxation along the order it *)
(* found gives the deepest stack of every method, and the two results of   *)
(* the passes are enough for every chain of calls.                         *)
(***************************************************************************)
EXTENDS StackCalculator, FiniteSetTheorems, SequenceTheorems, WellFoundedInduction,
        TLAPS

-----------------------------------------------------------------------------
(* The inductive invariant.                                                *)

Phases == {"search", "relax", "first_pass", "second_pass", "kernel", "done", "crashed"}

Typed ==
  /\ edges \in CallGraphs /\ unexplored \subseteq edges
  /\ col \in [Nodes -> {"white", "gray", "black"}]
  /\ path \in Seq(Nodes) /\ topological_order \in Seq(Nodes)
  /\ loop_found \in BOOLEAN /\ position \in Nat \ {0} /\ phase \in Phases
  /\ phase \in {"search", "relax", "first_pass"} =>
       frame_size \in [Nodes -> Nat] /\ dist \in [Nodes -> Nat]

(* The calls of the search that have not returned follow edges, from gray  *)
(* node to gray node, and no node is searched twice.                       *)
PathOfEdges ==
  /\ \A i \in DOMAIN path : col[path[i]] = "gray"
  /\ \A i, j \in DOMAIN path : path[i] = path[j] => i = j
  /\ \A i \in 1 .. Len(path) - 1 : <<path[i], path[i + 1]>> \in edges

(* The order lists the black nodes, each once. *)
ListsBlack ==
  /\ \A i, j \in DOMAIN topological_order :
       topological_order[i] = topological_order[j] => i = j
  /\ \A n \in Nodes :
       col[n] = "black" <=> \E i \in DOMAIN topological_order : topological_order[i] = n

(* Without a loop the gray nodes are those of the path, and an edge that   *)
(* has been followed leads to a black node or one step down the path.      *)
Explored ==
  /\ \A n \in Nodes : col[n] = "gray" => \E i \in DOMAIN path : path[i] = n
  /\ \A e \in edges \ unexplored :
       \/ col[e[2]] = "black"
       \/ \E i \in 1 .. Len(path) - 1 : path[i] = e[1] /\ path[i + 1] = e[2]

(* ... and a node is listed after all the nodes that it calls. *)
CalleesListed ==
  \A i \in DOMAIN topological_order : \A e \in edges :
    e[1] = topological_order[i] => \E j \in 1 .. i - 1 : topological_order[j] = e[2]

SearchInv ==
  phase = "search" =>
    PathOfEdges /\ ListsBlack /\ (~loop_found => Explored /\ CalleesListed)

LoopInv ==
  /\ loop_found => Cyclic(edges, Nodes)
  /\ phase # "search" /\ ~loop_found => ~Cyclic(edges, Nodes)

(* The distance of a node is that of the deepest of its callers so far. *)
Handled(c) ==
  {i \in DOMAIN topological_order :
     i < position /\ <<topological_order[i], c>> \in edges}
OverCaller(i, c) == dist[topological_order[i]] + frame_size[c]
DeepestSoFar(c) ==
  /\ frame_size[c] <= dist[c]
  /\ \A i \in Handled(c) : OverCaller(i, c) <= dist[c]
  /\ dist[c] = frame_size[c] \/ \E i \in Handled(c) : OverCaller(i, c) = dist[c]

RelaxInv ==
  /\ phase = "search" => position = 1 /\ dist = frame_size
  /\ phase \in {"relax", "first_pass"} /\ ~loop_found =>
       /\ CallersFirst
       /\ \A n \in Nodes : \E i \in DOMAIN topological_order : topological_order[i] = n
       /\ \A c \in Nodes : DeepestSoFar(c)
       /\ phase = "first_pass" => position > Len(topological_order)

CInv == Typed /\ SearchInv /\ LoopInv /\ RelaxInv

-----------------------------------------------------------------------------
(* Facts about the graph and about maxima.                                 *)

(* A nonempty set of numbers has a least one. *)
LEMMA LeastNumber ==
  ASSUME NEW S, S \subseteq Nat, S # {}
  PROVE  \E n \in S : \A m \in S : n <= m
<1>. DEFINE R == OpToRel(<, Nat)
<1>1. IsWellFoundedOn(R, Nat)
  BY NatLessThanWellFounded
<1>2. \A i, j \in Nat : i < j => <<i, j>> \in R
  BY DEF OpToRel
<1>. HIDE DEF R
<1>3. PICK n \in S : \A m \in S : <<m, n>> \notin R
  BY <1>1, WFMin
<1>4. ASSUME NEW m \in S PROVE n <= m
  <2>1. ~(m < n)
    BY <1>2, <1>3
  <2>. QED BY <2>1
<1>. QED BY <1>4

(* A number of the set that no other exceeds is its maximum. *)
LEMMA MaxIs ==
  ASSUME NEW S, S \subseteq Int, NEW v \in S, \A x \in S : x <= v
  PROVE  Max(S) = v
<1>1. v \in S /\ \A y \in S : v >= y
  OBVIOUS
<1>2. Max(S) \in S /\ \A y \in S : Max(S) >= y
  BY <1>1 DEF Max
<1>3. Max(S) \in Int /\ v \in Int /\ Max(S) >= v /\ v >= Max(S)
  BY <1>1, <1>2
<1>. QED BY <1>3

LEMMA MaxOfTwo ==
  ASSUME NEW a \in Nat, NEW b \in Nat
  PROVE  /\ Max({a, b}) \in {a, b}
         /\ a <= Max({a, b}) /\ b <= Max({a, b})
<1>1. CASE a <= b
  <2>1. b \in {a, b} /\ {a, b} \subseteq Int /\ \A x \in {a, b} : x <= b
    BY <1>1
  <2>2. Max({a, b}) = b
    BY <2>1, MaxIs
  <2>. QED BY <1>1, <2>2
<1>2. CASE b <= a
  <2>1. a \in {a, b} /\ {a, b} \subseteq Int /\ \A x \in {a, b} : x <= a
    BY <1>2
  <2>2. Max({a, b}) = a
    BY <2>1, MaxIs
  <2>. QED BY <1>2, <2>2
<1>. QED BY <1>1, <1>2

(* A graph calls nodes from methods. *)
LEMMA EdgesOfNodes ==
  ASSUME edges \in CallGraphs, NEW e \in edges
  PROVE  e = <<e[1], e[2]>> /\ e[1] \in Nodes /\ e[2] \in Nodes
<1>1. edges \subseteq Methods \X Nodes
  BY NodesAssumption
<1>. QED BY <1>1 DEF Nodes

(* All nodes are reached from all nodes: a cycle anywhere is below them. *)
LEMMA CyclicIffEndless ==
  Cyclic(edges, Nodes) <=> \E T \in SUBSET Nodes : Endless(edges, T)
<1>1. Reach(edges, Nodes) = Nodes
  BY DEF Reach
<1>. QED BY <1>1 DEF Cyclic

LEMMA CyclicEverywhere ==
  ASSUME NEW S, Cyclic(edges, S)
  PROVE  Cyclic(edges, Nodes)
<1>1. Reach(edges, S) \subseteq Nodes
  BY DEF Reach
<1>2. PICK T \in SUBSET Reach(edges, S) : Endless(edges, T)
  BY DEF Cyclic
<1>3. T \in SUBSET Nodes
  BY <1>1, <1>2
<1>. QED BY <1>2, <1>3, CyclicIffEndless

-----------------------------------------------------------------------------
(* The search.                                                             *)

LEMMA CInvInit == Init => CInv
<1>. SUFFICES ASSUME Init PROVE CInv
  OBVIOUS
<1>1. Typed
  <2>1. PICK sizes \in FrameSizes :
          frame_size = [n \in Nodes |-> IF n \in Methods THEN sizes[n] ELSE 0]
    BY DEF Init
  <2>2. sizes \in [Methods -> Nat]
    BY NodesAssumption
  <2>3. frame_size \in [Nodes -> Nat]
    BY <2>1, <2>2
  <2>4. dist \in [Nodes -> Nat]
    BY <2>3 DEF Init
  <2>5. col \in [Nodes -> {"white", "gray", "black"}] /\ edges \in CallGraphs
    BY DEF Init
  <2>6. path \in Seq(Nodes) /\ topological_order \in Seq(Nodes)
    BY DEF Init
  <2>7. unexplored \subseteq edges /\ loop_found \in BOOLEAN /\ position = 1
    BY DEF Init
  <2>8. phase \in Phases
    BY DEF Init, Phases
  <2>. QED BY <2>3, <2>4, <2>5, <2>6, <2>7, <2>8 DEF Typed
<1>2. SearchInv
  <2>1. DOMAIN path = {} /\ DOMAIN topological_order = {} /\ 1 .. Len(path) - 1 = {}
    BY DEF Init
  <2>2. \A n \in Nodes : col[n] = "white"
    BY DEF Init
  <2>3. edges \ unexplored = {}
    BY DEF Init
  <2>4. PathOfEdges /\ ListsBlack
    BY <2>1, <2>2 DEF PathOfEdges, ListsBlack
  <2>5. Explored /\ CalleesListed
    BY <2>1, <2>2, <2>3 DEF Explored, CalleesListed
  <2>. QED BY <2>4, <2>5 DEF SearchInv
<1>3. LoopInv /\ RelaxInv
  BY DEF Init, LoopInv, RelaxInv
<1>. QED BY <1>1, <1>2, <1>3 DEF CInv

(* A path of one more node, and of one less. *)
LEMMA Longer ==
  ASSUME NEW s \in Seq(Nodes), NEW n \in Nodes
  PROVE  /\ Append(s, n) \in Seq(Nodes)
         /\ Len(Append(s, n)) = Len(s) + 1
         /\ Len(s) \in Nat
         /\ DOMAIN s = 1 .. Len(s) /\ DOMAIN Append(s, n) = 1 .. Len(s) + 1
         /\ \A i \in 1 .. Len(s) : Append(s, n)[i] = s[i]
         /\ Append(s, n)[Len(s) + 1] = n
  OBVIOUS

LEMMA Shorter ==
  ASSUME NEW s \in Seq(Nodes), s # <<>>
  PROVE  /\ Front(s) \in Seq(Nodes) /\ Last(s) \in Nodes
         /\ Len(Front(s)) = Len(s) - 1 /\ Len(s) \in Nat /\ Len(s) > 0
         /\ DOMAIN s = 1 .. Len(s) /\ DOMAIN Front(s) = 1 .. Len(s) - 1
         /\ \A i \in 1 .. Len(s) - 1 : Front(s)[i] = s[i]
         /\ Last(s) = s[Len(s)]
<1>1. Len(s) \in Nat /\ Len(s) > 0 /\ DOMAIN s = 1 .. Len(s)
  OBVIOUS
<1>2. s[Len(s)] \in Nodes
  BY <1>1
<1>3. /\ SubSeq(s, 1, Len(s) - 1) \in Seq(Nodes)
      /\ Len(SubSeq(s, 1, Len(s) - 1)) = Len(s) - 1
      /\ \A i \in 1 .. Len(s) - 1 : SubSeq(s, 1, Len(s) - 1)[i] = s[i]
  BY <1>1, SubSeqProperties
<1>. QED BY <1>1, <1>2, <1>3 DEF Front, Last

LEMMA StartSearchKeeps == CInv /\ StartSearch => CInv'
<1>. SUFFICES ASSUME CInv, StartSearch PROVE CInv'
  OBVIOUS
<1>1. PICK n \in Nodes :
        /\ phase = "search" /\ path = <<>> /\ col[n] = "white"
        /\ col' = [col EXCEPT ![n] = "gray"] /\ path' = <<n>>
        /\ UNCHANGED <<unexplored, topological_order, loop_found, phase>>
        /\ SearchUnchanged
  BY DEF StartSearch
<1>2. /\ edges' = edges /\ unexplored' = unexplored /\ phase' = "search"
      /\ topological_order' = topological_order /\ loop_found' = loop_found
      /\ position' = position /\ dist' = dist /\ frame_size' = frame_size
  BY <1>1 DEF SearchUnchanged
<1>3. col \in [Nodes -> {"white", "gray", "black"}] /\ edges \in CallGraphs
  BY DEF CInv, Typed
<1>4. /\ col' \in [Nodes -> {"white", "gray", "black"}]
      /\ col'[n] = "gray" /\ \A m \in Nodes \ {n} : col'[m] = col[m]
  BY <1>1, <1>3
<1>5. Typed'
  BY <1>1, <1>4 DEF CInv, Typed, SearchUnchanged
<1>6. DOMAIN path' = {1} /\ path'[1] = n /\ 1 .. Len(path') - 1 = {}
  BY <1>1
<1>7. PathOfEdges'
  BY <1>4, <1>6 DEF PathOfEdges
<1>8. \A m \in Nodes : col'[m] = "black" <=> col[m] = "black"
  BY <1>1, <1>4
<1>9. ListsBlack'
  BY <1>1, <1>2, <1>8 DEF CInv, SearchInv, ListsBlack
<1>10. ASSUME ~loop_found PROVE Explored' /\ CalleesListed'
  <2>1. Explored /\ CalleesListed
    BY <1>1, <1>10 DEF CInv, SearchInv
  <2>2. CalleesListed'
    BY <1>2, <2>1 DEF CalleesListed
  <2>3. \A m \in Nodes : col'[m] = "gray" => m = n
    BY <1>1, <1>4, <2>1 DEF Explored
  <2>4. ASSUME NEW e \in edges \ unexplored PROVE col'[e[2]] = "black"
    <3>1. col[e[2]] = "black"
      BY <1>1, <2>1 DEF Explored
    <3>2. e[2] \in Nodes
      BY <1>3, EdgesOfNodes
    <3>. QED BY <1>8, <3>1, <3>2
  <2>. QED BY <1>2, <1>6, <2>2, <2>3, <2>4 DEF Explored
<1>11. SearchInv'
  BY <1>2, <1>7, <1>9, <1>10 DEF SearchInv
<1>12. LoopInv' /\ RelaxInv'
  BY <1>1, <1>2 DEF CInv, LoopInv, RelaxInv
<1>. QED BY <1>5, <1>11, <1>12 DEF CInv

(* A gray child is on the path, and closes a loop of its later nodes. *)
LEMMA GrayChildLoops ==
  ASSUME CInv, phase = "search", ~loop_found,
         NEW e \in edges, Follows(e), col[e[2]] = "gray"
  PROVE  Cyclic(edges, Nodes)
<1>1. /\ path \in Seq(Nodes) /\ Len(path) \in Nat /\ DOMAIN path = 1 .. Len(path)
      /\ edges \in CallGraphs
  BY DEF CInv, Typed
<1>2. PathOfEdges /\ Explored
  BY DEF CInv, SearchInv
<1>3. e = <<e[1], e[2]>> /\ e[2] \in Nodes
  BY <1>1, EdgesOfNodes
<1>4. PICK k \in 1 .. Len(path) : path[k] = e[2]
  BY <1>1, <1>2, <1>3 DEF Explored
<1>5. path # <<>> /\ e[1] = path[Len(path)]
  BY DEF Follows, Last
<1>. DEFINE T == {path[i] : i \in k .. Len(path)}
<1>6. T \subseteq Nodes
  BY <1>1, <1>4
<1>7. e[2] \in T
  BY <1>4
<1>8. ASSUME NEW n \in T PROVE \E f \in edges : f[1] = n /\ f[2] \in T
  <2>1. PICK i \in k .. Len(path) : n = path[i]
    OBVIOUS
  <2>2. CASE i = Len(path)
    BY <1>5, <1>7, <2>1, <2>2
  <2>3. CASE i # Len(path)
    <3>. HIDE DEF T
    <3>1. i \in 1 .. Len(path) - 1 /\ i + 1 \in k .. Len(path)
      <4>. DEFINE l == Len(path)
      <4>1. l \in Nat /\ k \in 1 .. l /\ i \in k .. l /\ i # l
        BY <1>1, <2>3
      <4>. HIDE DEF l
      <4>2. i \in 1 .. l - 1 /\ i + 1 \in k .. l
        BY <4>1
      <4>. QED BY <4>2 DEF l
    <3>2. <<path[i], path[i + 1]>> \in edges
      BY <1>2, <3>1 DEF PathOfEdges
    <3>3. path[i + 1] \in T
      BY <3>1 DEF T
    <3>. QED BY <2>1, <3>2, <3>3
  <2>. QED BY <2>2, <2>3
<1>9. Endless(edges, T)
  BY <1>7, <1>8 DEF Endless
<1>. HIDE DEF T
<1>. QED BY <1>6, <1>9, CyclicIffEndless

LEMMA VisitChildKeeps == CInv /\ VisitChild => CInv'
<1>. SUFFICES ASSUME CInv, VisitChild PROVE CInv'
  OBVIOUS
<1>1. PICK e \in unexplored :
        /\ Follows(e)
        /\ unexplored' = unexplored \ {e}
        /\ \/ /\ col[e[2]] = "white"
              /\ col' = [col EXCEPT ![e[2]] = "gray"] /\ path' = Append(path, e[2])
              /\ UNCHANGED loop_found
           \/ col[e[2]] = "black" /\ UNCHANGED <<col, path, loop_found>>
           \/ col[e[2]] = "gray" /\ path' = <<>> /\ loop_found' = TRUE /\ UNCHANGED col
        /\ UNCHANGED <<topological_order, phase>>
        /\ SearchUnchanged
  BY DEF VisitChild
<1>2. /\ edges' = edges /\ unexplored' = unexplored \ {e} /\ phase' = "search"
      /\ phase = "search" /\ topological_order' = topological_order
      /\ path # <<>> /\ e[1] = Last(path)
      /\ position' = position /\ dist' = dist /\ frame_size' = frame_size
  BY <1>1 DEF SearchUnchanged, Follows
<1>3. /\ col \in [Nodes -> {"white", "gray", "black"}] /\ edges \in CallGraphs
      /\ unexplored \subseteq edges /\ e \in edges /\ path \in Seq(Nodes)
  BY DEF CInv, Typed
<1>4. e = <<e[1], e[2]>> /\ e[1] \in Nodes /\ e[2] \in Nodes
  BY <1>3, EdgesOfNodes
<1>5. PathOfEdges /\ ListsBlack /\ (~loop_found => Explored /\ CalleesListed)
  BY <1>2 DEF CInv, SearchInv
<1>6. CASE /\ col[e[2]] = "white"
           /\ col' = [col EXCEPT ![e[2]] = "gray"] /\ path' = Append(path, e[2])
           /\ UNCHANGED loop_found
  <2>1. /\ col' \in [Nodes -> {"white", "gray", "black"}] /\ col'[e[2]] = "gray"
        /\ \A m \in Nodes \ {e[2]} : col'[m] = col[m]
    BY <1>3, <1>4, <1>6
  <2>. DEFINE l == Len(path)
  <2>2. /\ path' \in Seq(Nodes) /\ Len(path') = l + 1 /\ l \in Nat
        /\ DOMAIN path = 1 .. l /\ DOMAIN path' = 1 .. l + 1
        /\ \A i \in 1 .. l : path'[i] = path[i]
        /\ path'[l + 1] = e[2]
    BY <1>3, <1>4, <1>6, Longer
  <2>3. l > 0 /\ path[l] = e[1]
    BY <1>2, <1>3 DEF Last
  <2>4. Typed'
    BY <1>1, <1>2, <1>3, <1>6, <2>1, <2>2 DEF CInv, Typed, SearchUnchanged
  <2>5. \A i \in 1 .. l : path[i] \in Nodes /\ path[i] # e[2] /\ col[path[i]] = "gray"
    <3>1. \A i \in 1 .. l : col[path[i]] = "gray"
      BY <1>5, <2>2 DEF PathOfEdges
    <3>2. \A i \in 1 .. l : path[i] \in Nodes
      BY <1>3, <2>2
    <3>. HIDE DEF l
    <3>. QED BY <1>6, <3>1, <3>2
  <2>. HIDE DEF l
  <2>6. PathOfEdges'
    <3>1. \A i \in 1 .. l + 1 : col'[path'[i]] = "gray"
      BY <2>1, <2>2, <2>5
    <3>2. \A i, j \in 1 .. l : path[i] = path[j] => i = j
      BY <1>5, <2>2 DEF PathOfEdges
    <3>3. ASSUME NEW i \in 1 .. l + 1, NEW j \in 1 .. l + 1, path'[i] = path'[j]
          PROVE  i = j
      BY <2>2, <2>5, <3>2, <3>3
    <3>4. ASSUME NEW i \in 1 .. l PROVE <<path'[i], path'[i + 1]>> \in edges
      <4>1. CASE i = l
        BY <1>3, <1>4, <2>2, <2>3, <4>1
      <4>2. CASE i # l
        <5>1. i \in 1 .. l - 1 /\ i + 1 \in 1 .. l
          BY <2>2, <4>2
        <5>2. <<path[i], path[i + 1]>> \in edges
          BY <1>5, <5>1 DEF PathOfEdges, l
        <5>. QED BY <2>2, <5>1, <5>2
      <4>. QED BY <4>1, <4>2
    <3>5. 1 .. Len(path') - 1 = 1 .. l
      BY <2>2
    <3>. QED BY <1>2, <2>2, <3>1, <3>3, <3>4, <3>5 DEF PathOfEdges
  <2>7. \A m \in Nodes : col'[m] = "black" <=> col[m] = "black"
    BY <1>6, <2>1
  <2>8. ListsBlack'
    BY <1>2, <1>5, <2>7 DEF ListsBlack
  <2>9. ASSUME ~loop_found PROVE Explored' /\ CalleesListed'
    <3>1. CalleesListed'
      BY <1>2, <1>5, <2>9 DEF CalleesListed
    <3>2. ASSUME NEW m \in Nodes, col'[m] = "gray" PROVE \E i \in 1 .. l + 1 : path'[i] = m
      <4>1. CASE m = e[2]
        BY <2>2, <4>1
      <4>2. CASE m # e[2]
        <5>1. PICK i \in 1 .. l : path[i] = m
          BY <1>5, <2>1, <2>2, <2>9, <3>2, <4>2 DEF Explored
        <5>. QED BY <2>2, <5>1
      <4>. QED BY <4>1, <4>2
    <3>3. ASSUME NEW f \in edges \ unexplored'
          PROVE  \/ col'[f[2]] = "black"
                 \/ \E i \in 1 .. l : path'[i] = f[1] /\ path'[i + 1] = f[2]
      <4>1. CASE f = e
        <5>1. l \in 1 .. l /\ path'[l] = e[1] /\ path'[l + 1] = e[2]
          BY <2>2, <2>3
        <5>. QED BY <4>1, <5>1
      <4>2. CASE f # e
        <5>1. f \in edges \ unexplored /\ f[2] \in Nodes
          BY <1>2, <1>3, <3>3, <4>2, EdgesOfNodes
        <5>2. \/ col[f[2]] = "black"
              \/ \E i \in 1 .. l - 1 : path[i] = f[1] /\ path[i + 1] = f[2]
          BY <1>5, <2>9, <5>1 DEF Explored, l
        <5>3. CASE col[f[2]] = "black"
          BY <2>7, <5>1, <5>3
        <5>4. CASE \E i \in 1 .. l - 1 : path[i] = f[1] /\ path[i + 1] = f[2]
          <6>1. PICK i \in 1 .. l - 1 : path[i] = f[1] /\ path[i + 1] = f[2]
            BY <5>4
          <6>2. i \in 1 .. l /\ i + 1 \in 1 .. l
            BY <2>2
          <6>. QED BY <2>2, <6>1, <6>2
        <5>. QED BY <5>2, <5>3, <5>4
      <4>. QED BY <4>1, <4>2
    <3>4. 1 .. Len(path') - 1 = 1 .. l
      BY <2>2
    <3>. QED BY <1>2, <2>2, <3>1, <3>2, <3>3, <3>4 DEF Explored
  <2>10. SearchInv'
    BY <1>2, <1>6, <2>6, <2>8, <2>9 DEF SearchInv
  <2>11. LoopInv' /\ RelaxInv'
    BY <1>2, <1>6 DEF CInv, LoopInv, RelaxInv
  <2>. QED BY <2>4, <2>10, <2>11 DEF CInv
<1>7. CASE col[e[2]] = "black" /\ UNCHANGED <<col, path, loop_found>>
  <2>1. Typed'
    BY <1>1, <1>2, <1>3, <1>7 DEF CInv, Typed, SearchUnchanged
  <2>2. PathOfEdges' /\ ListsBlack'
    BY <1>2, <1>5, <1>7 DEF PathOfEdges, ListsBlack
  <2>3. ASSUME ~loop_found PROVE Explored' /\ CalleesListed'
    <3>1. CalleesListed'
      BY <1>2, <1>5, <2>3 DEF CalleesListed
    <3>2. Explored'
      BY <1>2, <1>5, <1>7, <2>3 DEF Explored
    <3>. QED BY <3>1, <3>2
  <2>4. SearchInv'
    BY <1>2, <1>7, <2>2, <2>3 DEF SearchInv
  <2>5. LoopInv' /\ RelaxInv'
    BY <1>2, <1>7 DEF CInv, LoopInv, RelaxInv
  <2>. QED BY <2>1, <2>4, <2>5 DEF CInv
<1>8. CASE col[e[2]] = "gray" /\ path' = <<>> /\ loop_found' = TRUE /\ UNCHANGED col
  <2>1. path' \in Seq(Nodes) /\ DOMAIN path' = {} /\ 1 .. Len(path') - 1 = {}
    BY <1>8
  <2>2. Typed'
    BY <1>1, <1>2, <1>3, <1>8, <2>1 DEF CInv, Typed, SearchUnchanged
  <2>3. PathOfEdges'
    BY <2>1 DEF PathOfEdges
  <2>4. ListsBlack'
    BY <1>2, <1>5, <1>8 DEF ListsBlack
  <2>5. Cyclic(edges, Nodes)
    <3>1. CASE loop_found
      BY <3>1 DEF CInv, LoopInv
    <3>2. CASE ~loop_found
      BY <1>1, <1>2, <1>3, <1>8, <3>2, GrayChildLoops
    <3>. QED BY <3>1, <3>2
  <2>6. SearchInv' /\ RelaxInv'
    BY <1>2, <1>8, <2>3, <2>4 DEF CInv, SearchInv, RelaxInv
  <2>7. LoopInv'
    BY <1>2, <1>8, <2>5 DEF LoopInv
  <2>. QED BY <2>2, <2>6, <2>7 DEF CInv
<1>. QED BY <1>1, <1>6, <1>7, <1>8

LEMMA LeaveNodeKeeps == CInv /\ LeaveNode => CInv'
<1>. SUFFICES ASSUME CInv, LeaveNode PROVE CInv'
  OBVIOUS
<1>. DEFINE n == Last(path)
            l == Len(path)
            k == Len(topological_order)
<1>1. /\ phase = "search" /\ phase' = "search" /\ path # <<>>
      /\ edges' = edges /\ unexplored' = unexplored /\ loop_found' = loop_found
      /\ position' = position /\ dist' = dist /\ frame_size' = frame_size
      /\ col' = [col EXCEPT ![n] = "black"]
      /\ topological_order' = Append(topological_order, n) /\ path' = Front(path)
  BY DEF LeaveNode, SearchUnchanged
<1>2. /\ col \in [Nodes -> {"white", "gray", "black"}] /\ edges \in CallGraphs
      /\ unexplored \subseteq edges /\ path \in Seq(Nodes)
      /\ topological_order \in Seq(Nodes)
  BY DEF CInv, Typed
<1>3. /\ path' \in Seq(Nodes) /\ n \in Nodes
      /\ Len(path') = l - 1 /\ l \in Nat /\ l > 0
      /\ DOMAIN path = 1 .. l /\ DOMAIN path' = 1 .. l - 1
      /\ \A i \in 1 .. l - 1 : path'[i] = path[i]
      /\ n = path[l]
  BY <1>1, <1>2, Shorter
<1>4. /\ topological_order' \in Seq(Nodes) /\ k \in Nat
      /\ DOMAIN topological_order = 1 .. k /\ DOMAIN topological_order' = 1 .. k + 1
      /\ \A i \in 1 .. k : topological_order'[i] = topological_order[i]
      /\ topological_order'[k + 1] = n
  BY <1>1, <1>2, <1>3, Longer
<1>5. /\ col' \in [Nodes -> {"white", "gray", "black"}] /\ col'[n] = "black"
      /\ \A m \in Nodes \ {n} : col'[m] = col[m]
  BY <1>1, <1>2, <1>3
<1>6. Typed'
  BY <1>1, <1>2, <1>3, <1>4, <1>5 DEF CInv, Typed
<1>7. PathOfEdges /\ ListsBlack /\ (~loop_found => Explored /\ CalleesListed)
  BY <1>1 DEF CInv, SearchInv
<1>8. \A e \in edges : e[1] = n => e \notin unexplored
  BY <1>1 DEF LeaveNode, Follows
<1>9. /\ \A i \in 1 .. l : col[path[i]] = "gray"
      /\ \A i, j \in 1 .. l : path[i] = path[j] => i = j
      /\ \A i \in 1 .. l - 1 : <<path[i], path[i + 1]>> \in edges
  BY <1>3, <1>7 DEF PathOfEdges
<1>10. /\ \A i, j \in 1 .. k : topological_order[i] = topological_order[j] => i = j
       /\ \A m \in Nodes : col[m] = "black" <=> \E i \in 1 .. k : topological_order[i] = m
  BY <1>4, <1>7 DEF ListsBlack
<1>11. \A i \in 1 .. l - 1 : path[i] \in Nodes \ {n}
  <2>1. \A i \in 1 .. l - 1 : i \in 1 .. l /\ i # l
    BY <1>3
  <2>2. l \in 1 .. l
    BY <1>3
  <2>3. \A i \in 1 .. l : path[i] \in Nodes
    BY <1>2, <1>3
  <2>. HIDE DEF n, l
  <2>. QED BY <1>3, <1>9, <2>1, <2>2, <2>3
<1>12. col[n] = "gray"
  BY <1>3, <1>9
<1>13. ~loop_found =>
         /\ \A m \in Nodes : col[m] = "gray" => \E i \in 1 .. l : path[i] = m
         /\ \A e \in edges \ unexplored :
              \/ col[e[2]] = "black"
              \/ \E i \in 1 .. l - 1 : path[i] = e[1] /\ path[i + 1] = e[2]
  BY <1>3, <1>7 DEF Explored
<1>14. ~loop_found =>
         \A i \in 1 .. k : \A e \in edges :
           e[1] = topological_order[i] => \E j \in 1 .. i - 1 : topological_order[j] = e[2]
  BY <1>4, <1>7 DEF CalleesListed
<1>15. \A e \in edges : e[2] \in Nodes
  BY <1>2, EdgesOfNodes
<1>. HIDE DEF n, l, k
<1>16. PathOfEdges'
  <2>1. \A i \in 1 .. l - 1 : i \in 1 .. l
    BY <1>3
  <2>2. \A i \in 1 .. l - 1 : col'[path'[i]] = "gray"
    BY <1>3, <1>5, <1>9, <1>11, <2>1
  <2>3. \A i, j \in 1 .. l - 1 : path'[i] = path'[j] => i = j
    BY <1>3, <1>9, <2>1
  <2>4. ASSUME NEW i \in 1 .. (l - 1) - 1 PROVE <<path'[i], path'[i + 1]>> \in edges
    <3>1. i \in 1 .. l - 1 /\ i + 1 \in 1 .. l - 1
      BY <1>3
    <3>. QED BY <1>3, <1>9, <3>1
  <2>. QED BY <1>1, <1>3, <2>2, <2>3, <2>4 DEF PathOfEdges
<1>17. ListsBlack'
  <2>1. \A i \in 1 .. k : topological_order[i] # n
    BY <1>3, <1>10, <1>12
  <2>2. ASSUME NEW i \in 1 .. k + 1, NEW j \in 1 .. k + 1,
               topological_order'[i] = topological_order'[j]
        PROVE  i = j
    BY <1>4, <1>10, <2>1, <2>2
  <2>3. ASSUME NEW m \in Nodes
        PROVE  col'[m] = "black" <=> \E i \in 1 .. k + 1 : topological_order'[i] = m
    <3>1. CASE m = n
      BY <1>4, <1>5, <3>1
    <3>2. CASE m # n
      <4>1. col'[m] = "black" <=> \E i \in 1 .. k : topological_order[i] = m
        BY <1>5, <1>10, <3>2
      <4>2. (\E i \in 1 .. k : topological_order[i] = m)
              <=> \E i \in 1 .. k + 1 : topological_order'[i] = m
        BY <1>4, <3>2
      <4>. QED BY <4>1, <4>2
    <3>. QED BY <3>1, <3>2
  <2>. QED BY <1>4, <2>2, <2>3 DEF ListsBlack
<1>18. ASSUME ~loop_found PROVE Explored'
  <2>1. ASSUME NEW m \in Nodes, col'[m] = "gray" PROVE \E i \in 1 .. l - 1 : path'[i] = m
    <3>1. m # n /\ col[m] = "gray"
      BY <1>5, <2>1
    <3>2. PICK i \in 1 .. l : path[i] = m
      BY <1>13, <1>18, <3>1
    <3>3. i \in 1 .. l - 1
      BY <1>3, <3>1, <3>2
    <3>. QED BY <1>3, <3>2, <3>3
  <2>2. ASSUME NEW e \in edges \ unexplored
        PROVE  \/ col'[e[2]] = "black"
               \/ \E i \in 1 .. (l - 1) - 1 : path'[i] = e[1] /\ path'[i + 1] = e[2]
    <3>1. CASE col[e[2]] = "black"
      BY <1>5, <1>15, <3>1
    <3>2. ASSUME NEW i \in 1 .. l - 1, path[i] = e[1], path[i + 1] = e[2]
          PROVE  \/ col'[e[2]] = "black"
                 \/ \E j \in 1 .. (l - 1) - 1 : path'[j] = e[1] /\ path'[j + 1] = e[2]
      <4>1. CASE i + 1 = l
        BY <1>3, <1>5, <3>2, <4>1
      <4>2. CASE i + 1 # l
        <5>1. i \in 1 .. (l - 1) - 1 /\ i + 1 \in 1 .. l - 1
          BY <1>3, <4>2
        <5>. QED BY <1>3, <3>2, <5>1
      <4>. QED BY <4>1, <4>2
    <3>. QED BY <1>13, <1>18, <3>1, <3>2
  <2>. QED BY <1>1, <1>3, <2>1, <2>2 DEF Explored
<1>19. ASSUME ~loop_found PROVE CalleesListed'
  <2>1. ASSUME NEW i \in 1 .. k + 1, NEW e \in edges, e[1] = topological_order'[i]
        PROVE  \E j \in 1 .. i - 1 : topological_order'[j] = e[2]
    <3>1. CASE i \in 1 .. k
      <4>1. PICK j \in 1 .. i - 1 : topological_order[j] = e[2]
        BY <1>4, <1>14, <1>19, <2>1, <3>1
      <4>2. j \in 1 .. k
        BY <1>4, <3>1
      <4>. QED BY <1>4, <4>1, <4>2
    <3>2. CASE i = k + 1
      <4>1. e[1] = n /\ e \in edges \ unexplored
        BY <1>4, <1>8, <2>1, <3>2
      <4>2. \A j \in 1 .. l - 1 : path[j] # e[1]
        BY <1>11, <4>1
      <4>3. col[e[2]] = "black"
        BY <1>13, <1>19, <4>1, <4>2
      <4>4. PICK j \in 1 .. k : topological_order[j] = e[2]
        BY <1>10, <1>15, <4>3
      <4>5. j \in 1 .. i - 1
        BY <1>4, <3>2
      <4>. QED BY <1>4, <4>4, <4>5
    <3>. QED BY <1>4, <3>1, <3>2
  <2>. QED BY <1>1, <1>4, <2>1 DEF CalleesListed
<1>20. SearchInv'
  BY <1>1, <1>16, <1>17, <1>18, <1>19 DEF SearchInv
<1>21. LoopInv' /\ RelaxInv'
  BY <1>1 DEF CInv, LoopInv, RelaxInv
<1>. QED BY <1>6, <1>20, <1>21 DEF CInv

(* A set of nodes from which no call leaves has no least node of an order  *)
(* in which all nodes come after those that they call.                     *)
LEMMA ListedAcyclic ==
  ASSUME CalleesListed, topological_order \in Seq(Nodes), edges \in CallGraphs,
         \A n \in Nodes : \E i \in DOMAIN topological_order : topological_order[i] = n
  PROVE  ~Cyclic(edges, Nodes)
<1>. SUFFICES ASSUME NEW T \in SUBSET Nodes, Endless(edges, T) PROVE FALSE
  BY CyclicIffEndless
<1>. DEFINE k == Len(topological_order)
            I == {i \in 1 .. k : topological_order[i] \in T}
<1>1. k \in Nat /\ DOMAIN topological_order = 1 .. k
  OBVIOUS
<1>2. I \subseteq Nat /\ I # {}
  <2>1. PICK n \in T : TRUE
    BY DEF Endless
  <2>2. PICK i \in 1 .. k : topological_order[i] = n
    BY <1>1, <2>1
  <2>. QED BY <2>1, <2>2
<1>3. PICK i \in I : \A j \in I : i <= j
  <2>. HIDE DEF I
  <2>. QED BY <1>2, LeastNumber
<1>4. i \in 1 .. k /\ topological_order[i] \in T
  OBVIOUS
<1>5. PICK e \in edges : e[1] = topological_order[i] /\ e[2] \in T
  BY <1>4 DEF Endless
<1>6. PICK j \in 1 .. i - 1 : topological_order[j] = e[2]
  BY <1>1, <1>4, <1>5 DEF CalleesListed
<1>7. j \in 1 .. k /\ j < i
  BY <1>1, <1>4
<1>8. j \in I
  BY <1>5, <1>6, <1>7
<1>9. i <= j
  BY <1>3, <1>8
<1>. QED BY <1>4, <1>7, <1>9

(* The k-th element from the end. *)
LEMMA Backwards ==
  ASSUME NEW s \in Seq(Nodes)
  PROVE  /\ Reverse(s) \in Seq(Nodes) /\ Len(Reverse(s)) = Len(s) /\ Len(s) \in Nat
         /\ DOMAIN s = 1 .. Len(s) /\ DOMAIN Reverse(s) = 1 .. Len(s)
         /\ \A i \in 1 .. Len(s) :
              /\ (Len(s) - i) + 1 \in 1 .. Len(s)
              /\ Reverse(s)[i] = s[(Len(s) - i) + 1]
<1>. DEFINE l == Len(s)
<1>1. l \in Nat /\ DOMAIN s = 1 .. l
  OBVIOUS
<1>2. \A i \in 1 .. l : (l - i) + 1 \in 1 .. l
  BY <1>1
<1>3. \A i \in 1 .. l : s[(l - i) + 1] \in Nodes
  BY <1>2
<1>4. Reverse(s) \in [1 .. l -> Nodes]
  BY <1>3 DEF Reverse
<1>5. Reverse(s) \in Seq(Nodes) /\ Len(Reverse(s)) = l
  BY <1>1, <1>4
<1>6. \A i \in 1 .. l : Reverse(s)[i] = s[(l - i) + 1]
  BY <1>1 DEF Reverse
<1>. QED BY <1>1, <1>2, <1>4, <1>5, <1>6

LEMMA ReverseOrderKeeps == CInv /\ ReverseOrder => CInv'
<1>. SUFFICES ASSUME CInv, ReverseOrder PROVE CInv'
  OBVIOUS
<1>. DEFINE o == topological_order
            k == Len(topological_order)
<1>1. /\ phase = "search" /\ phase' = "relax" /\ path = <<>> /\ path' = path
      /\ \A n \in Nodes : col[n] # "white"
      /\ edges' = edges /\ unexplored' = unexplored /\ loop_found' = loop_found
      /\ col' = col /\ position' = position /\ dist' = dist /\ frame_size' = frame_size
      /\ topological_order' = Reverse(o)
  BY DEF ReverseOrder, SearchUnchanged
<1>2. /\ col \in [Nodes -> {"white", "gray", "black"}] /\ edges \in CallGraphs
      /\ o \in Seq(Nodes)
  BY DEF CInv, Typed
<1>3. /\ topological_order' \in Seq(Nodes) /\ k \in Nat
      /\ DOMAIN o = 1 .. k /\ DOMAIN topological_order' = 1 .. k
      /\ \A i \in 1 .. k : (k - i) + 1 \in 1 .. k /\ topological_order'[i] = o[(k - i) + 1]
  BY <1>1, <1>2, Backwards
<1>4. Typed'
  BY <1>1, <1>2, <1>3 DEF CInv, Typed, Phases
<1>5. SearchInv'
  BY <1>1 DEF SearchInv
<1>6. ASSUME ~loop_found
      PROVE  CalleesListed /\ \A n \in Nodes : \E i \in 1 .. k : o[i] = n
  <2>1. ListsBlack /\ Explored /\ CalleesListed
    BY <1>1, <1>6 DEF CInv, SearchInv
  <2>2. \A n \in Nodes : col[n] # "gray"
    BY <1>1, <2>1 DEF Explored
  <2>3. \A n \in Nodes : col[n] = "black"
    BY <1>1, <1>2, <2>2
  <2>. QED BY <1>3, <2>1, <2>3 DEF ListsBlack
<1>7. LoopInv'
  <2>1. ~loop_found => ~Cyclic(edges, Nodes)
    BY <1>2, <1>3, <1>6, ListedAcyclic
  <2>. QED BY <1>1, <2>1 DEF CInv, LoopInv
<1>8. ASSUME ~loop_found PROVE CallersFirst'
  <2>1. ASSUME NEW i \in 1 .. k, NEW j \in 1 .. k,
               <<topological_order'[i], topological_order'[j]>> \in edges
        PROVE  i < j
    <3>. DEFINE a == (k - i) + 1
                b == (k - j) + 1
    <3>1. a \in 1 .. k /\ b \in 1 .. k /\ <<o[a], o[b]>> \in edges
      BY <1>3, <2>1
    <3>2. PICK c \in 1 .. a - 1 : o[c] = o[b]
      <4>1. \A e \in edges : e[1] = o[a] => \E c \in 1 .. a - 1 : o[c] = e[2]
        BY <1>3, <1>6, <1>8, <3>1 DEF CalleesListed
      <4>. HIDE DEF a, b, o, k
      <4>. QED BY <3>1, <4>1
    <3>3. c \in 1 .. k
      BY <1>3, <3>1
    <3>4. c = b
      <4>1. \A x, y \in 1 .. k : o[x] = o[y] => x = y
        BY <1>1, <1>3 DEF CInv, SearchInv, ListsBlack
      <4>. HIDE DEF a, b, o, k
      <4>. QED BY <3>1, <3>2, <3>3, <4>1
    <3>5. b < a
      BY <3>1, <3>2, <3>4
    <3>. QED BY <1>3, <3>5
  <2>. QED BY <1>1, <1>3, <2>1 DEF CallersFirst
<1>9. ASSUME ~loop_found, NEW n \in Nodes
      PROVE  \E i \in 1 .. k : topological_order'[i] = n
  <2>1. PICK j \in 1 .. k : o[j] = n
    BY <1>6, <1>9
  <2>2. (k - j) + 1 \in 1 .. k /\ (k - ((k - j) + 1)) + 1 = j
    BY <1>3
  <2>. HIDE DEF o, k
  <2>3. topological_order'[(k - j) + 1] = o[(k - ((k - j) + 1)) + 1]
    BY <1>3, <2>2
  <2>. QED BY <2>1, <2>2, <2>3
<1>10. ASSUME NEW c \in Nodes PROVE DeepestSoFar(c)'
  <2>1. position' = 1 /\ dist' = frame_size /\ frame_size[c] \in Nat
    BY <1>1 DEF CInv, RelaxInv, Typed
  <2>2. Handled(c)' = {}
    BY <1>3, <2>1 DEF Handled
  <2>. QED BY <1>1, <2>1, <2>2 DEF DeepestSoFar
<1>11. RelaxInv'
  BY <1>1, <1>3, <1>8, <1>9, <1>10 DEF RelaxInv
<1>. QED BY <1>4, <1>5, <1>7, <1>11 DEF CInv

-----------------------------------------------------------------------------
(* The relaxation and the passes.                                          *)

LEMMA RelaxKeeps == CInv /\ Relax => CInv'
<1>. SUFFICES ASSUME CInv, Relax PROVE CInv'
  OBVIOUS
<1>. DEFINE o == topological_order
            k == Len(topological_order)
            p == position
            n == topological_order[position]
            Via(c) == dist[n] + frame_size[c]
<1>1. /\ phase = "relax" /\ phase' = "relax" /\ p <= k /\ p' = p + 1
      /\ edges' = edges /\ unexplored' = unexplored /\ loop_found' = loop_found
      /\ col' = col /\ path' = path /\ frame_size' = frame_size
      /\ topological_order' = topological_order
      /\ dist' = [c \in Nodes |->
                    IF <<n, c>> \in edges THEN Max({dist[c], Via(c)}) ELSE dist[c]]
  BY DEF Relax, searchVars
<1>2. /\ edges \in CallGraphs /\ o \in Seq(Nodes) /\ p \in Nat \ {0}
      /\ frame_size \in [Nodes -> Nat] /\ dist \in [Nodes -> Nat]
  BY <1>1 DEF CInv, Typed
<1>3. k \in Nat /\ DOMAIN o = 1 .. k /\ p \in 1 .. k /\ n \in Nodes
  BY <1>1, <1>2
<1>4. ASSUME NEW c \in Nodes
      PROVE  /\ dist[c] \in Nat /\ frame_size[c] \in Nat /\ dist'[c] \in Nat
             /\ Via(c) \in Nat
             /\ <<n, c>> \notin edges => dist'[c] = dist[c]
             /\ <<n, c>> \in edges =>
                  dist'[c] \in {dist[c], Via(c)} /\ dist[c] <= dist'[c] /\ Via(c) <= dist'[c]
  <2>1. dist[c] \in Nat /\ frame_size[c] \in Nat /\ dist[n] \in Nat
    BY <1>2, <1>3, <1>4
  <2>2. Via(c) \in Nat
    BY <2>1
  <2>3. CASE <<n, c>> \notin edges
    BY <1>1, <1>4, <2>1, <2>2, <2>3
  <2>4. CASE <<n, c>> \in edges
    <3>. HIDE DEF n, Via
    <3>1. dist'[c] = Max({dist[c], Via(c)})
      BY <1>1, <1>4, <2>4
    <3>. QED BY <2>1, <2>2, <2>4, <3>1, MaxOfTwo
  <2>. QED BY <2>3, <2>4
<1>5. dist' \in [Nodes -> Nat]
  <2>. HIDE DEF n, Via
  <2>. QED BY <1>1, <1>4
<1>6. Typed'
  BY <1>1, <1>2, <1>5 DEF CInv, Typed
<1>7. SearchInv' /\ LoopInv'
  BY <1>1 DEF CInv, SearchInv, LoopInv
<1>8. ASSUME ~loop_found
      PROVE  /\ \A i, j \in 1 .. k : <<o[i], o[j]>> \in edges => i < j
             /\ \A m \in Nodes : \E i \in 1 .. k : o[i] = m
             /\ \A c \in Nodes : DeepestSoFar(c)
  BY <1>1, <1>3, <1>8 DEF CInv, RelaxInv, CallersFirst
<1>9. ASSUME ~loop_found, NEW i \in 1 .. k, i <= p
      PROVE  dist'[o[i]] = dist[o[i]]
  <2>1. <<n, o[i]>> \notin edges
    BY <1>3, <1>8, <1>9
  <2>2. o[i] \in Nodes
    BY <1>2, <1>3
  <2>. QED BY <1>4, <2>1, <2>2
<1>10. ASSUME ~loop_found, NEW c \in Nodes PROVE DeepestSoFar(c)'
  <2>. PICK q \in 1 .. k : q = p
    BY <1>3
  <2>. DEFINE H == {i \in 1 .. k : i < q /\ <<o[i], c>> \in edges}
              G == {i \in 1 .. k : i < q + 1 /\ <<o[i], c>> \in edges}
  <2>1. Handled(c) = H /\ Handled(c)' = G
    BY <1>1, <1>3 DEF Handled
  <2>2. /\ frame_size[c] <= dist[c]
        /\ \A i \in H : OverCaller(i, c) <= dist[c]
        /\ dist[c] = frame_size[c] \/ \E i \in H : OverCaller(i, c) = dist[c]
    BY <1>8, <1>10, <2>1 DEF DeepestSoFar
  <2>3. \A i \in H : i \in G /\ i # q /\ OverCaller(i, c)' = OverCaller(i, c)
    <3>1. \A i \in H : i \in 1 .. k /\ i <= q /\ i < q + 1 /\ i # q /\ <<o[i], c>> \in edges
      BY <1>3
    <3>2. \A i \in H : dist'[o[i]] = dist[o[i]]
      BY <1>9, <1>10, <3>1
    <3>. QED BY <1>1, <3>1, <3>2 DEF OverCaller
  <2>4. \A i \in H : OverCaller(i, c) \in Nat
    <3>1. \A i \in H : o[i] \in Nodes
      BY <1>2, <1>3
    <3>2. \A i \in H : dist[o[i]] \in Nat
      BY <1>4, <3>1
    <3>3. frame_size[c] \in Nat
      BY <1>2, <1>10
    <3>. HIDE DEF H
    <3>. QED BY <3>2, <3>3 DEF OverCaller
  <2>5. OverCaller(q, c)' = Via(c)
    <3>1. dist'[o[q]] = dist[o[q]]
      BY <1>9, <1>10
    <3>. QED BY <1>1, <3>1 DEF OverCaller
  <2>6. CASE <<n, c>> \notin edges
    <3>1. G = H
      BY <1>3, <2>6
    <3>2. dist'[c] = dist[c]
      BY <1>4, <2>6
    <3>. HIDE DEF H, G, o, k, p, n, Via
    <3>3. \A i \in G : OverCaller(i, c)' <= dist'[c]
      BY <2>2, <2>3, <3>1, <3>2
    <3>4. dist'[c] = frame_size[c] \/ \E i \in G : OverCaller(i, c)' = dist'[c]
      BY <2>2, <2>3, <3>1, <3>2
    <3>. QED BY <1>1, <2>1, <2>2, <3>2, <3>3, <3>4 DEF DeepestSoFar
  <2>7. CASE <<n, c>> \in edges
    <3>1. q \in G /\ \A i \in G : i \in H \/ i = q
      BY <1>3, <2>7
    <3>2. /\ dist'[c] \in {dist[c], Via(c)} /\ dist[c] <= dist'[c] /\ Via(c) <= dist'[c]
          /\ dist[c] \in Nat /\ frame_size[c] \in Nat /\ dist'[c] \in Nat
      BY <1>4, <2>7
    <3>. HIDE DEF H, G, o, k, p, n, Via
    <3>3. ASSUME NEW i \in G PROVE OverCaller(i, c)' <= dist'[c]
      <4>1. CASE i = q
        BY <2>5, <3>2, <4>1
      <4>2. CASE i \in H
        <5>1. OverCaller(i, c)' = OverCaller(i, c) /\ OverCaller(i, c) \in Nat
              /\ OverCaller(i, c) <= dist[c]
          BY <2>2, <2>3, <2>4, <4>2
        <5>. QED BY <3>2, <5>1
      <4>. QED BY <3>1, <4>1, <4>2
    <3>4. dist'[c] = frame_size[c] \/ \E i \in G : OverCaller(i, c)' = dist'[c]
      <4>1. CASE dist'[c] = Via(c)
        BY <2>5, <3>1, <4>1
      <4>2. CASE dist'[c] = dist[c]
        BY <2>2, <2>3, <4>2
      <4>. QED BY <3>2, <4>1, <4>2
    <3>5. frame_size[c] <= dist'[c]
      BY <2>2, <3>2
    <3>. QED BY <1>1, <2>1, <3>3, <3>4, <3>5 DEF DeepestSoFar
  <2>. QED BY <2>6, <2>7
<1>11. RelaxInv'
  BY <1>1, <1>3, <1>8, <1>10 DEF RelaxInv, CallersFirst
<1>. QED BY <1>6, <1>7, <1>11 DEF CInv

LEMMA EndRelaxKeeps == CInv /\ EndRelax => CInv'
<1>. SUFFICES ASSUME CInv, EndRelax PROVE CInv'
  OBVIOUS
<1>1. /\ phase = "relax" /\ phase' = "first_pass" /\ position > Len(topological_order)
      /\ UNCHANGED <<edges, frame_size, dist, position, col, unexplored, path,
                     topological_order, loop_found>>
  BY DEF EndRelax, searchVars
<1>2. Typed'
  BY <1>1 DEF CInv, Typed, Phases
<1>3. \A c \in Nodes : DeepestSoFar(c)' = DeepestSoFar(c)
  BY <1>1 DEF DeepestSoFar, Handled, OverCaller
<1>4. RelaxInv'
  BY <1>1, <1>3 DEF CInv, RelaxInv, CallersFirst
<1>5. SearchInv' /\ LoopInv'
  BY <1>1 DEF CInv, SearchInv, LoopInv
<1>. QED BY <1>2, <1>4, <1>5 DEF CInv

(* The passes over the roots disturb nothing that has been established. *)
LEMMA PassesKeep == CInv /\ (FirstPass \/ SecondPass \/ KernelPass) => CInv'
<1>. SUFFICES ASSUME CInv, FirstPass \/ SecondPass \/ KernelPass PROVE CInv'
  OBVIOUS
<1>1. /\ phase \in {"first_pass", "second_pass", "kernel"}
      /\ phase' \in {"second_pass", "kernel", "done", "crashed"}
      /\ UNCHANGED <<edges, dist, position, col, unexplored, path,
                     topological_order, loop_found>>
  BY DEF FirstPass, SecondPass, KernelPass, Pass, searchVars
<1>2. Typed'
  BY <1>1 DEF CInv, Typed, Phases
<1>3. SearchInv' /\ LoopInv' /\ RelaxInv'
  BY <1>1 DEF CInv, SearchInv, LoopInv, RelaxInv
<1>. QED BY <1>2, <1>3 DEF CInv

LEMMA CInvNext == CInv /\ [Next]_vars => CInv'
<1>. SUFFICES ASSUME CInv, [Next]_vars PROVE CInv'
  OBVIOUS
<1>1. CASE UNCHANGED vars
  <2>1. UNCHANGED <<edges, frame_size, dist, col, unexplored, path, topological_order,
                    loop_found, position, phase>>
    BY <1>1 DEF vars
  <2>2. \A c \in Nodes : DeepestSoFar(c)' = DeepestSoFar(c)
    BY <2>1 DEF DeepestSoFar, Handled, OverCaller
  <2>3. Typed' /\ LoopInv'
    BY <2>1 DEF CInv, Typed, LoopInv
  <2>4. SearchInv'
    BY <2>1 DEF CInv, SearchInv, PathOfEdges, ListsBlack, Explored, CalleesListed
  <2>5. RelaxInv'
    BY <2>1, <2>2 DEF CInv, RelaxInv, CallersFirst
  <2>. QED BY <2>3, <2>4, <2>5 DEF CInv
<1>. QED
  BY <1>1, StartSearchKeeps, VisitChildKeeps, LeaveNodeKeeps, ReverseOrderKeeps,
     RelaxKeeps, EndRelaxKeeps, PassesKeep DEF Next

(* The search, the loop and the distances stay as the invariant says.      *)
THEOREM CInvAlways == Spec => []CInv
  BY CInvInit, CInvNext, PTL DEF Spec

-----------------------------------------------------------------------------
(* The tool reports a loop just when some method can call itself, for any  *)
(* call graph and any order in which the nodes and children are visited,   *)
(* and it recurses for ever (phase crashed) only after it has reported one.*)

(* A pass that does not end has a cycle below its roots. *)
CrashReported == phase = "crashed" => loop_found

LEMMA CrashOnlyCyclic ==
  CInv /\ [Next]_vars /\ CrashReported => CrashReported'
<1>. SUFFICES ASSUME CInv, [Next]_vars, phase = "crashed" => loop_found, phase' = "crashed"
              PROVE  loop_found'
  BY DEF CrashReported
<1>1. CASE UNCHANGED vars
  BY <1>1 DEF vars
<1>2. CASE StartSearch \/ VisitChild \/ LeaveNode
  <2>1. phase = "search" /\ phase' = phase
    BY <1>2 DEF StartSearch, VisitChild, LeaveNode, Follows
  <2>. QED BY <2>1
<1>3. CASE ReverseOrder \/ Relax \/ EndRelax
  BY <1>3 DEF ReverseOrder, Relax, EndRelax
<1>4. CASE FirstPass \/ SecondPass \/ KernelPass
  <2>1. PICK S : Cyclic(edges, S)
    BY <1>4 DEF FirstPass, SecondPass, KernelPass, Pass
  <2>2. Cyclic(edges, Nodes)
    BY <2>1, CyclicEverywhere
  <2>3. phase # "search" /\ loop_found' = loop_found
    BY <1>4 DEF FirstPass, SecondPass, KernelPass, Pass, searchVars
  <2>. QED BY <2>2, <2>3 DEF CInv, LoopInv, Typed
<1>. QED BY <1>1, <1>2, <1>3, <1>4 DEF Next

THEOREM LoopReported == Spec => []LoopFoundIffCyclic
<1>1. Init => CrashReported
  BY DEF Init, CrashReported
<1>2. CInv /\ CrashReported => LoopFoundIffCyclic
  <2>1. Cyclic(edges, Nodes) \in BOOLEAN
    BY DEF Cyclic
  <2>. QED BY <2>1 DEF CInv, LoopInv, Typed, LoopFoundIffCyclic, CrashReported
<1>. QED BY <1>1, <1>2, CInvAlways, CrashOnlyCyclic, PTL DEF Spec

(* Without a loop every method comes before those it calls, and at the end *)
(* of the relaxation its distance is its frame on top of its deepest       *)
(* caller, for any call graph and any frame sizes.                         *)
LEMMA DeepestAtEnd ==
  ASSUME CInv, phase = "first_pass", ~loop_found, NEW n \in Nodes
  PROVE  dist[n] = frame_size[n] + Max({0} \cup {dist[e[1]] : e \in {f \in edges : f[2] = n}})
<1>. DEFINE o == topological_order
            k == Len(topological_order)
            C == {f \in edges : f[2] = n}
            D == {0} \cup {dist[e[1]] : e \in C}
            v == dist[n] - frame_size[n]
<1>1. /\ edges \in CallGraphs /\ o \in Seq(Nodes) /\ position \in Nat
      /\ frame_size \in [Nodes -> Nat] /\ dist \in [Nodes -> Nat]
  BY DEF CInv, Typed
<1>2. k \in Nat /\ DOMAIN o = 1 .. k /\ position > k
  BY <1>1 DEF CInv, RelaxInv
<1>3. DeepestSoFar(n) /\ \A m \in Nodes : \E i \in 1 .. k : o[i] = m
  BY <1>2 DEF CInv, RelaxInv
<1>4. Handled(n) = {i \in 1 .. k : <<o[i], n>> \in edges}
  BY <1>1, <1>2 DEF Handled
<1>5. /\ dist[n] \in Nat /\ frame_size[n] \in Nat
      /\ \A m \in Nodes : dist[m] \in Nat
  BY <1>1
<1>6. \A e \in C : e = <<e[1], n>> /\ e[1] \in Nodes
  BY <1>1, EdgesOfNodes
<1>7. D \subseteq Int
  BY <1>5, <1>6
<1>8. v \in Int /\ v >= 0
  BY <1>3, <1>5 DEF DeepestSoFar
<1>9. ASSUME NEW e \in C PROVE dist[e[1]] <= v
  <2>1. PICK i \in 1 .. k : o[i] = e[1]
    BY <1>3, <1>6
  <2>2. i \in Handled(n)
    BY <1>4, <1>6, <2>1
  <2>3. dist[e[1]] + frame_size[n] <= dist[n]
    BY <1>3, <2>1, <2>2 DEF DeepestSoFar, OverCaller
  <2>. QED BY <1>5, <1>6, <2>3
<1>10. v \in D
  <2>1. CASE dist[n] = frame_size[n]
    BY <1>5, <2>1
  <2>2. ASSUME NEW i \in Handled(n), OverCaller(i, n) = dist[n] PROVE v \in D
    <3>1. o[i] \in Nodes /\ <<o[i], n>> \in C
      BY <1>1, <1>2, <1>4
    <3>2. dist[o[i]] = v
      BY <1>5, <2>2, <3>1 DEF OverCaller
    <3>3. dist[o[i]] \in D
      BY <3>1
    <3>. QED BY <3>2, <3>3
  <2>. QED BY <1>3, <2>1, <2>2 DEF DeepestSoFar
<1>11. \A x \in D : x <= v
  BY <1>8, <1>9
<1>12. Max(D) = v
  <2>. HIDE DEF D, v
  <2>. QED BY <1>7, <1>10, <1>11, MaxIs
<1>13. frame_size[n] + v = dist[n]
  BY <1>5
<1>. QED BY <1>12, <1>13

THEOREM DistancesAreDeepest == Spec => []DistIsDeepest
<1>1. CInv => DistIsDeepest
  <2>. SUFFICES ASSUME CInv, phase = "first_pass", ~loop_found
                PROVE  CallersFirst /\ \A n \in Nodes :
                         dist[n] = frame_size[n]
                           + Max({0} \cup {dist[e[1]] : e \in {f \in edges : f[2] = n}})
    BY DEF DistIsDeepest
  <2>1. CallersFirst
    BY DEF CInv, RelaxInv
  <2>. QED BY <2>1, DeepestAtEnd
<1>. QED BY <1>1, CInvAlways, PTL

-----------------------------------------------------------------------------
(* The recursion of get_subtree_depth.                                     *)

(* A finite set of numbers has its maximum as an element. *)
LEMMA MaxOfFinite ==
  ASSUME NEW S, S \subseteq Nat, S # {}, IsFiniteSet(S)
  PROVE  Max(S) \in S /\ \A x \in S : x <= Max(S)
<1>. DEFINE Bounds == {b \in Nat : \A x \in S : x <= b}
<1>1. Bounds # {}
  <2>. DEFINE Above(n) == {x \in S : n <= x}
              Sizes == {Cardinality(Above(n)) : n \in Nat}
  <2>1. ASSUME NEW n \in Nat
        PROVE  IsFiniteSet(Above(n)) /\ Cardinality(Above(n)) \in Nat
    <3>1. Above(n) \in SUBSET S
      OBVIOUS
    <3>. HIDE DEF Above
    <3>2. IsFiniteSet(Above(n))
      BY <3>1, FS_Subset
    <3>. QED BY <3>2, FS_CardinalityType
  <2>2. Sizes \subseteq Nat /\ Sizes # {}
    <3>1. Cardinality(Above(0)) \in Sizes
      OBVIOUS
    <3>. HIDE DEF Above
    <3>. QED BY <2>1, <3>1
  <2>3. PICK least \in Sizes : \A m \in Sizes : least <= m
    <3>. HIDE DEF Sizes
    <3>. QED BY <2>2, LeastNumber
  <2>4. PICK n \in Nat : least = Cardinality(Above(n))
    OBVIOUS
  <2>5. ASSUME NEW x \in Above(n) PROVE FALSE
    <3>1. x \in Nat /\ n <= x
      OBVIOUS
    <3>2. x + 1 \in Nat /\ x \notin Above(x + 1)
      BY <3>1
    <3>3. ASSUME NEW y \in Above(x + 1) PROVE y \in Above(n) \ {x}
      <4>1. y \in S /\ y \in Nat /\ x + 1 <= y
        OBVIOUS
      <4>2. n <= y /\ y # x
        BY <3>1, <4>1
      <4>. QED BY <4>1, <4>2
    <3>4. Cardinality(Above(x + 1)) \in Sizes
      BY <3>2
    <3>. HIDE DEF Above, Sizes
    <3>5. /\ IsFiniteSet(Above(n) \ {x})
          /\ Cardinality(Above(n) \ {x}) = Cardinality(Above(n)) - 1
      BY <2>1, <2>5, FS_RemoveElement
    <3>6. Cardinality(Above(x + 1)) <= Cardinality(Above(n) \ {x})
      <4>1. Above(x + 1) \in SUBSET (Above(n) \ {x})
        BY <3>3
      <4>. QED BY <3>5, <4>1, FS_Subset
    <3>. QED BY <2>1, <2>3, <2>4, <3>2, <3>4, <3>5, <3>6
  <2>6. \A x \in S : x <= n
    BY <2>5
  <2>. QED BY <2>6
<1>2. PICK b \in Bounds : \A m \in Bounds : b <= m
  <2>1. Bounds \subseteq Nat
    OBVIOUS
  <2>. HIDE DEF Bounds
  <2>. QED BY <1>1, <2>1, LeastNumber
<1>3. b \in Nat /\ \A x \in S : x <= b
  OBVIOUS
<1>4. b \in S
  <2>1. CASE b = 0
    <3>1. PICK x \in S : TRUE
      OBVIOUS
    <3>2. x \in Nat /\ x <= 0
      BY <1>3, <2>1
    <3>3. x = 0
      BY <3>2
    <3>. QED BY <2>1, <3>3
  <2>2. CASE b > 0
    <3>1. b - 1 \in Nat /\ b - 1 \notin Bounds
      BY <1>2, <1>3, <2>2
    <3>2. PICK x \in S : ~(x <= b - 1)
      BY <3>1
    <3>3. x = b
      <4>1. x \in Nat /\ b \in Nat /\ x <= b
        BY <1>3
      <4>. QED BY <3>2, <4>1
    <3>. QED BY <3>3
  <2>. QED BY <1>3, <2>1, <2>2
<1>5. Max(S) = b
  <2>1. S \subseteq Int
    OBVIOUS
  <2>. HIDE DEF Bounds
  <2>. QED BY <1>3, <1>4, <2>1, MaxIs
<1>. QED BY <1>3, <1>4, <1>5

(* A finite set of pairs shows finitely many values of a function. *)
Values(g, C) == {g[e[2]] : e \in C}

LEMMA ValuesFinite ==
  ASSUME NEW R, IsFiniteSet(R), NEW g \in [R -> Nat],
         NEW C, \A e \in C : e[2] \in R
  PROVE  IsFiniteSet(Values(g, C)) /\ Values(g, C) \subseteq Nat
<1>. DEFINE Image == {g[x] : x \in R}
            h == [x \in R |-> g[x]]
<1>1. h \in Surjection(R, Image)
  BY DEF Surjection
<1>2. IsFiniteSet(Image)
  <2>. HIDE DEF h, Image
  <2>. QED BY <1>1, FS_Surjection
<1>3. Values(g, C) \in SUBSET Image /\ Values(g, C) \subseteq Nat
  BY DEF Values
<1>. HIDE DEF Image
<1>. QED BY <1>2, <1>3, FS_Subset

(* The recursion of get_subtree_depth, one call of it and a solution. *)
From(calls, m) == {f \in calls : f[1] = m}
OneDeeper(calls, sizes, g, m) == sizes[m] + Max({0} \cup Values(g, From(calls, m)))
Solves(calls, sizes, R, g) == g = [m \in R |-> OneDeeper(calls, sizes, g, m)]

LEMMA SubtreeDepthUnfolds ==
  ASSUME NEW calls, NEW sizes, NEW n
  PROVE  SubtreeDepth(calls, sizes, n) =
           (CHOOSE g : Solves(calls, sizes, Reach(calls, {n}), g))[n]
  BY DEF SubtreeDepth, Solves, OneDeeper, Values, From

(* A node is one frame deeper than the deepest that it calls. *)
LEMMA OneDeeperIs ==
  ASSUME NEW calls, NEW sizes, NEW m, sizes[m] \in Nat,
         NEW R, IsFiniteSet(R), NEW g \in [R -> Nat],
         \A e \in From(calls, m) : e[2] \in R
  PROVE  /\ OneDeeper(calls, sizes, g, m) \in Nat
         /\ sizes[m] <= OneDeeper(calls, sizes, g, m)
         /\ \A e \in From(calls, m) : sizes[m] + g[e[2]] <= OneDeeper(calls, sizes, g, m)
         /\ \/ OneDeeper(calls, sizes, g, m) = sizes[m]
            \/ \E e \in From(calls, m) : OneDeeper(calls, sizes, g, m) = sizes[m] + g[e[2]]
<1>. DEFINE V == Values(g, From(calls, m))
            D == {0} \cup V
<1>1. IsFiniteSet(V) /\ V \subseteq Nat
  BY ValuesFinite
<1>2. D \subseteq Nat /\ D # {} /\ IsFiniteSet(D)
  <2>. HIDE DEF V
  <2>1. IsFiniteSet({0})
    BY FS_Singleton
  <2>2. IsFiniteSet({0} \cup V)
    <3>. HIDE DEF D
    <3>. QED BY <1>1, <2>1, FS_Union
  <2>. QED BY <1>1, <2>2
<1>3. Max(D) \in D /\ \A x \in D : x <= Max(D)
  <2>. HIDE DEF D
  <2>. QED BY <1>2, MaxOfFinite
<1>4. Max(D) \in Nat
  BY <1>2, <1>3
<1>5. OneDeeper(calls, sizes, g, m) = sizes[m] + Max(D)
  BY DEF OneDeeper
<1>6. ASSUME NEW e \in From(calls, m)
      PROVE  sizes[m] + g[e[2]] <= OneDeeper(calls, sizes, g, m)
  <2>1. g[e[2]] \in D
    BY DEF Values
  <2>2. g[e[2]] <= Max(D) /\ g[e[2]] \in Nat
    BY <1>2, <1>3, <2>1
  <2>. HIDE DEF D
  <2>. QED BY <1>4, <1>5, <2>2
<1>7. \/ OneDeeper(calls, sizes, g, m) = sizes[m]
      \/ \E e \in From(calls, m) : OneDeeper(calls, sizes, g, m) = sizes[m] + g[e[2]]
  <2>1. CASE Max(D) = 0
    <3>. HIDE DEF D
    <3>. QED BY <1>5, <2>1
  <2>2. CASE Max(D) \in V
    <3>1. PICK e \in From(calls, m) : Max(D) = g[e[2]]
      BY <2>2 DEF Values
    <3>. HIDE DEF D
    <3>. QED BY <1>5, <3>1
  <2>. QED BY <1>3, <2>1, <2>2
<1>8. /\ OneDeeper(calls, sizes, g, m) \in Nat
      /\ sizes[m] <= OneDeeper(calls, sizes, g, m)
  <2>. HIDE DEF D
  <2>. QED BY <1>4, <1>5
<1>. QED BY <1>6, <1>7, <1>8

(* Only what the nodes called from a node have counts for its depth. *)
LEMMA OneDeeperAgrees ==
  ASSUME NEW calls, NEW sizes, NEW m, NEW g, NEW h,
         \A e \in From(calls, m) : g[e[2]] = h[e[2]]
  PROVE  OneDeeper(calls, sizes, g, m) = OneDeeper(calls, sizes, h, m)
<1>1. Values(g, From(calls, m)) = Values(h, From(calls, m))
  BY DEF Values
<1>. QED BY <1>1 DEF OneDeeper

-----------------------------------------------------------------------------
(* Without a cycle the recursion has one solution.                         *)

Graph(calls) == calls \subseteq Nodes \X Nodes
NoCycles(calls) == \A T \in SUBSET Nodes : ~Endless(calls, T)

LEMMA GraphEdges ==
  ASSUME NEW calls, Graph(calls), NEW e \in calls
  PROVE  e = <<e[1], e[2]>> /\ e[1] \in Nodes /\ e[2] \in Nodes
  BY DEF Graph

(* Where there is no cycle, some node calls none of the others. *)
LEMMA SomeLeaf ==
  ASSUME NEW calls, NoCycles(calls), NEW T, T \subseteq Nodes, T # {}
  PROVE  \E n \in T : \A e \in From(calls, n) : e[2] \notin T
  BY DEF NoCycles, Endless, From

LEMMA OneSolution ==
  ASSUME NEW calls, NoCycles(calls), NEW sizes,
         NEW R, R \subseteq Nodes, Closed(calls, R),
         NEW g, Solves(calls, sizes, R, g), NEW h, Solves(calls, sizes, R, h)
  PROVE  g = h
<1>. DEFINE D == {m \in R : g[m] # h[m]}
<1>1. ASSUME D # {} PROVE FALSE
  <2>1. D \subseteq Nodes
    OBVIOUS
  <2>2. PICK n \in D : \A e \in From(calls, n) : e[2] \notin D
    <3>. HIDE DEF D
    <3>. QED BY <1>1, <2>1, SomeLeaf
  <2>3. \A e \in From(calls, n) : e[2] \in R
    BY DEF From, Closed
  <2>4. \A e \in From(calls, n) : g[e[2]] = h[e[2]]
    BY <2>2, <2>3
  <2>5. OneDeeper(calls, sizes, g, n) = OneDeeper(calls, sizes, h, n)
    BY <2>4, OneDeeperAgrees
  <2>6. g[n] = OneDeeper(calls, sizes, g, n) /\ h[n] = OneDeeper(calls, sizes, h, n)
    BY DEF Solves
  <2>. QED BY <2>5, <2>6
<1>2. \A m \in R : g[m] = h[m]
  BY <1>1
<1>3. g = [m \in R |-> g[m]] /\ h = [m \in R |-> h[m]]
  BY DEF Solves
<1>. QED BY <1>2, <1>3

(* A solution on some nodes extends to one more that calls only these. *)
LEMMA SolutionExtends ==
  ASSUME NEW calls, NEW sizes \in [Nodes -> Nat],
         NEW R, R \subseteq Nodes, Closed(calls, R), IsFiniteSet(R),
         NEW g \in [R -> Nat], Solves(calls, sizes, R, g),
         NEW n \in Nodes \ R, \A e \in From(calls, n) : e[2] \in R
  PROVE  /\ Closed(calls, R \cup {n})
         /\ \E h \in [R \cup {n} -> Nat] : Solves(calls, sizes, R \cup {n}, h)
<1>. DEFINE h == [m \in R \cup {n} |->
                    IF m = n THEN OneDeeper(calls, sizes, g, n) ELSE g[m]]
<1>1. Closed(calls, R \cup {n})
  BY DEF Closed, From
<1>2. sizes[n] \in Nat
  OBVIOUS
<1>3. OneDeeper(calls, sizes, g, n) \in Nat
  BY <1>2, OneDeeperIs
<1>4. h \in [R \cup {n} -> Nat]
  BY <1>3
<1>5. \A m \in R : h[m] = g[m]
  OBVIOUS
<1>6. h[n] = OneDeeper(calls, sizes, g, n)
  OBVIOUS
<1>. HIDE DEF h
<1>7. ASSUME NEW m \in R \cup {n} PROVE h[m] = OneDeeper(calls, sizes, h, m)
  <2>1. \A e \in From(calls, m) : e[2] \in R
    BY DEF From, Closed
  <2>2. OneDeeper(calls, sizes, h, m) = OneDeeper(calls, sizes, g, m)
    BY <1>5, <2>1, OneDeeperAgrees
  <2>3. CASE m = n
    BY <1>6, <2>2, <2>3
  <2>4. CASE m \in R
    <3>1. g[m] = OneDeeper(calls, sizes, g, m)
      BY <2>4 DEF Solves
    <3>. QED BY <1>5, <2>2, <2>4, <3>1
  <2>. QED BY <2>3, <2>4
<1>8. Solves(calls, sizes, R \cup {n}, h)
  <2>1. h = [m \in R \cup {n} |-> h[m]]
    BY <1>4
  <2>. QED BY <1>7, <2>1 DEF Solves
<1>. QED BY <1>1, <1>4, <1>8

(* The closed sets of nodes on which the recursion is solved. *)
Solved(calls, sizes) ==
  {R \in SUBSET Nodes : Closed(calls, R) /\ \E g \in [R -> Nat] : Solves(calls, sizes, R, g)}

LEMMA NodesFinite == IsFiniteSet(Nodes)
  BY NodesAssumption, FS_AddElement DEF Nodes

LEMMA DepthsExist ==
  ASSUME NEW calls, Graph(calls), NoCycles(calls), NEW sizes \in [Nodes -> Nat]
  PROVE  \E g \in [Nodes -> Nat] : Solves(calls, sizes, Nodes, g)
<1>. DEFINE Left == {Cardinality(Nodes \ R) : R \in Solved(calls, sizes)}
<1>1. {} \in Solved(calls, sizes)
  <2>. DEFINE none == [m \in {} |-> OneDeeper(calls, sizes, <<>>, m)]
  <2>1. none \in [{} -> Nat] /\ Solves(calls, sizes, {}, none)
    BY DEF Solves
  <2>2. Closed(calls, {})
    BY DEF Closed
  <2>. HIDE DEF none
  <2>. QED BY <2>1, <2>2 DEF Solved
<1>2. ASSUME NEW R \in Solved(calls, sizes)
      PROVE  /\ IsFiniteSet(Nodes \ R) /\ Cardinality(Nodes \ R) \in Nat
             /\ R \subseteq Nodes /\ IsFiniteSet(R)
  <2>1. R \subseteq Nodes /\ (Nodes \ R) \in SUBSET Nodes
    BY DEF Solved
  <2>2. IsFiniteSet(Nodes \ R) /\ IsFiniteSet(R)
    BY <2>1, NodesFinite, FS_Subset
  <2>. QED BY <2>1, <2>2, FS_CardinalityType
<1>3. PICK least \in Left : \A m \in Left : least <= m
  <2>1. Left \subseteq Nat /\ Left # {}
    BY <1>1, <1>2
  <2>. HIDE DEF Left
  <2>. QED BY <2>1, LeastNumber
<1>4. PICK R \in Solved(calls, sizes) : least = Cardinality(Nodes \ R)
  OBVIOUS
<1>5. PICK g \in [R -> Nat] : Closed(calls, R) /\ Solves(calls, sizes, R, g)
  BY DEF Solved
<1>6. ASSUME R # Nodes PROVE FALSE
  <2>1. (Nodes \ R) \subseteq Nodes /\ (Nodes \ R) # {}
    BY <1>2, <1>6
  <2>2. PICK n \in Nodes \ R : \A e \in From(calls, n) : e[2] \notin (Nodes \ R)
    BY <2>1, SomeLeaf
  <2>3. \A e \in From(calls, n) : e[2] \in R
    BY <2>2, GraphEdges DEF From
  <2>4. (R \cup {n}) \in Solved(calls, sizes)
    BY <1>2, <1>5, <2>3, SolutionExtends DEF Solved
  <2>5. Cardinality(Nodes \ (R \cup {n})) \in Left
    BY <2>4
  <2>6. Nodes \ (R \cup {n}) = (Nodes \ R) \ {n}
    OBVIOUS
  <2>7. Cardinality((Nodes \ R) \ {n}) = Cardinality(Nodes \ R) - 1
    BY <1>2, FS_RemoveElement
  <2>8. least <= Cardinality(Nodes \ R) - 1 /\ Cardinality(Nodes \ R) \in Nat
    BY <1>2, <1>3, <2>5, <2>6, <2>7
  <2>. HIDE DEF Left
  <2>. QED BY <1>4, <2>8
<1>. QED BY <1>5, <1>6

(* The depths of all nodes, as get_subtree_depth returns them: a node's    *)
(* frame, on top of each of those that it calls, and no more.              *)
AreDepths(d, calls, sizes) ==
  /\ d \in [Nodes -> Nat]
  /\ \A m \in Nodes :
       /\ SubtreeDepth(calls, sizes, m) = d[m]
       /\ sizes[m] <= d[m]
       /\ \A e \in From(calls, m) : sizes[m] + d[e[2]] <= d[m]
       /\ d[m] = sizes[m] \/ \E e \in From(calls, m) : d[m] = sizes[m] + d[e[2]]

LEMMA ReachIs ==
  ASSUME NEW calls, Graph(calls), NEW S, S \subseteq Nodes
  PROVE  /\ S \subseteq Reach(calls, S) /\ Reach(calls, S) \subseteq Nodes
         /\ Closed(calls, Reach(calls, S))
<1>1. S \subseteq Reach(calls, S) /\ Reach(calls, S) \subseteq Nodes
  BY DEF Reach
<1>2. ASSUME NEW e \in calls, e[1] \in Reach(calls, S) PROVE e[2] \in Reach(calls, S)
  <2>1. e[2] \in Nodes
    BY GraphEdges
  <2>2. ASSUME NEW T \in SUBSET Nodes, S \subseteq T, Closed(calls, T) PROVE e[2] \in T
    <3>1. e[1] \in T
      BY <1>2, <2>2 DEF Reach
    <3>. QED BY <2>2, <3>1 DEF Closed
  <2>. QED BY <2>1, <2>2 DEF Reach
<1>. QED BY <1>1, <1>2 DEF Closed

LEMMA DepthsOf ==
  ASSUME NEW calls, Graph(calls), NoCycles(calls), NEW sizes \in [Nodes -> Nat]
  PROVE  \E d : AreDepths(d, calls, sizes)
<1>1. PICK d \in [Nodes -> Nat] : Solves(calls, sizes, Nodes, d)
  BY DepthsExist
<1>2. ASSUME NEW m \in Nodes PROVE SubtreeDepth(calls, sizes, m) = d[m]
  <2>. DEFINE R == Reach(calls, {m})
              g == [x \in R |-> d[x]]
  <2>1. m \in R /\ R \subseteq Nodes /\ Closed(calls, R)
    BY ReachIs
  <2>. HIDE DEF R
  <2>2. ASSUME NEW x \in R PROVE g[x] = OneDeeper(calls, sizes, g, x)
    <3>1. \A e \in From(calls, x) : d[e[2]] = g[e[2]]
      BY <2>1 DEF From, Closed
    <3>2. d[x] = OneDeeper(calls, sizes, d, x)
      BY <1>1, <2>1 DEF Solves
    <3>3. g[x] = d[x]
      OBVIOUS
    <3>. HIDE DEF g
    <3>. QED BY <3>1, <3>2, <3>3, OneDeeperAgrees
  <2>3. Solves(calls, sizes, R, g)
    <3>1. g = [x \in R |-> g[x]]
      OBVIOUS
    <3>. HIDE DEF g
    <3>. QED BY <2>2, <3>1 DEF Solves
  <2>4. g[m] = d[m]
    BY <2>1
  <2>. HIDE DEF g
  <2>. DEFINE h == CHOOSE f : Solves(calls, sizes, R, f)
  <2>5. Solves(calls, sizes, R, h)
    BY <2>3
  <2>6. SubtreeDepth(calls, sizes, m) = h[m]
    BY SubtreeDepthUnfolds DEF R
  <2>. HIDE DEF h
  <2>7. h = g
    BY <2>1, <2>3, <2>5, OneSolution
  <2>. QED BY <2>4, <2>6, <2>7
<1>3. ASSUME NEW m \in Nodes
      PROVE  /\ sizes[m] <= d[m]
             /\ \A e \in From(calls, m) : sizes[m] + d[e[2]] <= d[m]
             /\ d[m] = sizes[m] \/ \E e \in From(calls, m) : d[m] = sizes[m] + d[e[2]]
  <2>1. d[m] = OneDeeper(calls, sizes, d, m) /\ sizes[m] \in Nat
    BY <1>1 DEF Solves
  <2>2. \A e \in From(calls, m) : e[2] \in Nodes
    BY GraphEdges DEF From
  <2>. QED BY <2>1, <2>2, NodesFinite, OneDeeperIs
<1>4. AreDepths(d, calls, sizes)
  BY <1>2, <1>3 DEF AreDepths
<1>. QED BY <1>4

(* The deepest of some roots. *)
LEMMA DeepestIs ==
  ASSUME NEW calls, NEW sizes, NEW d, AreDepths(d, calls, sizes),
         NEW S, S \subseteq Nodes
  PROVE  /\ Deepest(calls, sizes, S) \in Nat
         /\ \A n \in S : d[n] <= Deepest(calls, sizes, S)
         /\ Deepest(calls, sizes, S) = 0 \/ \E n \in S : Deepest(calls, sizes, S) = d[n]
<1>. DEFINE V == {d[n] : n \in S}
            D == {0} \cup V
            h == [n \in S |-> d[n]]
<1>1. d \in [Nodes -> Nat] /\ \A n \in S : SubtreeDepth(calls, sizes, n) = d[n]
  BY DEF AreDepths
<1>2. IsFiniteSet(V)
  <2>1. h \in Surjection(S, V)
    BY DEF Surjection
  <2>2. IsFiniteSet(S)
    BY NodesFinite, FS_Subset
  <2>. HIDE DEF h, V
  <2>. QED BY <2>1, <2>2, FS_Surjection
<1>3. IsFiniteSet({0} \cup V)
  <2>1. IsFiniteSet({0})
    BY FS_Singleton
  <2>. HIDE DEF V
  <2>. QED BY <1>2, <2>1, FS_Union
<1>4. D \subseteq Nat /\ D # {}
  BY <1>1
<1>5. Deepest(calls, sizes, S) = Max(D)
  <2>1. {SubtreeDepth(calls, sizes, n) : n \in S} = V
    BY <1>1
  <2>. HIDE DEF V
  <2>. QED BY <2>1 DEF Deepest
<1>6. Max(D) \in D /\ \A x \in D : x <= Max(D)
  <2>1. IsFiniteSet(D)
    BY <1>3
  <2>. HIDE DEF D
  <2>. QED BY <1>4, <2>1, MaxOfFinite
<1>7. \A n \in S : d[n] <= Max(D)
  <2>1. \A n \in S : d[n] \in D
    OBVIOUS
  <2>. HIDE DEF D
  <2>. QED BY <1>6, <2>1
<1>8. Max(D) = 0 \/ \E n \in S : Max(D) = d[n]
  <2>1. \A x \in D : x = 0 \/ \E n \in S : x = d[n]
    OBVIOUS
  <2>. HIDE DEF D
  <2>. QED BY <1>6, <2>1
<1>. HIDE DEF D
<1>. QED BY <1>4, <1>5, <1>6, <1>7, <1>8

(* A bound that holds for a node as soon as it holds for those it calls    *)
(* holds everywhere.                                                       *)
LEMMA NoDeeper ==
  ASSUME NEW calls, NoCycles(calls), NEW sizes \in [Nodes -> Nat],
         NEW f, AreDepths(f, calls, sizes),
         NEW g \in [Nodes -> Nat], NEW A, A \subseteq Nodes,
         \A m \in A : sizes[m] <= g[m],
         Graph(calls),
         \A m \in A : \A e \in From(calls, m) :
           \/ e[2] \in A /\ sizes[m] + g[e[2]] <= g[m]
           \/ sizes[m] + f[e[2]] <= g[m]
  PROVE  \A m \in A : f[m] <= g[m]
<1>. DEFINE D == {m \in A : ~(f[m] <= g[m])}
<1>. SUFFICES ASSUME D # {} PROVE FALSE
  OBVIOUS
<1>1. D \subseteq Nodes
  OBVIOUS
<1>2. PICK n \in D : \A e \in From(calls, n) : e[2] \notin D
  <2>. HIDE DEF D
  <2>. QED BY <1>1, SomeLeaf
<1>3. /\ n \in A /\ n \in Nodes /\ ~(f[n] <= g[n])
      /\ f \in [Nodes -> Nat] /\ f[n] \in Nat /\ g[n] \in Nat /\ sizes[n] \in Nat
      /\ f[n] = sizes[n] \/ \E e \in From(calls, n) : f[n] = sizes[n] + f[e[2]]
  BY DEF AreDepths
<1>4. PICK e \in From(calls, n) : f[n] = sizes[n] + f[e[2]]
  BY <1>3
<1>5. e[2] \in Nodes /\ f[e[2]] \in Nat /\ g[e[2]] \in Nat
  BY <1>3, GraphEdges DEF From
<1>6. CASE e[2] \in A /\ sizes[n] + g[e[2]] <= g[n]
  <2>1. f[e[2]] <= g[e[2]]
    BY <1>2, <1>6
  <2>. QED BY <1>3, <1>4, <1>5, <1>6, <2>1
<1>7. CASE sizes[n] + f[e[2]] <= g[n]
  BY <1>3, <1>4, <1>7
<1>. QED BY <1>3, <1>6, <1>7

-----------------------------------------------------------------------------
(* What the passes establish.                                              *)

(* The frames with i for an indirect call, and the depths with them. *)
Framed(i) == [frame_size EXCEPT ![IndirectCall] = i]
DepthWith(i, m) == SubtreeDepth(edges, Framed(i), m)

FirstFits(stack) == \A m \in FirstListed : DepthWith(0, m) <= stack
DependentFit(first, stack) ==
  FirstFits(first) /\ \A m \in Dependent : DepthWith(first, m) <= stack

PassesFit ==
  /\ frame_size \in [Nodes -> Nat] /\ interrupt_stack \in Nat /\ kernel_stack \in Nat
  /\ phase \in {"search", "relax", "first_pass"} => frame_size[IndirectCall] = 0
  /\ phase \in {"second_pass", "kernel", "done"} =>
       frame_size[IndirectCall] = interrupt_stack
  /\ phase = "second_pass" => FirstFits(interrupt_stack)
  /\ phase \in {"kernel", "done"} =>
       \E first \in 0 .. interrupt_stack : DependentFit(first, interrupt_stack)
  /\ phase = "done" => DepthWith(interrupt_stack, Main) <= kernel_stack

PassInv == NoCycles(edges) => PassesFit

LEMMA GraphOfEdges == edges \in CallGraphs => Graph(edges)
<1>. SUFFICES ASSUME edges \in CallGraphs PROVE Graph(edges)
  OBVIOUS
<1>1. edges \subseteq Methods \X Nodes
  BY NodesAssumption
<1>. QED BY <1>1 DEF Graph, Nodes

LEMMA FramedIs ==
  ASSUME frame_size \in [Nodes -> Nat], NEW i \in Nat
  PROVE  /\ Framed(i) \in [Nodes -> Nat]
         /\ Framed(i)[IndirectCall] = i
         /\ \A m \in Methods : Framed(i)[m] = frame_size[m]
         /\ frame_size[IndirectCall] = i => Framed(i) = frame_size
<1>1. IndirectCall \in Nodes /\ IndirectCall \notin Methods /\ Methods \subseteq Nodes
  BY NodesAssumption DEF Nodes
<1>. QED BY <1>1 DEF Framed

LEMMA ListsOfNodes ==
  /\ Main \in Nodes /\ Dependent \subseteq Nodes
  /\ ToSet(Listed) \subseteq Methods /\ FirstListed \subseteq ToSet(Listed)
<1>1. Listed \in Seq(Methods) /\ Len(Listed) \in Nat /\ ListedSize \in 0 .. Len(Listed)
  BY NodesAssumption
<1>2. ToSet(Listed) \subseteq Methods
  BY <1>1 DEF ToSet
<1>3. /\ Len(SubSeq(Listed, 1, ListedSize)) = ListedSize
      /\ \A i \in 1 .. ListedSize : SubSeq(Listed, 1, ListedSize)[i] = Listed[i]
      /\ SubSeq(Listed, 1, ListedSize) \in Seq(Methods)
  BY <1>1, SubSeqProperties
<1>4. \A i \in 1 .. ListedSize : i \in DOMAIN Listed
  BY <1>1
<1>5. DOMAIN SubSeq(Listed, 1, ListedSize) = 1 .. ListedSize
  BY <1>3
<1>6. FirstListed \subseteq ToSet(Listed)
  BY <1>3, <1>4, <1>5 DEF FirstListed, ToSet
<1>. QED BY <1>2, <1>6, NodesAssumption DEF Nodes

(* A pass over some roots makes the result large enough for all of them. *)
Raised(stack, roots) == Max({stack, Deepest(edges, frame_size, roots)})

LEMMA RaisedIs ==
  ASSUME edges \in CallGraphs, NoCycles(edges), frame_size \in [Nodes -> Nat],
         NEW stack \in Nat, NEW roots, roots \subseteq Nodes
  PROVE  /\ Raised(stack, roots) \in Nat /\ stack <= Raised(stack, roots)
         /\ \A m \in roots : SubtreeDepth(edges, frame_size, m) <= Raised(stack, roots)
<1>1. PICK d : AreDepths(d, edges, frame_size)
  BY GraphOfEdges, DepthsOf
<1>2. /\ Deepest(edges, frame_size, roots) \in Nat
      /\ \A n \in roots : d[n] <= Deepest(edges, frame_size, roots)
  BY <1>1, DeepestIs
<1>3. /\ Raised(stack, roots) \in {stack, Deepest(edges, frame_size, roots)}
      /\ stack <= Raised(stack, roots)
      /\ Deepest(edges, frame_size, roots) <= Raised(stack, roots)
  BY <1>2, MaxOfTwo DEF Raised
<1>4. Raised(stack, roots) \in Nat
  BY <1>2, <1>3
<1>5. ASSUME NEW m \in roots
      PROVE  SubtreeDepth(edges, frame_size, m) <= Raised(stack, roots)
  <2>1. SubtreeDepth(edges, frame_size, m) = d[m] /\ d[m] \in Nat
    BY <1>1 DEF AreDepths
  <2>. QED BY <1>2, <1>3, <1>4, <2>1
<1>. QED BY <1>3, <1>4, <1>5

LEMMA AcyclicPasses == NoCycles(edges) => \A S : ~Cyclic(edges, S)
  BY CyclicEverywhere, CyclicIffEndless DEF NoCycles

LEMMA PassInvInit == Init => PassInv
<1>. SUFFICES ASSUME Init PROVE PassesFit
  BY DEF PassInv
<1>1. CInv
  BY CInvInit
<1>2. frame_size \in [Nodes -> Nat] /\ phase = "search"
  BY <1>1 DEF Init, CInv, Typed
<1>3. frame_size[IndirectCall] = 0
  BY NodesAssumption DEF Init, Nodes
<1>. QED BY <1>2, <1>3 DEF Init, PassesFit

LEMMA FirstPassFits ==
  ASSUME CInv, NoCycles(edges), PassesFit, FirstPass
  PROVE  PassesFit'
<1>1. /\ phase = "first_pass" /\ phase' = "second_pass"
      /\ interrupt_stack' = Raised(interrupt_stack, FirstListed)
      /\ frame_size' = Framed(interrupt_stack')
      /\ edges' = edges /\ kernel_stack' = kernel_stack
  BY AcyclicPasses DEF FirstPass, Pass, Raised, Framed
<1>2. /\ frame_size \in [Nodes -> Nat] /\ interrupt_stack \in Nat /\ kernel_stack \in Nat
      /\ frame_size[IndirectCall] = 0 /\ edges \in CallGraphs
  BY <1>1 DEF PassesFit, CInv, Typed
<1>3. FirstListed \subseteq Nodes
  BY ListsOfNodes DEF Nodes
<1>4. /\ interrupt_stack' \in Nat
      /\ \A m \in FirstListed : SubtreeDepth(edges, frame_size, m) <= interrupt_stack'
  BY <1>1, <1>2, <1>3, RaisedIs
<1>5. frame_size' \in [Nodes -> Nat] /\ frame_size'[IndirectCall] = interrupt_stack'
  BY <1>1, <1>2, <1>4, FramedIs
<1>6. Framed(0) = frame_size /\ Framed(0)' = Framed(0)
  BY <1>1, <1>2, FramedIs DEF Framed
<1>7. FirstFits(interrupt_stack)'
  BY <1>1, <1>4, <1>6 DEF FirstFits, DepthWith
<1>. QED BY <1>1, <1>2, <1>4, <1>5, <1>7 DEF PassesFit

(* The frame of an indirect call is set anew: the other frames stay. *)
LEMMA FramedStays ==
  ASSUME frame_size \in [Nodes -> Nat], NEW j, frame_size' = Framed(j)
  PROVE  \A i \in Nat : Framed(i)' = Framed(i)
  BY DEF Framed

LEMMA SecondPassFits ==
  ASSUME CInv, NoCycles(edges), PassesFit, SecondPass
  PROVE  PassesFit'
<1>1. /\ phase = "second_pass" /\ phase' = "kernel"
      /\ interrupt_stack' = Raised(interrupt_stack, Dependent)
      /\ frame_size' = Framed(interrupt_stack')
      /\ edges' = edges /\ kernel_stack' = kernel_stack
  BY AcyclicPasses DEF SecondPass, Pass, Raised, Framed
<1>2. /\ frame_size \in [Nodes -> Nat] /\ interrupt_stack \in Nat /\ kernel_stack \in Nat
      /\ frame_size[IndirectCall] = interrupt_stack /\ edges \in CallGraphs
      /\ FirstFits(interrupt_stack)
  BY <1>1 DEF PassesFit, CInv, Typed
<1>3. /\ interrupt_stack' \in Nat /\ interrupt_stack <= interrupt_stack'
      /\ \A m \in Dependent : SubtreeDepth(edges, frame_size, m) <= interrupt_stack'
  BY <1>1, <1>2, ListsOfNodes, RaisedIs
<1>4. frame_size' \in [Nodes -> Nat] /\ frame_size'[IndirectCall] = interrupt_stack'
  BY <1>1, <1>2, <1>3, FramedIs
<1>5. \A i \in Nat : Framed(i)' = Framed(i)
  BY <1>1, <1>2, FramedStays
<1>6. \A i \in Nat : \A m : SubtreeDepth(edges', Framed(i)', m) = DepthWith(i, m)
  BY <1>1, <1>5 DEF DepthWith
<1>7. PICK first \in 0 .. interrupt_stack' : first = interrupt_stack
  BY <1>2, <1>3
<1>8. Framed(first) = frame_size
  BY <1>2, <1>7, FramedIs
<1>9. \A m \in FirstListed : SubtreeDepth(edges', Framed(0)', m) <= first
  BY <1>2, <1>6, <1>7 DEF FirstFits
<1>10. \A m \in Dependent : SubtreeDepth(edges', Framed(first)', m) <= interrupt_stack'
  BY <1>2, <1>3, <1>6, <1>7, <1>8 DEF DepthWith
<1>11. \E i \in 0 .. interrupt_stack' : DependentFit(i, interrupt_stack)'
  BY <1>9, <1>10 DEF DependentFit, FirstFits, DepthWith
<1>. QED BY <1>1, <1>2, <1>3, <1>4, <1>11 DEF PassesFit

LEMMA KernelPassFits ==
  ASSUME CInv, NoCycles(edges), PassesFit, KernelPass
  PROVE  PassesFit'
<1>1. /\ phase = "kernel" /\ phase' = "done"
      /\ kernel_stack' = Raised(kernel_stack, {Main})
      /\ frame_size' = frame_size /\ edges' = edges /\ interrupt_stack' = interrupt_stack
  BY AcyclicPasses DEF KernelPass, Pass, Raised
<1>2. /\ frame_size \in [Nodes -> Nat] /\ interrupt_stack \in Nat /\ kernel_stack \in Nat
      /\ frame_size[IndirectCall] = interrupt_stack /\ edges \in CallGraphs
      /\ \E first \in 0 .. interrupt_stack : DependentFit(first, interrupt_stack)
  BY <1>1 DEF PassesFit, CInv, Typed
<1>3. {Main} \subseteq Nodes
  BY ListsOfNodes
<1>4. /\ kernel_stack' \in Nat
      /\ SubtreeDepth(edges, frame_size, Main) <= kernel_stack'
  BY <1>1, <1>2, <1>3, RaisedIs
<1>5. Framed(interrupt_stack) = frame_size
  BY <1>2, FramedIs
<1>6. \A i : Framed(i)' = Framed(i)
  BY <1>1 DEF Framed
<1>7. \A i, m : SubtreeDepth(edges', Framed(i)', m) = DepthWith(i, m)
  BY <1>1, <1>6 DEF DepthWith
<1>8. SubtreeDepth(edges', Framed(interrupt_stack)', Main) <= kernel_stack'
  BY <1>1, <1>4, <1>5, <1>6
<1>9. (DepthWith(interrupt_stack, Main) <= kernel_stack)'
  BY <1>8 DEF DepthWith
<1>10. PICK first \in 0 .. interrupt_stack : DependentFit(first, interrupt_stack)
  BY <1>2
<1>11. DependentFit(first, interrupt_stack)'
  BY <1>1, <1>7, <1>10 DEF DependentFit, FirstFits, DepthWith
<1>. QED BY <1>1, <1>2, <1>4, <1>9, <1>11 DEF PassesFit

LEMMA PassInvNext == CInv /\ PassInv /\ [Next]_vars => PassInv'
<1>. SUFFICES ASSUME CInv, PassInv, [Next]_vars PROVE PassInv'
  OBVIOUS
<1>1. edges' = edges
  BY DEF Next, vars, StartSearch, VisitChild, LeaveNode, ReverseOrder, Relax, EndRelax,
         FirstPass, SecondPass, KernelPass, Pass, SearchUnchanged
<1>. SUFFICES ASSUME NoCycles(edges) PROVE PassesFit'
  BY <1>1 DEF PassInv, NoCycles
<1>2. PassesFit
  BY DEF PassInv
<1>3. CASE UNCHANGED vars
  BY <1>2, <1>3
     DEF vars, PassesFit, DependentFit, FirstFits, DepthWith, Framed
<1>4. CASE StartSearch \/ VisitChild \/ LeaveNode \/ ReverseOrder \/ Relax \/ EndRelax
  <2>1. /\ phase \in {"search", "relax"} /\ phase' \in {"search", "relax", "first_pass"}
        /\ UNCHANGED <<frame_size, interrupt_stack, kernel_stack>>
    BY <1>4 DEF StartSearch, VisitChild, LeaveNode, Follows, ReverseOrder, Relax, EndRelax,
                SearchUnchanged, resultVars
  <2>. QED BY <1>2, <2>1 DEF PassesFit
<1>. QED BY <1>2, <1>3, <1>4, FirstPassFits, SecondPassFits, KernelPassFits DEF Next

-----------------------------------------------------------------------------
(* The results are enough.                                                 *)

LEMMA TrueCallsGraph == edges \in CallGraphs => Graph(TrueCalls)
<1>. SUFFICES ASSUME edges \in CallGraphs PROVE Graph(TrueCalls)
  OBVIOUS
<1>1. Graph(edges) /\ Methods \subseteq Nodes
  BY GraphOfEdges DEF Nodes
<1>. QED BY <1>1 DEF Graph, TrueCalls

(* An edge of the true calls is one of the graph or an indirect call; both *)
(* lead from a method to a method.                                         *)
LEMMA TrueCallIs ==
  ASSUME edges \in CallGraphs, NEW e \in TrueCalls
  PROVE  /\ e[1] \in Methods /\ e[2] \in Methods
         /\ \/ e \in edges
            \/ <<e[1], IndirectCall>> \in edges /\ e[2] \in IndirectTargets[e[1]]
<1>1. edges \subseteq Methods \X Nodes
  BY NodesAssumption
<1>. QED BY <1>1 DEF TrueCalls, Nodes

(* No method is called from __indirect_call, so a cycle of the graph is    *)
(* one of the true calls.                                                  *)
LEMMA TrueCycles ==
  ASSUME edges \in CallGraphs, ~Cyclic(TrueCalls, Nodes)
  PROVE  NoCycles(TrueCalls) /\ NoCycles(edges)
<1>1. Reach(TrueCalls, Nodes) = Nodes
  BY DEF Reach
<1>2. NoCycles(TrueCalls)
  BY <1>1 DEF NoCycles, Cyclic
<1>3. ASSUME NEW T \in SUBSET Nodes, Endless(edges, T) PROVE Endless(TrueCalls, T)
  <2>1. edges \subseteq Methods \X Nodes /\ IndirectCall \notin Methods
    BY NodesAssumption
  <2>2. IndirectCall \notin T
    BY <1>3, <2>1 DEF Endless
  <2>3. ASSUME NEW n \in T PROVE \E e \in TrueCalls : e[1] = n /\ e[2] \in T
    <3>1. PICK e \in edges : e[1] = n /\ e[2] \in T
      BY <1>3 DEF Endless
    <3>2. e \in TrueCalls
      BY <2>2, <3>1 DEF TrueCalls
    <3>. QED BY <3>1, <3>2
  <2>. QED BY <1>3, <2>3 DEF Endless
<1>4. NoCycles(edges)
  BY <1>2, <1>3 DEF NoCycles
<1>. QED BY <1>2, <1>4

(* Below the list there is no indirect call: its depths depend neither on  *)
(* the frame of one nor on what it runs.                                   *)
LEMMA ListedAlike ==
  ASSUME edges \in CallGraphs, frame_size \in [Nodes -> Nat], ListIndependent,
         NEW calls, Graph(calls), NoCycles(calls),
         NEW f, AreDepths(f, calls, frame_size),
         \A e \in calls : e \in edges \/ <<e[1], IndirectCall>> \in edges,
         NEW i \in Nat, NEW g, AreDepths(g, edges, Framed(i)),
         NEW m \in ToSet(Listed)
  PROVE  f[m] <= g[m]
<1>. DEFINE A == Reach(edges, ToSet(Listed))
<1>1. /\ ToSet(Listed) \subseteq A /\ A \subseteq Nodes /\ Closed(edges, A)
      /\ IndirectCall \notin A
  BY GraphOfEdges, ListsOfNodes, ReachIs DEF ListIndependent, Nodes
<1>. HIDE DEF A
<1>2. \A n \in A : Framed(i)[n] = frame_size[n]
  BY <1>1, FramedIs DEF Nodes
<1>3. g \in [Nodes -> Nat]
  BY DEF AreDepths
<1>4. ASSUME NEW n \in A
      PROVE  /\ frame_size[n] <= g[n]
             /\ \A e \in From(calls, n) : e[2] \in A /\ frame_size[n] + g[e[2]] <= g[n]
  <2>1. /\ Framed(i)[n] <= g[n]
        /\ \A e \in From(edges, n) : Framed(i)[n] + g[e[2]] <= g[n]
    BY <1>1 DEF AreDepths
  <2>2. ASSUME NEW e \in From(calls, n) PROVE e \in From(edges, n) /\ e[2] \in A
    <3>1. e[1] = n /\ e \in calls
      BY DEF From
    <3>2. <<n, IndirectCall>> \notin edges
      <4>1. ASSUME <<n, IndirectCall>> \in edges PROVE FALSE
        <5>1. PICK c \in edges : c[1] = n /\ c[2] = IndirectCall
          BY <4>1
        <5>. QED BY <1>1, <5>1 DEF Closed
      <4>. QED BY <4>1
    <3>3. e \in edges
      BY <3>1, <3>2
    <3>. QED BY <1>1, <3>1, <3>3 DEF Closed, From
  <2>. QED BY <1>2, <2>1, <2>2
<1>5. \A n \in A : f[n] <= g[n]
  BY <1>1, <1>3, <1>4, NoDeeper
<1>. QED BY <1>1, <1>5

(* With a frame for an indirect call that is enough for all methods it may *)
(* run, the depths of the graph are enough for the true calls.             *)
LEMMA IndirectFits ==
  ASSUME edges \in CallGraphs, frame_size \in [Nodes -> Nat], NoCycles(TrueCalls),
         NEW f, AreDepths(f, TrueCalls, frame_size),
         NEW i \in Nat, NEW g, AreDepths(g, edges, Framed(i)),
         NEW A, A \subseteq Methods, Closed(TrueCalls, A),
         \A n \in A : \A h \in IndirectTargets[n] : f[h] <= i
  PROVE  \A n \in A : f[n] <= g[n]
<1>1. A \subseteq Nodes /\ IndirectCall \in Nodes
  BY DEF Nodes
<1>2. /\ f \in [Nodes -> Nat] /\ g \in [Nodes -> Nat]
      /\ \A n \in A : Framed(i)[n] = frame_size[n]
      /\ Framed(i)[IndirectCall] = i
  BY FramedIs DEF AreDepths
<1>3. i <= g[IndirectCall] /\ g[IndirectCall] \in Nat
  BY <1>1, <1>2 DEF AreDepths
<1>4. ASSUME NEW n \in A
      PROVE  /\ frame_size[n] <= g[n]
             /\ \A e \in From(TrueCalls, n) :
                  \/ e[2] \in A /\ frame_size[n] + g[e[2]] <= g[n]
                  \/ frame_size[n] + f[e[2]] <= g[n]
  <2>1. /\ frame_size[n] <= g[n]
        /\ \A e \in From(edges, n) : frame_size[n] + g[e[2]] <= g[n]
    BY <1>1, <1>2 DEF AreDepths
  <2>2. ASSUME NEW e \in From(TrueCalls, n)
        PROVE  \/ e[2] \in A /\ frame_size[n] + g[e[2]] <= g[n]
               \/ frame_size[n] + f[e[2]] <= g[n]
    <3>1. e \in TrueCalls /\ e[1] = n
      BY DEF From
    <3>2. e[2] \in A /\ e[2] \in Nodes
      BY <1>1, <3>1 DEF Closed
    <3>3. CASE e \in edges
      <4>1. e \in From(edges, n)
        BY <3>1, <3>3 DEF From
      <4>. QED BY <2>1, <3>2, <4>1
    <3>4. CASE <<e[1], IndirectCall>> \in edges /\ e[2] \in IndirectTargets[e[1]]
      <4>1. PICK c \in From(edges, n) : c[2] = IndirectCall
        BY <3>1, <3>4 DEF From
      <4>2. frame_size[n] + g[IndirectCall] <= g[n]
        BY <2>1, <4>1
      <4>3. f[e[2]] <= i
        BY <3>1, <3>4
      <4>4. f[e[2]] \in Nat /\ g[n] \in Nat /\ frame_size[n] \in Nat
        BY <1>1, <1>2, <3>2
      <4>. QED BY <1>3, <4>2, <4>3, <4>4
    <3>. QED BY <3>1, <3>3, <3>4, TrueCallIs
  <2>. QED BY <2>1, <2>2
<1>. QED BY <1>1, <1>2, <1>4, TrueCallsGraph, NoDeeper

(* What StacksSuffice says at the end of a run. *)
Suffices ==
  /\ kernel_stack >= Deepest(TrueCalls, frame_size, {Main})
  /\ interrupt_stack >= Deepest(TrueCalls, frame_size, ToSet(Listed) \cup Dependent)

(* Listed methods fit the result; so do the indirect calls that the second *)
(* pass meets, in the frame that the first one left; and kernel_main's, in *)
(* the frame that the second one left.                                     *)
LEMMA CoveredSuffices ==
  ASSUME CInv, PassInv, phase = "done", ~Cyclic(TrueCalls, Nodes), ListIndependent,
         ListCovered
  PROVE  Suffices
<1>. DEFINE A == Methods \cap Reach(TrueCalls, Dependent)
<1>1. edges \in CallGraphs /\ Graph(edges) /\ Graph(TrueCalls)
  BY GraphOfEdges, TrueCallsGraph DEF CInv, Typed
<1>2. NoCycles(TrueCalls) /\ NoCycles(edges)
  BY <1>1, TrueCycles
<1>3. /\ frame_size \in [Nodes -> Nat] /\ interrupt_stack \in Nat /\ kernel_stack \in Nat
      /\ frame_size[IndirectCall] = interrupt_stack
      /\ DepthWith(interrupt_stack, Main) <= kernel_stack
  BY <1>2 DEF PassInv, PassesFit
<1>4. PICK first \in 0 .. interrupt_stack : DependentFit(first, interrupt_stack)
  BY <1>2 DEF PassInv, PassesFit
<1>5. first \in Nat /\ first <= interrupt_stack
  BY <1>3
<1>6. /\ Main \in Nodes /\ Main \in Methods /\ Dependent \subseteq Methods
      /\ ToSet(Listed) \subseteq Methods /\ FirstListed \subseteq ToSet(Listed)
      /\ Methods \subseteq Nodes
  BY ListsOfNodes, NodesAssumption DEF Nodes
<1>7. PICK f : AreDepths(f, TrueCalls, frame_size)
  BY <1>1, <1>2, <1>3, DepthsOf
<1>8. ASSUME NEW i \in Nat PROVE \E g : AreDepths(g, edges, Framed(i))
  BY <1>1, <1>2, <1>3, FramedIs, DepthsOf
<1>9. ASSUME NEW i \in Nat, NEW g, AreDepths(g, edges, Framed(i))
      PROVE  /\ \A m \in Nodes : DepthWith(i, m) = g[m]
             /\ \A m \in ToSet(Listed) : f[m] <= g[m]
  <2>1. \A e \in TrueCalls : e \in edges \/ <<e[1], IndirectCall>> \in edges
    BY <1>1, TrueCallIs
  <2>2. \A m \in ToSet(Listed) : f[m] <= g[m]
    BY <1>1, <1>2, <1>3, <1>7, <1>9, <2>1, ListedAlike
  <2>. QED BY <1>9, <2>2 DEF AreDepths, DepthWith
<1>10. PICK g0 : AreDepths(g0, edges, Framed(0))
  BY <1>8
<1>11. PICK g1 : AreDepths(g1, edges, Framed(first))
  BY <1>5, <1>8
<1>12. PICK g2 : AreDepths(g2, edges, Framed(interrupt_stack))
  BY <1>3, <1>8
<1>13. /\ \A m \in Nodes : f[m] \in Nat /\ g0[m] \in Nat /\ g1[m] \in Nat /\ g2[m] \in Nat
  BY <1>7, <1>10, <1>11, <1>12 DEF AreDepths
<1>14. \A m \in ToSet(Listed) : f[m] <= interrupt_stack
  <2>1. Framed(interrupt_stack) = frame_size
    BY <1>3, FramedIs
  <2>2. \A m \in ToSet(Listed) : DepthWith(interrupt_stack, m) <= interrupt_stack
    BY <2>1 DEF ListCovered, DepthWith
  <2>3. \A m \in ToSet(Listed) : g2[m] <= interrupt_stack /\ f[m] <= g2[m] /\ m \in Nodes
    BY <1>3, <1>6, <1>9, <1>12, <2>2
  <2>. QED BY <1>3, <1>13, <2>3
<1>15. \A m \in FirstListed : f[m] <= first
  <2>1. \A m \in FirstListed : g0[m] <= first /\ f[m] <= g0[m] /\ m \in Nodes
    BY <1>4, <1>6, <1>9, <1>10 DEF DependentFit, FirstFits
  <2>. QED BY <1>5, <1>13, <2>1
<1>16. \A m \in Dependent : f[m] <= interrupt_stack
  <2>1. /\ A \subseteq Methods /\ Closed(TrueCalls, A) /\ Dependent \subseteq A
    <3>1. /\ Dependent \subseteq Reach(TrueCalls, Dependent)
          /\ Closed(TrueCalls, Reach(TrueCalls, Dependent))
      BY <1>1, <1>6, ReachIs
    <3>2. \A e \in TrueCalls : e[2] \in Methods
      BY <1>1, TrueCallIs
    <3>. QED BY <1>6, <3>1, <3>2 DEF Closed
  <2>2. \A n \in A : \A h \in IndirectTargets[n] : f[h] <= first
    BY <1>15 DEF ListCovered
  <2>. HIDE DEF A
  <2>3. \A n \in A : f[n] <= g1[n]
    BY <1>1, <1>2, <1>3, <1>5, <1>7, <1>11, <2>1, <2>2, IndirectFits
  <2>4. \A m \in Dependent : g1[m] <= interrupt_stack /\ f[m] <= g1[m] /\ m \in Nodes
    BY <1>4, <1>5, <1>6, <1>9, <1>11, <2>1, <2>3 DEF DependentFit
  <2>. QED BY <1>3, <1>13, <2>4
<1>17. f[Main] <= kernel_stack
  <2>1. Closed(TrueCalls, Methods)
    BY <1>1, TrueCallIs DEF Closed
  <2>2. \A n \in Methods : IndirectTargets[n] \subseteq ToSet(Listed)
    BY NodesAssumption
  <2>3. \A n \in Methods : \A h \in IndirectTargets[n] : f[h] <= interrupt_stack
    BY <1>14, <2>2
  <2>4. \A n \in Methods : f[n] <= g2[n]
    BY <1>1, <1>2, <1>3, <1>7, <1>12, <2>1, <2>3, IndirectFits
  <2>5. g2[Main] <= kernel_stack
    BY <1>3, <1>6, <1>9, <1>12
  <2>. QED BY <1>3, <1>6, <1>13, <2>4, <2>5
<1>18. kernel_stack >= Deepest(TrueCalls, frame_size, {Main})
  <2>1. {Main} \subseteq Nodes
    BY <1>6
  <2>2. /\ Deepest(TrueCalls, frame_size, {Main}) \in Nat
        /\ \/ Deepest(TrueCalls, frame_size, {Main}) = 0
           \/ \E n \in {Main} : Deepest(TrueCalls, frame_size, {Main}) = f[n]
    BY <1>7, <2>1, DeepestIs
  <2>. QED BY <1>3, <1>17, <2>2
<1>19. interrupt_stack >= Deepest(TrueCalls, frame_size, ToSet(Listed) \cup Dependent)
  <2>. DEFINE S == ToSet(Listed) \cup Dependent
  <2>1. S \subseteq Nodes /\ \A n \in S : f[n] <= interrupt_stack
    BY <1>6, <1>14, <1>16
  <2>. HIDE DEF S
  <2>2. /\ Deepest(TrueCalls, frame_size, S) \in Nat
        /\ Deepest(TrueCalls, frame_size, S) = 0
             \/ \E n \in S : Deepest(TrueCalls, frame_size, S) = f[n]
    BY <1>7, <2>1, DeepestIs
  <2>3. interrupt_stack >= Deepest(TrueCalls, frame_size, S)
    BY <1>3, <2>1, <2>2
  <2>. QED BY <2>3 DEF S
<1>. QED BY <1>18, <1>19 DEF Suffices

(* The passes leave in the two results and in the frame of an indirect     *)
(* call what PassInv says.                                                 *)
THEOREM PassInvAlways == Spec => []PassInv
  BY PassInvInit, PassInvNext, CInvAlways, PTL DEF Spec

(* The two results are enough for every chain of calls, also through an    *)
(* indirect call (StacksSuffice), whenever the list that is cut off by     *)
(* undepended_interrupt_methods_size covers what matters.                  *)
THEOREM CoveredStacksSuffice == Spec => [](ListCovered => StacksSuffice)
<1>1. CInv /\ PassInv => (ListCovered => StacksSuffice)
  BY CoveredSuffices DEF StacksSuffice, Suffices
<1>. QED BY <1>1, CInvAlways, PassInvAlways, PTL
=============================================================================
