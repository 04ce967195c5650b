-------------------------- MODULE StackCalculator --------------------------
(***************************************************************************)
(* The host tool that sizes the two stacks (src/diagnostic_tools/          *)
(* stack_calculator.cpp).  The call graph has been read; the tool sorts it *)
(* topologically with a depth-first search in three colours, relaxes the   *)
(* distances along that order, and takes the deepest call path from the    *)
(* interrupt handlers and from kernel_main.  A step of the search is an    *)
(* edge or a return; the maps and vectors of C++ are functions and         *)
(* sequences, and the order of nodes and children is any.                  *)
(***************************************************************************)
EXTENDS Integers, SequencesExt

CONSTANTS
  Methods,        \* the functions of the kernel
  IndirectCall,   \* "__indirect_call", the callee of every indirect call
  Main,           \* kernel_main
  Listed,         \* undepended_interrupt_methods, the whole list in order
  ListedSize,     \* undepended_interrupt_methods_size
  Dependent,      \* depended_interrupt_methods
  IndirectTargets,\* the methods that a method may call indirectly
  FrameSizes,     \* assignments of frame sizes to the methods
  CallGraphs      \* sets of pairs <<caller, callee>>

Nodes == Methods \cup {IndirectCall}

ASSUME NodesAssumption ==
  /\ IsFiniteSet(Methods) /\ IndirectCall \notin Methods
  /\ Main \in Methods /\ Dependent \subseteq Methods
  /\ Listed \in Seq(Methods) /\ ListedSize \in 0 .. Len(Listed)
  /\ IndirectTargets \in [Methods -> SUBSET ToSet(Listed)]
  /\ FrameSizes \subseteq [Methods -> Nat]
  /\ \A g \in CallGraphs : g \subseteq Methods \X Nodes

VARIABLES
  edges,              \* the children of all nodes
  frame_size, dist, col,
  unexplored,         \* edges that the search has not followed
  path,               \* the nodes whose call of the search has not returned
  topological_order, loop_found,
  position,           \* of the node that is relaxed next
  interrupt_stack, kernel_stack,
  phase

vars == <<edges, frame_size, dist, col, unexplored, path, topological_order,
          loop_found, position, interrupt_stack, kernel_stack, phase>>
searchVars == <<col, unexplored, path, topological_order, loop_found>>
resultVars == <<interrupt_stack, kernel_stack>>

-----------------------------------------------------------------------------
Init ==
  /\ edges \in CallGraphs
  /\ \E sizes \in FrameSizes :
       frame_size = [n \in Nodes |-> IF n \in Methods THEN sizes[n] ELSE 0]
  /\ dist = frame_size
  /\ col = [n \in Nodes |-> "white"] /\ unexplored = edges /\ path = <<>>
  /\ topological_order = <<>> /\ loop_found = FALSE /\ position = 1
  /\ interrupt_stack = 0 /\ kernel_stack = 0
  /\ phase = "search"

SearchUnchanged ==
  UNCHANGED <<edges, frame_size, dist, position, resultVars>>

(* main calls the search for a white node. *)
StartSearch ==
  \E n \in Nodes :
    /\ phase = "search" /\ path = <<>> /\ col[n] = "white"
    /\ col' = [col EXCEPT ![n] = "gray"] /\ path' = <<n>>
    /\ UNCHANGED <<unexplored, topological_order, loop_found, phase>>
    /\ SearchUnchanged

Follows(e) == phase = "search" /\ path # <<>> /\ e \in unexplored /\ e[1] = Last(path)

(* Faulty variant: only a white child is looked at. *)
VisitChildIgnoringGray ==
  \E e \in unexplored :
    /\ Follows(e)
    /\ unexplored' = unexplored \ {e}
    /\ IF col[e[2]] = "white"
         THEN col' = [col EXCEPT ![e[2]] = "gray"] /\ path' = Append(path, e[2])
         ELSE UNCHANGED <<col, path>>
    /\ UNCHANGED <<topological_order, loop_found, phase>>
    /\ SearchUnchanged

(* A white child is searched, a black one passed over, and at a gray one   *)
(* every call of the search returns true and leaves its node gray.         *)
VisitChild ==
  \E e \in unexplored :
    /\ Follows(e)
    /\ unexplored' = unexplored \ {e}
    /\ \/ /\ col[e[2]] = "white"
          /\ col' = [col EXCEPT ![e[2]] = "gray"] /\ path' = Append(path, e[2])
          /\ UNCHANGED loop_found
       \/ col[e[2]] = "black" /\ UNCHANGED <<col, path, loop_found>>
       \/ col[e[2]] = "gray" /\ path' = <<>> /\ loop_found' = TRUE /\ UNCHANGED col
    /\ UNCHANGED <<topological_order, phase>>
    /\ SearchUnchanged

LeaveNode ==
  /\ phase = "search" /\ path # <<>> /\ \A e \in edges : ~Follows(e)
  /\ col' = [col EXCEPT ![Last(path)] = "black"]
  /\ topological_order' = Append(topological_order, Last(path))
  /\ path' = Front(path)
  /\ UNCHANGED <<unexplored, loop_found, phase>>
  /\ SearchUnchanged

(* std::reverse; a cycle is only reported. *)
ReverseOrder ==
  /\ phase = "search" /\ path = <<>> /\ \A n \in Nodes : col[n] # "white"
  /\ topological_order' = Reverse(topological_order) /\ phase' = "relax"
  /\ UNCHANGED <<col, unexplored, path, loop_found>>
  /\ SearchUnchanged

(* Faulty variant: the distance of the node is not added. *)
RelaxOwnFrame ==
  /\ phase = "relax" /\ position <= Len(topological_order)
  /\ LET n == topological_order[position]
     IN dist' = [c \in Nodes |->
          IF <<n, c>> \in edges THEN Max({dist[c], frame_size[n] + frame_size[c]})
          ELSE dist[c]]
  /\ position' = position + 1
  /\ UNCHANGED <<edges, frame_size, phase, searchVars, resultVars>>

Relax ==
  /\ phase = "relax" /\ position <= Len(topological_order)
  /\ LET n == topological_order[position]
     IN dist' = [c \in Nodes |->
          IF <<n, c>> \in edges THEN Max({dist[c], dist[n] + frame_size[c]})
          ELSE dist[c]]
  /\ position' = position + 1
  /\ UNCHANGED <<edges, frame_size, phase, searchVars, resultVars>>

EndRelax ==
  /\ phase = "relax" /\ position > Len(topological_order)
  /\ phase' = "first_pass"
  /\ UNCHANGED <<edges, frame_size, dist, position, searchVars, resultVars>>

-----------------------------------------------------------------------------
(* The nodes that are called from S, directly or not. *)
Closed(calls, T) == \A e \in calls : e[1] \in T => e[2] \in T
Reach(calls, S) ==
  {n \in Nodes : \A T \in SUBSET Nodes : S \subseteq T /\ Closed(calls, T) => n \in T}

(* Some of the methods that are called from S never return from a cycle.   *)
Endless(calls, T) == T # {} /\ \A n \in T : \E e \in calls : e[1] = n /\ e[2] \in T
Cyclic(calls, S) == \E T \in SUBSET Reach(calls, S) : Endless(calls, T)

(* get_subtree_depth, where the calls below n have no cycle. *)
SubtreeDepth(calls, sizes, n) ==
  LET depth[m \in Reach(calls, {n})] ==
        sizes[m] + Max({0} \cup {depth[e[2]] : e \in {f \in calls : f[1] = m}})
  IN  depth[n]

Deepest(calls, sizes, S) ==
  Max({0} \cup {SubtreeDepth(calls, sizes, n) : n \in S})

(* A pass over some roots; a cycle below them never ends the recursion,    *)
(* and the tool runs out of its own stack.                                 *)
Pass(from, to, roots, stack, sizes) ==
  /\ phase = from
  /\ IF Cyclic(edges, roots)
       THEN phase' = "crashed" /\ UNCHANGED <<stack, frame_size>>
       ELSE /\ phase' = to
            /\ stack' = Max({stack, Deepest(edges, frame_size, roots)})
            /\ frame_size' = sizes
  /\ UNCHANGED <<edges, dist, position, searchVars>>

(* The list of the first pass, cut off at its size. *)
FirstListed == ToSet(SubSeq(Listed, 1, ListedSize))

(* get_interrupt_stack_size *)
FirstPass ==
  /\ Pass("first_pass", "second_pass", FirstListed, interrupt_stack,
          [frame_size EXCEPT ![IndirectCall] = interrupt_stack'])
  /\ UNCHANGED kernel_stack

(* Faulty variant: the indirect calls of kernel_main are not counted. *)
SecondPassReset ==
  /\ Pass("second_pass", "kernel", Dependent, interrupt_stack,
          [frame_size EXCEPT ![IndirectCall] = 0])
  /\ UNCHANGED kernel_stack

SecondPass ==
  /\ Pass("second_pass", "kernel", Dependent, interrupt_stack,
          [frame_size EXCEPT ![IndirectCall] = interrupt_stack'])
  /\ UNCHANGED kernel_stack

KernelPass ==
  /\ Pass("kernel", "done", {Main}, kernel_stack, frame_size)
  /\ UNCHANGED interrupt_stack

Next ==
  \/ StartSearch \/ VisitChild \/ LeaveNode \/ ReverseOrder \/ Relax \/ EndRelax
  \/ FirstPass \/ SecondPass \/ KernelPass

Spec == Init /\ [][Next]_vars

-----------------------------------------------------------------------------
(* The search reports a loop just when some method can call itself, also   *)
(* when an earlier loop left gray nodes behind: the tool does not run out  *)
(* of its own stack without having reported one.                           *)
LoopFoundIffCyclic ==
  /\ phase = "relax" => loop_found = Cyclic(edges, Nodes)
  /\ phase = "crashed" => loop_found

(* Every method comes before the methods that it calls. *)
CallersFirst ==
  \A i, j \in DOMAIN topological_order :
    <<topological_order[i], topological_order[j]>> \in edges => i < j

(* The methods are ordered so that the relaxed distance of each is the     *)
(* deepest stack at the end of a chain of calls that leads to it: its      *)
(* frame on top of its deepest caller.                                     *)
DistIsDeepest ==
  phase = "first_pass" /\ ~loop_found =>
    CallersFirst /\ \A n \in Nodes :
      dist[n] = frame_size[n] + Max({0} \cup {dist[e[1]] : e \in {f \in edges : f[2] = n}})

(* The calls with an edge to every method that an indirect call may run.   *)
TrueCalls ==
  {e \in edges : e[2] # IndirectCall} \cup
  {e \in Methods \X Methods :
     <<e[1], IndirectCall>> \in edges /\ e[2] \in IndirectTargets[e[1]]}
ListIndependent == IndirectCall \notin Reach(edges, ToSet(Listed))

(* The list of the first pass is covered, as far as it matters: what the   *)
(* exception handlers call indirectly lies before its end, and no method   *)
(* behind it is deeper than the result.                                    *)
ListCovered ==
  /\ \A m \in Methods \cap Reach(TrueCalls, Dependent) : IndirectTargets[m] \subseteq FirstListed
  /\ \A m \in ToSet(Listed) : SubtreeDepth(edges, frame_size, m) <= interrupt_stack

(* In the instance the list is always covered at the end. *)
CoveredAtEnd ==
  phase = "done" /\ ~Cyclic(TrueCalls, Nodes) /\ ListIndependent => ListCovered

(* The two results are enough for every chain of calls, also through an    *)
(* indirect call to any method of the list: although the first pass looks  *)
(* at a part of the list only, the exception handlers are deeper.          *)
StacksSuffice ==
  phase = "done" /\ ~Cyclic(TrueCalls, Nodes) /\ ListIndependent =>
    /\ kernel_stack >= Deepest(TrueCalls, frame_size, {Main})
    /\ interrupt_stack >= Deepest(TrueCalls, frame_size, ToSet(Listed) \cup Dependent)

(* What the documentation claims (stack_calculator.md): the first pass     *)
(* takes the maximum over the methods of the list.                         *)
FirstPassCoversList ==
  phase = "second_pass" =>
    \A m \in ToSet(Listed) : SubtreeDepth(edges, frame_size, m) <= interrupt_stack
=============================================================================
