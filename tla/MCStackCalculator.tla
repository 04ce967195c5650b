------------------------- MODULE MCStackCalculator -------------------------
(* Instance of StackCalculator for TLC: kernel_main, an exception handler, *)
(* three methods of the list, of which the last one lies behind its size.  *)
EXTENDS StackCalculator

CONSTANTS main, handle, hex, find_32, find_avx2

MCMethods == {main, handle, hex, find_32, find_avx2}
MCListed == <<hex, find_32, find_avx2>>

(* The exception handlers call the manipulators of the output indirectly,  *)
(* kernel_main also the variants of the allocator.                         *)
MCIndirectTargets ==
  [m \in MCMethods |->
     IF m = main THEN {hex, find_32, find_avx2} ELSE {hex} ]

(* As in the call graphs of the repository, in units of 4 bytes, and with  *)
(* equal frames.                                                           *)
MCFrameSizes ==
  {[m \in MCMethods |->
      CASE m = main -> 65 [] m = handle -> 49 [] m = hex -> 1
        [] m = find_32 -> 25 [] m = find_avx2 -> 60],
   [m \in MCMethods |-> 1]}

Indirect == {<<main, IndirectCall>>, <<handle, IndirectCall>>}
MCCallGraphs ==
  {Indirect \cup g :
     g \in SUBSET {<<main, find_32>>, <<main, handle>>, <<find_32, find_32>>,
                   <<find_avx2, hex>>, <<find_32, hex>>,
                   <<find_32, IndirectCall>>}}
  \cup
  {Indirect \cup {<<main, handle>>, <<handle, main>>} \cup g :
     g \in SUBSET {<<handle, hex>>, <<find_32, hex>>, <<hex, find_32>>}}
=============================================================================
