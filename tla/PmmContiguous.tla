--------------------------- MODULE PmmContiguous ----------------------------
(***************************************************************************)
(* pmm_allocate_contiguous_frames (src/kernel/pmm.cpp) with the search it  *)
(* runs: the call sweeps the bitmap lane by lane, as PmmScan does, and     *)
(* then hands out the run or returns null.  Everything else is Pmm, whose  *)
(* specification this one implements.  The machine has one bitmap, which   *)
(* begins where the kernel image ends.                                     *)
(***************************************************************************)
EXTENDS Pmm, PmmScan

ASSUME BitmapAssumption ==
  \A m \in MemoryMaps, t \in 0 .. MaxFrames :
    IsTotalFrames(t, m) => BitmapBytes(t) = Bytes
ASSUME RequestsAssumption == Requests \subseteq 1 .. MaxRun

scanLocals ==
  <<frames, pass, phase, loops, current, length, start_frame, outcome>>
contiguousVars == <<vars, origin, scanLocals>>

-----------------------------------------------------------------------------
(* No call of the search: its variables are locals, `run' among them. *)
NoSearch ==
  /\ frames = 0 /\ pass = 1 /\ phase = 1 /\ loops = <<>> /\ current = 0
  /\ length = 0 /\ start_frame = 0
  /\ outcome = "none"

ContiguousInit ==
  /\ Init
  /\ origin = KernelEnd % Widths[TopTier]
  /\ NoSearch

CallSearch ==
  /\ Ready /\ NoSearch
  /\ frames' \in Requests /\ pass' = 1 /\ phase' = 1
  /\ current' = PassBegin(1)
  /\ loops' = <<Loop(1, PassBegin(1), origin + Bytes)>>
  /\ length' = 0 /\ start_frame' = 0
  /\ outcome' = "searching"
  /\ UNCHANGED <<vars, origin>>

Search ==
  /\ ScanStep
  /\ UNCHANGED <<map, next_entry, total, used_count, owned, donated, refused>>

LeaveSearch ==
  /\ frames' = 0 /\ pass' = 1 /\ phase' = 1 /\ loops' = <<>> /\ current' = 0
  /\ length' = 0 /\ start_frame' = 0
  /\ outcome' = "none"
  /\ UNCHANGED origin

ReturnRun ==
  /\ outcome = "found" /\ Ready
  /\ HandOut(start_frame, frames)
  /\ LeaveSearch

ReturnNull ==
  /\ outcome = "failed" /\ Ready
  /\ refused' = Contiguous(frames)
  /\ UNCHANGED <<used, used_count, search_begin, owned, donated>>
  /\ LeaveSearch

(* The operations that do not search for runs; a request for no frames     *)
(* returns before the search.                                              *)
OtherOperation ==
  /\ NoSearch
  /\ \/ InitializeEntry
     \/ pmm_allocate_frame \/ AllocateFrameFails
     \/ AllocateContiguousFails(0)
     \/ FreeAny
  /\ UNCHANGED <<origin, scanLocals>>

ContiguousNext ==
  CallSearch \/ Search \/ ReturnRun \/ ReturnNull \/ OtherOperation

(* The search is a loop of one thread: it goes on until it has returned. *)
ContiguousSpec ==
  /\ ContiguousInit /\ [][ContiguousNext]_contiguousVars
  /\ WF_contiguousVars(Search \/ ReturnRun \/ ReturnNull)

-----------------------------------------------------------------------------
(* Properties.                                                             *)

(* The allocator with the sweep over lanes is the allocator of Pmm: what a *)
(* call of the sweep returns is the run that the bit-by-bit search of the  *)
(* two passes finds, and null only when that finds none, in every state    *)
(* that the other operations leave the bitmap and the hint in.             *)
ImplementsPmm == Spec

(* Every search comes back: no lane is looked at twice by one core, and    *)
(* the cores that search inside a vector lane leave it.                    *)
SearchReturns == outcome = "searching" ~> outcome \in {"found", "failed"}
=============================================================================
