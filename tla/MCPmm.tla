------------------------------- MODULE MCPmm --------------------------------
(* Two small machines for the model checking of PmmContiguous: frames of   *)
(* 4 bytes, a bitmap of three 4-bit bytes that begins at an odd address,   *)
(* words of one byte and vectors of two.                                   *)
EXTENDS PmmContiguous

Usable(base, size) == [base |-> base, length |-> size, usable |-> TRUE]
Hole(base, size) == [base |-> base, length |-> size, usable |-> FALSE]

(* A hole below the kernel, as the video memory is, between usable ranges  *)
(* that are not aligned; 11 frames, so that the bitmap's last byte has a   *)
(* tail.                                                                   *)
HoleBelowKernel == <<Usable(0, 7), Hole(7, 3), Usable(10, 37)>>
(* A hole above the kernel; the entries are not in the order of addresses, *)
(* and there is more memory than the processor can address.                *)
HoleAboveKernel == <<Usable(34, 90), Usable(2, 24), Hole(26, 8)>>

Machines == {HoleBelowKernel, HoleAboveKernel}

(* One machine of 11 frames with a hole, for the liveness of the search. *)
OneMachine == {<<Usable(0, 28), Usable(31, 13)>>}

WordsAndVectors == <<1, 2>>
=============================================================================
