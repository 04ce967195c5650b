---------------------------- MODULE FrameSearch -----------------------------
(***************************************************************************)
(* What a search of the frame bitmap (src/kernel/pmm.cpp) promises.  Bits  *)
(* are numbered across the bytes, so that byte b holds the bits from       *)
(* b * ByteBits and bit f is frame f; `used' is the set of the bits that   *)
(* are 1.  Pmm allocates with this search; PmmScan does it lane by lane.   *)
(***************************************************************************)
EXTENDS Integers

CONSTANT ByteBits      \* bits of a byte of the bitmap: 8 in the source

VARIABLES
  used,          \* the bits of the bitmap that are 1
  search_begin   \* g_bitmap.search_begin, as a byte index

LeastOf(a, b) == IF a <= b THEN a ELSE b

HintBit == search_begin * ByteBits

Run(start, frames) == start .. start + frames - 1

Fits(start, frames, from, end) ==
  /\ from <= start /\ start + frames <= end
  /\ Run(start, frames) \cap used = {}

LeftmostFit(start, frames, from, end) ==
  /\ Fits(start, frames, from, end)
  /\ \A s \in from .. start - 1 : ~Fits(s, frames, from, end)

NoFit(frames, from, end) ==
  \A s \in from .. end - 1 : ~Fits(s, frames, from, end)

(* Two passes, neither of which sees a run that crosses search_begin. *)
FindContiguous(start, frames, end) ==
  \/ LeftmostFit(start, frames, HintBit, end)
  \/ /\ NoFit(frames, HintBit, end)
     /\ LeftmostFit(start, frames, 0, HintBit)

NoContiguous(frames, end) ==
  NoFit(frames, HintBit, end) /\ NoFit(frames, 0, HintBit)
=============================================================================
