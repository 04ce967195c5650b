-------------------------------- MODULE Pmm ---------------------------------
(***************************************************************************)
(* The physical memory manager, src/kernel/pmm.cpp: a bitmap with one bit  *)
(* per frame, set while the frame is used.  A contiguous request is served *)
(* in one step by the search of FrameSearch, which PmmScan implements the  *)
(* way the code does.                                                      *)
(***************************************************************************)
EXTENDS FrameSearch, Sequences, FiniteSets

CONSTANTS
  FrameSize,     \* bytes of a frame: 4096 in the source
  MaxFrames,     \* accessable_frames: 2^20
  MemoryMaps,    \* the e820 maps the machine may report
  KernelStart,   \* addresses of _kernel_start and _kernel_end
  KernelEnd,
  MaxRun         \* bound on the frames of one contiguous request

Entry == [base : Nat, length : Nat, usable : BOOLEAN]

ASSUME SizesAssumption ==
  /\ FrameSize \in Nat \ {0} /\ ByteBits \in Nat \ {0} /\ MaxFrames \in Nat
  /\ KernelStart \in Nat /\ KernelEnd \in Nat /\ KernelStart <= KernelEnd
  /\ MaxRun \in Nat
ASSUME MapsAssumption == MemoryMaps \subseteq Seq(Entry)

(* Usable ranges of one map do not overlap: the firmware's promise, on     *)
(* which the count of used frames rests.                                   *)
Disjoint(d, e) == d.base + d.length <= e.base \/ e.base + e.length <= d.base
ASSUME DisjointAssumption ==
  \A map \in MemoryMaps : \A i, j \in DOMAIN map :
    i # j /\ map[i].usable /\ map[j].usable => Disjoint(map[i], map[j])

VARIABLES
  map,           \* the map given to pmm_initialize
  next_entry,    \* the entry its second loop reaches next
  total,         \* g_total_frames
  used_count,    \* g_used_frames
  owned,         \* history: frames handed out and not freed since
  donated,       \* history: frames freed that nobody had been handed
  refused        \* history: what the last call could not allocate

managerVars ==
  <<map, next_entry, total, used, used_count, search_begin, owned, donated>>
vars == <<map, next_entry, total, used, used_count, search_begin, owned,
          donated, refused>>

Nothing == <<>>
OneFrame == <<"frame", 1>>
Contiguous(frames) == <<"contiguous", frames>>
Refusals == {Nothing, OneFrame} \cup {Contiguous(n) : n \in 0 .. MaxRun}

-----------------------------------------------------------------------------
frame_index(address) == address \div FrameSize
RoundUp(address) == frame_index(address + FrameSize - 1)
bitmap_index(frame) == frame \div ByteBits
MostOf(a, b) == IF a >= b THEN a ELSE b

Frames == 0 .. total - 1
BitmapBytes(frames) == bitmap_index(frames + ByteBits - 1)
EndBit == BitmapBytes(total) * ByteBits
Bits == 0 .. EndBit - 1

(* The frames below the highest usable address of a map. *)
FrameCounts(m) ==
  {LeastOf(frame_index(m[i].base + m[i].length), MaxFrames) :
     i \in {j \in DOMAIN m : m[j].usable}}
IsTotalFrames(t, m) ==
  t \in {0} \cup FrameCounts(m) /\ \A c \in FrameCounts(m) : c <= t

(* g_reserved: frame 0, and the kernel image with the bitmap after it. *)
KernelFirst == frame_index(KernelStart)
KernelLast == RoundUp(KernelEnd + BitmapBytes(total)) - 1
Reserved == {0} \cup (KernelFirst .. KernelLast)

(* Faulty variant: the first reserved range forgets the second one. *)
FreedByForgetful(e) ==
  LET start == LeastOf(RoundUp(e.base), total)
      end   == LeastOf(frame_index(e.base + e.length), total)
      past0 == MostOf(start, 1)
  IN  (past0 .. LeastOf(KernelFirst, end) - 1) \cup (past0 .. end - 1)

(* The pieces of an entry that pmm_initialize frees: before, between and   *)
(* after the two reserved ranges, which it meets in this order.            *)
FreedBy(e) ==
  LET start == LeastOf(RoundUp(e.base), total)
      end   == LeastOf(frame_index(e.base + e.length), total)
      past0 == MostOf(start, 1)
      past1 == MostOf(past0, KernelLast + 1)
  IN  (past0 .. LeastOf(KernelFirst, end) - 1) \cup (past1 .. end - 1)

-----------------------------------------------------------------------------
(* pmm_initialize, one iteration of its last loop per step. *)

Init ==
  /\ map \in MemoryMaps
  /\ next_entry = 1
  /\ total \in 0 .. MaxFrames /\ IsTotalFrames(total, map)
  /\ used = 0 .. BitmapBytes(total) * ByteBits - 1
  /\ used_count = total
  /\ search_begin = 0
  /\ owned = {} /\ donated = {}
  /\ refused = Nothing

InitializeEntry ==
  /\ next_entry <= Len(map)
  /\ next_entry' = next_entry + 1
  /\ LET freed == IF map[next_entry].usable
                    THEN FreedBy(map[next_entry]) ELSE {}
     IN  /\ used' = used \ freed
         /\ used_count' = used_count - Cardinality(freed)
  /\ UNCHANGED <<map, total, search_begin, owned, donated, refused>>

Ready == next_entry > Len(map) /\ UNCHANGED <<map, next_entry, total>>

-----------------------------------------------------------------------------
(* The allocator's operations. *)

(* The bulk writes of the bitmap: the bits of a run, and no others. *)
set_range_used(start, frames) == used' = used \cup Run(start, frames)
set_range_free(start, frames) == used' = used \ Run(start, frames)

(* search_begin after the bits of `run' are set and the byte of frame last *)
(* is the last one written: that byte, or the next one if it is full.      *)
HintAfter(run, last) ==
  LET byte == bitmap_index(last)
  IN  IF Run(byte * ByteBits, ByteBits) \subseteq used \cup run
        THEN byte + 1 ELSE byte

(* Faulty variant: the mask of the last byte is one bit short. *)
HandOutShort(start, frames) ==
  /\ set_range_used(start, IF frames > 1 THEN frames - 1 ELSE 1)
  /\ used_count' = used_count + frames
  /\ search_begin' = HintAfter(Run(start, frames), start + frames - 1)
  /\ owned' = owned \cup Run(start, frames)
  /\ refused' = Nothing
  /\ UNCHANGED donated

HandOut(start, frames) ==
  /\ set_range_used(start, frames)
  /\ used_count' = used_count + frames
  /\ search_begin' = HintAfter(Run(start, frames), start + frames - 1)
  /\ owned' = owned \cup Run(start, frames)
  /\ refused' = Nothing
  /\ UNCHANGED donated

NoFreeBit(from, end) == from .. end - 1 \subseteq used

(* The first free bit from the hint to the end, else from the start. *)
FirstFreeBit(f) ==
  /\ f \in Bits \ used
  /\ IF f >= HintBit
       THEN NoFreeBit(HintBit, f)
       ELSE NoFreeBit(HintBit, EndBit) /\ NoFreeBit(0, f)

pmm_allocate_frame ==
  /\ Ready
  /\ \E f \in Bits : HandOut(f, 1) /\ FirstFreeBit(f)

(* Faulty variant: the search does not wrap around. *)
AllocateFrameFailsEarly ==
  /\ Ready
  /\ NoFreeBit(HintBit, EndBit)
  /\ refused' = OneFrame
  /\ UNCHANGED <<used, used_count, search_begin, owned, donated>>

AllocateFrameFails ==
  /\ Ready
  /\ NoFreeBit(HintBit, EndBit) /\ NoFreeBit(0, HintBit)
  /\ refused' = OneFrame
  /\ UNCHANGED <<used, used_count, search_begin, owned, donated>>

pmm_allocate_contiguous_frames(frames) ==
  /\ Ready
  /\ frames > 0
  /\ \E start \in Bits : /\ HandOut(start, frames)
                       /\ FindContiguous(start, frames, EndBit)

AllocateContiguousFails(frames) ==
  /\ Ready
  /\ refused' = Contiguous(frames)
  /\ frames = 0 \/ NoContiguous(frames, EndBit)
  /\ UNCHANGED <<used, used_count, search_begin, owned, donated>>

(* Faulty variant: freeing leaves the hint where it is. *)
TakeBackNoHint(start, frames) ==
  /\ set_range_free(start, frames)
  /\ used_count' = used_count - frames
  /\ owned' = owned \ Run(start, frames)
  /\ donated' = donated \cup (Run(start, frames) \ owned)
  /\ refused' = Nothing
  /\ UNCHANGED search_begin

TakeBack(start, frames) ==
  /\ set_range_free(start, frames)
  /\ used_count' = used_count - frames
  /\ search_begin' = LeastOf(bitmap_index(start), search_begin)
  /\ owned' = owned \ Run(start, frames)
  /\ donated' = donated \cup (Run(start, frames) \ owned)
  /\ refused' = Nothing

(* Faulty variant: a free frame is freed again. *)
FreeResultTwice(index, frames) ==
  IF frames = 0 THEN "zero_frames"
  ELSE IF index >= total \/ frames > total - index THEN "out_of_range"
  ELSE IF Run(index, frames) \cap Reserved # {} THEN "reserved"
  ELSE "success"

(* The result of pmm_free_frame and pmm_free_contiguous_frames, in the     *)
(* order of their tests; index may be any frame of the address space.      *)
FreeResult(index, frames) ==
  IF frames = 0 THEN "zero_frames"
  ELSE IF index >= total \/ frames > total - index THEN "out_of_range"
  ELSE IF Run(index, frames) \cap Reserved # {} THEN "reserved"
  ELSE IF Run(index, frames) \subseteq used THEN "success" ELSE "failed"

Free(index, frames) ==
  IF FreeResult(index, frames) = "success"
    THEN TakeBack(index, frames)
    ELSE /\ refused' = Nothing
         /\ UNCHANGED <<used, used_count, search_begin, owned, donated>>

pmm_free_frame(index) == Ready /\ Free(index, 1)
pmm_free_contiguous_frames(index, frames) == Ready /\ Free(index, frames)

Allocate == \/ pmm_allocate_frame \/ AllocateFrameFails
            \/ \E n \in 0 .. MaxRun : \/ pmm_allocate_contiguous_frames(n)
                                      \/ AllocateContiguousFails(n)

(* Clients free any address, also frames that they were never handed. *)
FreeAny == \E f \in 0 .. total :
  \/ pmm_free_frame(f)
  \/ \E n \in 0 .. MaxRun : pmm_free_contiguous_frames(f, n)

Next == InitializeEntry \/ Allocate \/ FreeAny
Spec == Init /\ [][Next]_vars

-----------------------------------------------------------------------------
(* Properties.                                                             *)

(* Every variable has its type; the hint may point past the last byte. *)
TypeOK ==
  /\ map \in MemoryMaps
  /\ next_entry \in 1 .. Len(map) + 1
  /\ total \in 0 .. MaxFrames
  /\ used \in SUBSET Bits
  /\ used_count \in 0 .. total
  /\ search_begin \in 0 .. BitmapBytes(total)
  /\ owned \in SUBSET Bits /\ donated \in SUBSET Bits
  /\ refused \in Refusals

(* g_used_frames, which every operation updates apart from the bitmap, is  *)
(* the number of used frames of the bitmap, and every variable has its     *)
(* type.                                                                   *)
UsedCounted == used_count = Cardinality(used \cap Frames)
Accounting == TypeOK /\ UsedCounted

(* The bits of the last byte beyond the last frame stay 1: the searches,   *)
(* which read whole bytes, would hand out memory that does not exist.      *)
TailUsed == Bits \ Frames \subseteq used

(* A frame that holds a byte of the kernel image or of the bitmap itself,  *)
(* and frame 0, is never free.                                             *)
KernelProtected ==
  \A f \in Frames :
    \/ f = 0
    \/ /\ f * FrameSize < KernelEnd + BitmapBytes(total)
       /\ (f + 1) * FrameSize > KernelStart
    => f \in used

(* No two clients hold one frame: an allocation hands out as many frames   *)
(* that nobody holds as it counts.                                         *)
NeverSharedFrames ==
  [][used_count' > used_count =>
       Cardinality(owned' \ owned) = used_count' - used_count]_vars

(* pmm_allocate_frame returns null only when the count says that no frame  *)
(* is free, wherever the hint is.                                          *)
NullMeansExhausted == refused = OneFrame => used_count = total

(* pmm_allocate_contiguous_frames fails although frames are free only when *)
(* every run that fits crosses search_begin.                               *)
MissedRunsCrossHint ==
  \A n \in 1 .. MaxRun : refused = Contiguous(n) =>
    \A s \in Bits : Fits(s, n, 0, EndBit) => s < HintBit /\ HintBit < s + n

(* What was just freed can be allocated again: a free moves the hint so    *)
(* that the freed run is not cut by it.                                    *)
CanAllocate(frames) == \E start \in Bits : FindContiguous(start, frames, EndBit)
FreedRunFits ==
  [][next_entry' = next_entry /\ used' # used /\ used' \subseteq used =>
       \A n \in 1 .. total : n = Cardinality(used \ used') => CanAllocate(n)']_vars

(* The frames that pmm_initialize has freed so far. *)
FreedFrames ==
  UNION {FreedBy(map[i]) : i \in {j \in 1 .. next_entry - 1 : map[j].usable}}

Pool == FreedFrames \cup donated

(* No frame leaks and none is lost track of, whatever clients allocate and *)
(* free: the free frames are the usable ones of the map and the ones that  *)
(* clients donated, less those that a client holds.                        *)
Conservation == owned \subseteq Pool /\ used = Bits \ (Pool \ owned)
=============================================================================
