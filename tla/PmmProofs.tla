------------------------------ MODULE PmmProofs -----------------------------
(***************************************************************************)
(* Proofs about the physical memory manager, for every frame size, bitmap  *)
(* byte, memory map without overlaps and kernel image; about the search of *)
(* the bitmap by lanes, for every list of lane widths, alignment of the    *)
(* bitmap, hint and request; and that the manager with this search         *)
(* implements the manager that searches in one step.                       *)
(***************************************************************************)
EXTENDS PmmContiguous, FiniteSetTheorems, SequenceTheorems,
        WellFoundedInduction, TLAPS

(* Integer division, which the SMT solver knows by these two bounds. *)
LEMMA Quotient ==
  ASSUME NEW a \in Nat, NEW n \in Nat \ {0}
  PROVE  /\ a \div n \in Nat
         /\ n * (a \div n) <= a
         /\ a < n * (a \div n) + n
  OBVIOUS

(* Division by the frame size preserves the order of addresses. *)
LEMMA QuotientMonotone ==
  ASSUME NEW a \in Nat, NEW b \in Nat, NEW n \in Nat \ {0}, a <= b
  PROVE  a \div n <= b \div n
  OBVIOUS

(* The byte of a bit lies below the byte that a bound starts. *)
LEMMA QuotientBelow ==
  ASSUME NEW a \in Nat, NEW b \in Nat, NEW n \in Nat \ {0}, a < b * n
  PROVE  a \div n < b
  OBVIOUS

(* An address past a frame boundary has a quotient past that frame. *)
LEMMA QuotientAbove ==
  ASSUME NEW a \in Nat, NEW b \in Nat, NEW n \in Nat \ {0}, b * n <= a
  PROVE  b <= a \div n
  OBVIOUS

(* The first bit of a byte grows with the byte. *)
LEMMA ProductMonotone ==
  ASSUME NEW a \in Nat, NEW b \in Nat, NEW n \in Nat, a <= b
  PROVE  a * n <= b * n /\ a * n \in Nat /\ b * n \in Nat
  OBVIOUS

(* A run that ends in time starts in time. *)
LEMMA RunStartsBelow ==
  ASSUME NEW start \in Nat, NEW n \in Nat, n >= 1, NEW end \in Nat,
         start + n <= end
  PROVE  start \in 0 .. end - 1
  OBVIOUS

(* A search from below stops at a least number. *)
LEMMA LeastNumber ==
  ASSUME NEW S, S \subseteq Nat, S # {}
  PROVE  \E n \in S : \A m \in S : n <= m
<1> DEFINE R == OpToRel(<, Nat)
<1>1. IsWellFoundedOn(R, Nat)
  BY NatLessThanWellFounded
<1>2. \A a, b \in Nat : a < b => <<a, b>> \in R
  BY DEF OpToRel
<1> HIDE DEF R
<1>3. PICK n \in S : \A m \in S : <<m, n>> \notin R
  BY <1>1, WFMin
<1>4. \A m \in S : n <= m
  <2> SUFFICES ASSUME NEW m \in S PROVE n <= m
    OBVIOUS
  <2>1. m \in Nat /\ n \in Nat
    OBVIOUS
  <2>2. ~(m < n)
    BY <1>2, <1>3, <2>1
  <2> QED
    BY <2>1, <2>2
<1> QED
  BY <1>4

-----------------------------------------------------------------------------
(* The reserved frames and what pmm_initialize frees of an entry. *)
LEMMA KernelBounds ==
  ASSUME total \in Nat
  PROVE  /\ BitmapBytes(total) \in Nat /\ EndBit \in Nat
         /\ total <= EndBit
         /\ KernelFirst \in Nat /\ KernelLast \in Int
<1>1. /\ BitmapBytes(total) \in Nat /\ EndBit \in Nat /\ total <= EndBit
  <2>1. total + ByteBits - 1 \in Nat /\ ByteBits \in Nat \ {0}
    BY SizesAssumption
  <2>2. /\ BitmapBytes(total) \in Nat
        /\ total + ByteBits - 1 < ByteBits * BitmapBytes(total) + ByteBits
    BY <2>1, Quotient DEF BitmapBytes, bitmap_index
  <2> QED
    BY <2>1, <2>2 DEF EndBit
<1>2. KernelFirst \in Nat
  BY SizesAssumption, Quotient DEF KernelFirst, frame_index
<1>3. KernelLast \in Int
  <2>1. KernelEnd + BitmapBytes(total) + FrameSize - 1 \in Nat
    BY <1>1, SizesAssumption
  <2> QED
    BY <2>1, SizesAssumption, Quotient DEF KernelLast, RoundUp, frame_index
<1> QED
  BY <1>1, <1>2, <1>3

(* The frames the entry loop frees for an entry lie below total_frames. *)
LEMMA EntryBounds ==
  ASSUME NEW e \in Entry
  PROVE  /\ RoundUp(e.base) \in Nat
         /\ frame_index(e.base + e.length) \in Nat
<1>1. e.base \in Nat /\ e.length \in Nat
  BY DEF Entry
<1>2. e.base + FrameSize - 1 \in Nat /\ e.base + e.length \in Nat
  BY <1>1, SizesAssumption
<1> QED
  BY <1>2, SizesAssumption, Quotient DEF RoundUp, frame_index

(* A freed frame exists, lies wholly in its entry and is not reserved. *)
LEMMA FreedByBounds ==
  ASSUME total \in Nat, NEW e \in Entry, NEW f \in FreedBy(e)
  PROVE  /\ f \in Frames
         /\ f \notin Reserved
         /\ RoundUp(e.base) <= f /\ f < frame_index(e.base + e.length)
<1> DEFINE start == LeastOf(RoundUp(e.base), total)
           end == LeastOf(frame_index(e.base + e.length), total)
           past0 == MostOf(start, 1)
           past1 == MostOf(past0, KernelLast + 1)
<1>1. /\ start \in Nat /\ end \in Nat /\ past0 \in Nat /\ past1 \in Int
      /\ end <= total /\ end <= frame_index(e.base + e.length)
      /\ start <= past0 /\ 1 <= past0
      /\ past0 <= past1 /\ KernelLast + 1 <= past1
      /\ start = RoundUp(e.base) \/ start = total
  BY EntryBounds, KernelBounds DEF LeastOf, MostOf
<1>2. /\ f \in Int /\ past0 <= f /\ f < end
      /\ f < KernelFirst \/ KernelLast < f
  BY <1>1, KernelBounds DEF FreedBy, LeastOf
<1> HIDE DEF start, end, past0, past1
<1> QED
  BY <1>1, <1>2, EntryBounds, KernelBounds DEF Frames, Reserved

(* Entries that do not overlap free no common frame. *)
LEMMA FreedByDisjoint ==
  ASSUME total \in Nat, NEW d \in Entry, NEW e \in Entry, Disjoint(d, e)
  PROVE  FreedBy(d) \cap FreedBy(e) = {}
<1>1. ASSUME NEW x \in Entry, NEW y \in Entry, x.base + x.length <= y.base
      PROVE  frame_index(x.base + x.length) <= RoundUp(y.base)
  <2>1. /\ x.base + x.length \in Nat /\ y.base + FrameSize - 1 \in Nat
        /\ x.base + x.length <= y.base + FrameSize - 1
    BY <1>1, SizesAssumption DEF Entry
  <2> QED
    BY <2>1, SizesAssumption, QuotientMonotone DEF frame_index, RoundUp
<1>2. SUFFICES ASSUME NEW f \in FreedBy(d), f \in FreedBy(e)
               PROVE  FALSE
  OBVIOUS
<1>3. /\ f \in Int
      /\ RoundUp(d.base) <= f /\ f < frame_index(d.base + d.length)
      /\ RoundUp(e.base) <= f /\ f < frame_index(e.base + e.length)
  BY <1>2, FreedByBounds DEF Frames
<1> QED
  BY <1>1, <1>3, EntryBounds DEF Disjoint

-----------------------------------------------------------------------------
(* The inductive invariant.  While pmm_initialize runs, the entries to     *)
(* come are still wholly used, so that each frame it frees is counted once.*)
Unfreed ==
  \A i \in DOMAIN map :
    i >= next_entry /\ map[i].usable => FreedBy(map[i]) \subseteq used

ReservedUsed == Reserved \cap Frames \subseteq used

PInv ==
  /\ TypeOK /\ UsedCounted /\ TailUsed
  /\ ReservedUsed /\ Unfreed
  /\ owned \subseteq used
  /\ next_entry <= Len(map) => owned = {} /\ refused = Nothing

(* The ranges of the constants and derived bounds of the allocator. *)
LEMMA Types ==
  ASSUME TypeOK
  PROVE  /\ total \in Nat /\ map \in Seq(Entry) /\ Len(map) \in Nat
         /\ \A i \in DOMAIN map : map[i] \in Entry
         /\ DOMAIN map = 1 .. Len(map)
         /\ Frames \subseteq Bits
<1>1. total \in Nat
  BY SizesAssumption DEF TypeOK
<1>2. map \in Seq(Entry)
  BY MapsAssumption DEF TypeOK
<1>3. Frames \subseteq Bits
  BY <1>1, KernelBounds DEF Frames, Bits
<1> QED
  BY <1>1, <1>2, <1>3

(* The frames of the bitmap form a finite set with a natural size. *)
LEMMA FramesFinite ==
  ASSUME total \in Nat, NEW S \in SUBSET Frames
  PROVE  /\ IsFiniteSet(S) /\ Cardinality(S) \in 0 .. total
<1>1. IsFiniteSet(Frames) /\ Cardinality(Frames) = total
  BY FS_Interval DEF Frames
<1>2. IsFiniteSet(S) /\ Cardinality(S) <= Cardinality(Frames)
  BY <1>1, FS_Subset
<1> QED
  BY <1>1, <1>2, FS_CardinalityType

(* The inductive invariant holds when the bitmap has just been filled. *)
LEMMA InitPInv == Init => PInv
<1> SUFFICES ASSUME Init PROVE PInv
  OBVIOUS
<1>1. total \in Nat /\ map \in Seq(Entry)
  BY SizesAssumption, MapsAssumption DEF Init
<1>2. /\ used = Bits /\ Frames \subseteq Bits
      /\ BitmapBytes(total) \in Nat
  BY <1>1, KernelBounds DEF Init, Bits, EndBit, Frames
<1>3. TypeOK
  <2>1. Len(map) \in Nat
    BY <1>1
  <2>2. 1 \in 1 .. Len(map) + 1 /\ total \in 0 .. total
    BY <1>1, <2>1
  <2>3. 0 \in 0 .. BitmapBytes(total)
    BY <1>2
  <2>4. refused \in Refusals
    BY DEF Init, Refusals
  <2> QED
    BY <1>2, <2>2, <2>3, <2>4 DEF Init, TypeOK
<1>4. UsedCounted
  <2>1. used \cap Frames = Frames
    BY <1>2
  <2>2. Cardinality(0 .. total - 1) = total
    BY <1>1, FS_Interval
  <2> QED
    BY <2>1, <2>2 DEF UsedCounted, Frames, Init
<1>5. TailUsed /\ ReservedUsed
  BY <1>2 DEF TailUsed, ReservedUsed
<1>6. Unfreed
  BY <1>1, <1>2, <1>3, Types, FreedByBounds DEF Unfreed
<1> QED
  BY <1>3, <1>4, <1>5, <1>6 DEF PInv, Init

-----------------------------------------------------------------------------
(* One entry of the map is freed. *)
LEMMA InitializeEntryStep == PInv /\ InitializeEntry => PInv'
<1> SUFFICES ASSUME PInv, InitializeEntry PROVE PInv'
  OBVIOUS
<1> DEFINE freed == IF map[next_entry].usable
                      THEN FreedBy(map[next_entry]) ELSE {}
<1>1. /\ next_entry \in 1 .. Len(map) /\ next_entry' = next_entry + 1
      /\ used' = used \ freed
      /\ used_count' = used_count - Cardinality(freed)
      /\ UNCHANGED <<map, total, search_begin, owned, donated, refused>>
      /\ owned = {} /\ refused = Nothing
  BY DEF InitializeEntry, PInv, TypeOK
<1>2. /\ TypeOK /\ total \in Nat /\ Len(map) \in Nat
      /\ DOMAIN map = 1 .. Len(map) /\ map \in MemoryMaps
      /\ \A i \in DOMAIN map : map[i] \in Entry
  BY Types DEF PInv, TypeOK
<1>3. freed \subseteq used /\ freed \subseteq Frames /\ freed \cap Reserved = {}
  <2>1. CASE map[next_entry].usable
    BY <1>1, <1>2, <2>1, FreedByBounds DEF PInv, Unfreed
  <2>2. CASE ~map[next_entry].usable
    BY <2>2
  <2> QED
    BY <2>1, <2>2
<1>4. Unfreed'
  <2>1. SUFFICES ASSUME NEW i \in DOMAIN map, i >= next_entry + 1,
                        map[i].usable
                 PROVE  FreedBy(map[i]) \subseteq used \ freed
    BY <1>1 DEF Unfreed, FreedBy, KernelFirst, KernelLast, LeastOf, MostOf
  <2>2. FreedBy(map[i]) \subseteq used
    BY <1>1, <1>2, <2>1 DEF PInv, Unfreed
  <2>3. map[next_entry].usable => FreedBy(map[i]) \cap freed = {}
    <3>1. ASSUME map[next_entry].usable PROVE FreedBy(map[i]) \cap freed = {}
      <4>1. i # next_entry
        BY <1>1, <1>2, <2>1
      <4>2. Disjoint(map[i], map[next_entry])
        BY <1>1, <1>2, <2>1, <3>1, <4>1, DisjointAssumption
      <4> QED
        BY <1>1, <1>2, <3>1, <4>2, FreedByDisjoint
    <3> QED
      BY <3>1
  <2> QED
    BY <2>2, <2>3
<1> HIDE DEF freed
<1>5. UsedCounted' /\ used_count' \in 0 .. total
  <2> DEFINE U == used \cap Frames
  <2>1. /\ used_count = Cardinality(U)
        /\ IsFiniteSet(U) /\ Cardinality(U) \in 0 .. total
        /\ Cardinality(U \ freed) \in 0 .. total
    BY <1>2, FramesFinite DEF PInv, UsedCounted
  <2>2. Cardinality(U \ freed) = Cardinality(U) - Cardinality(U \cap freed)
    BY <2>1, FS_Difference
  <2>3. U \cap freed = freed /\ U \ freed = used' \cap Frames
    BY <1>1, <1>3
  <2> HIDE DEF U
  <2>4. used_count' = Cardinality(U \ freed)
    BY <1>1, <2>1, <2>2, <2>3
  <2> QED
    BY <1>1, <2>1, <2>3, <2>4 DEF UsedCounted, Frames
<1>6. TypeOK'
  <2>1. next_entry' \in 1 .. Len(map) + 1
    BY <1>1, <1>2
  <2> QED
    BY <1>1, <1>2, <1>5, <2>1 DEF TypeOK, Bits, EndBit, BitmapBytes
<1>7. TailUsed' /\ ReservedUsed'
  BY <1>1, <1>3
  DEF PInv, TailUsed, ReservedUsed, Bits, Frames, Reserved, EndBit,
      BitmapBytes, KernelLast
<1> QED
  BY <1>1, <1>4, <1>5, <1>6, <1>7 DEF PInv

-----------------------------------------------------------------------------
(* Sizes of runs and of the used frames. *)
LEMMA RunSize ==
  ASSUME NEW start \in Nat, NEW n \in Nat
  PROVE  IsFiniteSet(Run(start, n)) /\ Cardinality(Run(start, n)) = n
<1>1. /\ IsFiniteSet(start .. start + n - 1)
      /\ Cardinality(start .. start + n - 1)
           = IF start > start + n - 1 THEN 0 ELSE start + n - 1 - start + 1
  BY FS_Interval
<1> QED
  BY <1>1 DEF Run

(* Frames handed out, while pmm_initialize is done. *)
LEMMA HandOutStep ==
  ASSUME PInv, Ready, NEW start \in Nat, NEW n \in Nat \ {0},
         Run(start, n) \subseteq Bits, Run(start, n) \cap used = {},
         HandOut(start, n)
  PROVE  PInv'
<1> DEFINE run == Run(start, n)
<1>1. /\ TypeOK /\ total \in Nat /\ Len(map) \in Nat
      /\ DOMAIN map = 1 .. Len(map)
      /\ UNCHANGED <<map, next_entry, total>> /\ next_entry > Len(map)
      /\ next_entry \in Nat
  BY Types DEF PInv, Ready, TypeOK
<1>2. /\ used' = used \cup run /\ owned' = owned \cup run
      /\ donated' = donated
      /\ used_count' = used_count + n
      /\ search_begin' = HintAfter(run, start + n - 1)
  BY DEF HandOut, set_range_used
<1>3. run \subseteq Frames
  BY DEF PInv, TailUsed
<1>4. UsedCounted' /\ used_count' \in 0 .. total
  <2> DEFINE U == used \cap Frames
  <2>1. /\ used_count = Cardinality(U) /\ IsFiniteSet(U)
        /\ Cardinality(U) \in Nat
        /\ Cardinality(U \cup run) \in 0 .. total
        /\ IsFiniteSet(run) /\ Cardinality(run) = n
    BY <1>1, <1>3, FramesFinite, RunSize DEF PInv, UsedCounted
  <2>2. U \cap run = {} /\ U \cup run = used' \cap Frames
    BY <1>2, <1>3
  <2> HIDE DEF U, run
  <2>3. Cardinality(U \cup run)
          = Cardinality(U) + Cardinality(run) - Cardinality(U \cap run)
    BY <2>1, FS_Union
  <2>4. Cardinality(U \cap run) = 0
    BY <2>2, FS_EmptySet
  <2>5. used_count' = Cardinality(U \cup run)
    BY <1>2, <2>1, <2>3, <2>4
  <2> QED
    BY <1>1, <2>1, <2>2, <2>5 DEF UsedCounted, Frames
<1>5. search_begin' \in 0 .. BitmapBytes(total)
  <2>1. start + n - 1 \in run /\ start + n - 1 \in Nat
    BY DEF Run
  <2>2. start + n - 1 < BitmapBytes(total) * ByteBits
    BY <2>1, <1>1, KernelBounds DEF Bits, EndBit
  <2>3. /\ bitmap_index(start + n - 1) \in Nat
        /\ bitmap_index(start + n - 1) < BitmapBytes(total)
    BY <1>1, <2>1, <2>2, SizesAssumption, KernelBounds, Quotient, QuotientBelow
    DEF bitmap_index
  <2> QED
    BY <1>1, <1>2, <2>3, KernelBounds DEF HintAfter
<1> HIDE DEF run
<1>6. TypeOK'
  <2>1. refused' \in Refusals
    BY DEF HandOut, Refusals
  <2> QED
    BY <1>1, <1>2, <1>3, <1>4, <1>5, <2>1, Types
    DEF TypeOK, Bits, EndBit, BitmapBytes
<1>7. TailUsed' /\ ReservedUsed' /\ owned' \subseteq used'
  BY <1>1, <1>2
  DEF PInv, TailUsed, ReservedUsed, Bits, Frames, Reserved, EndBit,
      BitmapBytes, KernelLast
<1>8. Unfreed'
  BY <1>1 DEF Unfreed
<1> QED
  BY <1>1, <1>4, <1>6, <1>7, <1>8 DEF PInv

(* A call that leaves the manager as it is preserves the invariant. *)
LEMMA IdleStep ==
  ASSUME PInv, UNCHANGED managerVars, refused' \in Refusals,
         next_entry <= Len(map) => refused' = Nothing
  PROVE  PInv'
BY DEF managerVars, PInv, TypeOK, UsedCounted, TailUsed, ReservedUsed, Unfreed,
       Bits, Frames, Reserved, EndBit, BitmapBytes, KernelLast, FreedBy,
       KernelFirst

(* Frames taken back, while pmm_initialize is done. *)
LEMMA FreeStep ==
  ASSUME PInv, Ready, NEW start \in Nat, NEW n \in Nat, Free(start, n)
  PROVE  PInv'
<1> DEFINE run == Run(start, n)
<1>1. /\ TypeOK /\ total \in Nat /\ Len(map) \in Nat
      /\ DOMAIN map = 1 .. Len(map)
      /\ UNCHANGED <<map, next_entry, total>> /\ next_entry > Len(map)
      /\ next_entry \in Nat
  BY Types DEF PInv, Ready, TypeOK
<1>2. CASE FreeResult(start, n) # "success"
  <2>1. UNCHANGED managerVars /\ refused' = Nothing
    BY <1>1, <1>2 DEF Free, managerVars
  <2> QED
    BY <2>1, IdleStep DEF Refusals
<1>3. CASE FreeResult(start, n) = "success"
  <2>1. /\ n # 0 /\ start < total /\ n <= total - start
        /\ run \cap Reserved = {} /\ run \subseteq used
    BY <1>1, <1>3 DEF FreeResult
  <2>2. /\ used' = used \ run /\ owned' = owned \ run
        /\ donated' = donated \cup (run \ owned)
        /\ used_count' = used_count - n
        /\ search_begin' = LeastOf(bitmap_index(start), search_begin)
    BY <1>3 DEF Free, TakeBack, set_range_free
  <2>3. run \subseteq Frames
    BY <1>1, <2>1 DEF Run, Frames
  <2>4. UsedCounted' /\ used_count' \in 0 .. total
    <3> DEFINE U == used \cap Frames
    <3>1. /\ used_count = Cardinality(U) /\ IsFiniteSet(U)
          /\ Cardinality(U \ run) \in 0 .. total
          /\ Cardinality(U) \in Nat /\ Cardinality(run) = n
      BY <1>1, FramesFinite, RunSize DEF PInv, UsedCounted
    <3>2. U \cap run = run /\ U \ run = used' \cap Frames
      BY <2>1, <2>2, <2>3
    <3> HIDE DEF U, run
    <3>3. Cardinality(U \ run) = Cardinality(U) - Cardinality(U \cap run)
      BY <3>1, FS_Difference
    <3>4. Cardinality(U \cap run) = n
      BY <3>1, <3>2
    <3> QED
      BY <1>1, <2>2, <3>1, <3>2, <3>3, <3>4 DEF UsedCounted, Frames
  <2> HIDE DEF run
  <2>5. search_begin' \in 0 .. BitmapBytes(total)
    <3>1. bitmap_index(start) \in Nat
      BY SizesAssumption, Quotient DEF bitmap_index
    <3>2. search_begin \in 0 .. BitmapBytes(total) /\ BitmapBytes(total) \in Nat
      BY <1>1, KernelBounds DEF TypeOK
    <3> QED
      BY <2>2, <3>1, <3>2 DEF LeastOf
  <2>6. TypeOK'
    <3>1. refused' \in Refusals
      BY <1>3 DEF Free, TakeBack, Refusals
    <3>2. donated' \in SUBSET Bits
      BY <1>1, <2>2, <2>3, Types DEF TypeOK
    <3> HIDE DEF run
    <3> QED
      BY <1>1, <2>2, <2>4, <2>5, <3>1, <3>2 DEF TypeOK, Bits, EndBit, BitmapBytes
  <2>7. TailUsed' /\ ReservedUsed' /\ owned' \subseteq used'
    BY <1>1, <2>1, <2>2, <2>3
    DEF PInv, TailUsed, ReservedUsed, Bits, Frames, Reserved, EndBit,
        BitmapBytes, KernelLast
  <2>8. Unfreed'
    BY <1>1 DEF Unfreed
  <2> QED
    BY <1>1, <2>4, <2>6, <2>7, <2>8 DEF PInv
<1> QED
  BY <1>2, <1>3

-----------------------------------------------------------------------------
(* What the searches find is free and inside the bitmap. *)
LEMMA HintBounds ==
  ASSUME TypeOK
  PROVE  /\ total \in Nat /\ EndBit \in Nat /\ HintBit \in Nat
         /\ HintBit <= EndBit
<1>1. total \in Nat /\ BitmapBytes(total) \in Nat /\ EndBit \in Nat
  BY Types, KernelBounds
<1>2. search_begin \in Nat /\ search_begin <= BitmapBytes(total)
  BY <1>1 DEF TypeOK
<1> QED
  BY <1>1, <1>2, SizesAssumption DEF HintBit, EndBit

(* An allocation that succeeds hands out a free run of the bitmap. *)
HandsOutFreeRun ==
  \E start \in Nat, n \in Nat \ {0} :
    /\ Run(start, n) \subseteq Bits /\ Run(start, n) \cap used = {}
    /\ HandOut(start, n)

(* A request that fails changes nothing but the history. *)
Refuses == UNCHANGED managerVars /\ refused' \in Refusals

(* An allocation hands out a free run or fails and changes nothing. *)
LEMMA AllocateCases ==
  ASSUME TypeOK, Allocate
  PROVE  Ready /\ (HandsOutFreeRun \/ Refuses)
<1>1. /\ total \in Nat /\ EndBit \in Nat /\ HintBit \in Nat
      /\ HintBit <= EndBit
  BY HintBounds
<1>2. CASE pmm_allocate_frame
  <2>1. PICK f \in Bits : FirstFreeBit(f) /\ HandOut(f, 1)
    BY <1>2 DEF pmm_allocate_frame
  <2>2. f \in Nat /\ Run(f, 1) = {f} /\ f \notin used
    BY <1>1, <2>1 DEF Bits, Run, FirstFreeBit
  <2> QED
    BY <1>2, <2>1, <2>2 DEF pmm_allocate_frame, HandsOutFreeRun
<1>3. ASSUME NEW n \in 0 .. MaxRun, pmm_allocate_contiguous_frames(n)
      PROVE  Ready /\ HandsOutFreeRun
  <2>1. PICK start \in Bits : FindContiguous(start, n, EndBit) /\ HandOut(start, n)
    BY <1>3 DEF pmm_allocate_contiguous_frames
  <2>2. /\ start \in Nat /\ n \in Nat \ {0} /\ start + n <= EndBit
        /\ Run(start, n) \cap used = {}
    BY <1>1, <1>3, <2>1, SizesAssumption
    DEF Bits, pmm_allocate_contiguous_frames, FindContiguous, LeftmostFit, Fits
  <2>3. Run(start, n) \subseteq Bits
    BY <1>1, <2>2 DEF Run, Bits
  <2> QED
    BY <1>3, <2>1, <2>2, <2>3
    DEF pmm_allocate_contiguous_frames, HandsOutFreeRun
<1>4. CASE AllocateFrameFails
  BY <1>4 DEF AllocateFrameFails, Ready, managerVars, Refuses, Refusals
<1>5. ASSUME NEW n \in 0 .. MaxRun, AllocateContiguousFails(n)
      PROVE  Ready /\ Refuses
  BY <1>5 DEF AllocateContiguousFails, Ready, managerVars, Refuses, Refusals
<1> QED
  BY <1>2, <1>3, <1>4, <1>5 DEF Allocate

(* A step that changes no variable preserves the invariant. *)
LEMMA StutterStep == PInv /\ UNCHANGED vars => PInv'
  BY IdleStep DEF vars, managerVars, PInv, TypeOK

(* Both allocation functions preserve the invariant. *)
LEMMA AllocateStep == PInv /\ Allocate => PInv'
<1> SUFFICES ASSUME PInv, Allocate PROVE PInv'
  OBVIOUS
<1>1. Ready /\ (HandsOutFreeRun \/ Refuses)
  BY AllocateCases DEF PInv
<1>2. ~(next_entry <= Len(map))
  BY <1>1, Types DEF Ready, PInv, TypeOK
<1> QED
  BY <1>1, <1>2, HandOutStep, IdleStep DEF HandsOutFreeRun, Refuses

(* The invariant is inductive: every call of the interface preserves it. *)
LEMMA NextPInv == PInv /\ [Next]_vars => PInv'
<1> SUFFICES ASSUME PInv, [Next]_vars PROVE PInv'
  OBVIOUS
<1>1. CASE FreeAny
  <2>1. PICK f \in 0 .. total :
          \/ pmm_free_frame(f)
          \/ \E n \in 0 .. MaxRun : pmm_free_contiguous_frames(f, n)
    BY <1>1 DEF FreeAny
  <2>2. f \in Nat
    BY Types DEF PInv
  <2> QED
    BY <2>1, <2>2, FreeStep, SizesAssumption
    DEF pmm_free_frame, pmm_free_contiguous_frames
<1> QED
  BY <1>1, StutterStep, InitializeEntryStep, AllocateStep DEF Next

(* The invariant holds in every state of every behaviour. *)
LEMMA PmmInvariance == Spec => []PInv
  BY InitPInv, NextPInv, PTL DEF Spec

(* Type correctness: the hint never leaves the bitmap, the count of used   *)
(* frames never wraps below zero nor exceeds the frames there are.         *)
THEOREM PmmTypeCorrect == Spec => []TypeOK
<1>1. PInv => TypeOK
  BY DEF PInv
<1> QED
  BY <1>1, PmmInvariance, PTL

(* g_used_frames counts the used bits of the bitmap, whatever clients free. *)
THEOREM UsedFramesCounted == Spec => []Accounting
<1>1. PInv => Accounting
  BY DEF PInv, Accounting
<1> QED
  BY <1>1, PmmInvariance, PTL

(* Memory beyond the last frame is never handed out. *)
THEOREM TailAlwaysUsed == Spec => []TailUsed
<1>1. PInv => TailUsed
  BY DEF PInv
<1> QED
  BY <1>1, PmmInvariance, PTL

(* No frame that holds a byte of the kernel or of the bitmap is ever free. *)
THEOREM KernelAlwaysProtected == Spec => []KernelProtected
<1>1. PInv => KernelProtected
  <2> SUFFICES ASSUME PInv, NEW f \in Frames, f # 0,
                      f * FrameSize < KernelEnd + BitmapBytes(total),
                      (f + 1) * FrameSize > KernelStart
               PROVE  f \in Reserved
    BY DEF KernelProtected, PInv, ReservedUsed, Reserved
  <2>1. /\ f \in Nat /\ total \in Nat /\ BitmapBytes(total) \in Nat
        /\ FrameSize \in Nat \ {0} /\ KernelStart \in Nat /\ KernelEnd \in Nat
        /\ f + 1 \in Nat
    BY Types, KernelBounds, SizesAssumption DEF PInv, Frames
  <2>2. KernelFirst <= f /\ KernelFirst \in Nat
    <3>1. KernelStart < (f + 1) * FrameSize
      BY <2>1
    <3>2. KernelStart \div FrameSize < f + 1
      BY <2>1, <3>1, QuotientBelow
    <3> QED
      BY <2>1, <3>2, KernelBounds DEF KernelFirst, frame_index
  <2> DEFINE last == KernelEnd + BitmapBytes(total) + FrameSize - 1
  <2>3. /\ (f + 1) * FrameSize <= last
        /\ last \in Nat
    BY <2>1
  <2> HIDE DEF last
  <2>4. f + 1 <= last \div FrameSize /\ last \div FrameSize \in Nat
    BY <2>1, <2>3, Quotient, QuotientAbove
  <2>5. KernelLast = (last \div FrameSize) - 1
    BY DEF KernelLast, RoundUp, frame_index, last
  <2> QED
    BY <2>1, <2>2, <2>4, <2>5 DEF Reserved
<1> QED
  BY <1>1, PmmInvariance, PTL

(* When no bit of the bitmap is clear, every frame is counted as used. *)
LEMMA FullMeansExhausted ==
  ASSUME PInv, Bits \subseteq used
  PROVE  used_count = total
<1>1. total \in Nat /\ Frames \subseteq Bits
  BY Types DEF PInv
<1>2. used \cap Frames = 0 .. total - 1
  BY <1>1 DEF Frames
<1>3. Cardinality(0 .. total - 1) = total
  BY <1>1, FS_Interval
<1> QED
  BY <1>2, <1>3 DEF PInv, UsedCounted

(* Only a failed request for one frame leaves this refusal. *)
LEMMA OneFrameRefused ==
  ASSUME PInv, Next, refused' = OneFrame
  PROVE  \/ AllocateFrameFails
         \/ InitializeEntry /\ refused = OneFrame
<1>1. /\ Nothing # OneFrame
      /\ \A n \in 0 .. MaxRun : Contiguous(n) # OneFrame
  BY DEF Nothing, OneFrame, Contiguous
<1> HIDE DEF Nothing, OneFrame, Contiguous
<1>2. ~pmm_allocate_frame
  BY <1>1 DEF pmm_allocate_frame, HandOut
<1>3. ASSUME NEW n \in 0 .. MaxRun
      PROVE  ~pmm_allocate_contiguous_frames(n) /\ ~AllocateContiguousFails(n)
  BY <1>1
  DEF pmm_allocate_contiguous_frames, AllocateContiguousFails, HandOut
<1>4. ~FreeAny
  BY <1>1
  DEF FreeAny, pmm_free_frame, pmm_free_contiguous_frames, Free, TakeBack
<1> QED
  BY <1>2, <1>3, <1>4 DEF Next, Allocate, InitializeEntry

(* A null from pmm_allocate_frame means that pmm_free_frames is zero. *)
THEOREM NullAlwaysMeansExhausted == Spec => []NullMeansExhausted
<1> DEFINE NInv == PInv /\ NullMeansExhausted
<1>1. Init => NInv
  BY InitPInv DEF Init, NullMeansExhausted, Nothing, OneFrame
<1>2. NInv /\ [Next]_vars => NInv'
  <2> SUFFICES ASSUME NInv, [Next]_vars PROVE NInv'
    OBVIOUS
  <2>1. PInv'
    BY NextPInv
  <2>2. CASE AllocateFrameFails
    <3>1. Bits \subseteq used
      BY <2>2, HintBounds DEF PInv, AllocateFrameFails, NoFreeBit, Bits
    <3>2. used_count = total
      BY <3>1, FullMeansExhausted
    <3> QED
      BY <2>1, <2>2, <3>2 DEF AllocateFrameFails, Ready, NullMeansExhausted
  <2>3. CASE InitializeEntry
    <3>1. refused' # OneFrame
      BY <2>3 DEF PInv, TypeOK, InitializeEntry, Nothing, OneFrame
    <3> QED
      BY <2>1, <3>1 DEF NullMeansExhausted
  <2>4. CASE UNCHANGED vars
    BY <2>1, <2>4 DEF vars, NullMeansExhausted
  <2> QED
    BY <2>1, <2>2, <2>3, <2>4, OneFrameRefused DEF NullMeansExhausted
<1> QED
  BY <1>1, <1>2, PTL DEF Spec

(* Only a failed request for n frames leaves this refusal. *)
LEMMA ContiguousRefused ==
  ASSUME PInv, Next, NEW n \in 1 .. MaxRun, refused' = Contiguous(n)
  PROVE  AllocateContiguousFails(n)
<1>1. /\ Nothing # Contiguous(n) /\ OneFrame # Contiguous(n)
      /\ \A m \in 0 .. MaxRun : Contiguous(m) = Contiguous(n) => m = n
  BY DEF Nothing, OneFrame, Contiguous
<1>2. ~InitializeEntry
  BY <1>1 DEF InitializeEntry, PInv, TypeOK
<1> HIDE DEF Nothing, OneFrame, Contiguous
<1>3. ~pmm_allocate_frame /\ ~AllocateFrameFails
  BY <1>1 DEF pmm_allocate_frame, AllocateFrameFails, HandOut
<1>4. ASSUME NEW m \in 0 .. MaxRun
      PROVE  /\ ~pmm_allocate_contiguous_frames(m)
             /\ AllocateContiguousFails(m) => m = n
  BY <1>1
  DEF pmm_allocate_contiguous_frames, AllocateContiguousFails, HandOut
<1>5. ~FreeAny
  BY <1>1
  DEF FreeAny, pmm_free_frame, pmm_free_contiguous_frames, Free, TakeBack
<1> QED
  BY <1>2, <1>3, <1>4, <1>5 DEF Next, Allocate

(* A contiguous request fails only when every free run of its length       *)
(* crosses search_begin: the two passes miss nothing else.                 *)
THEOREM OnlyRunsAcrossHintMissed == Spec => []MissedRunsCrossHint
<1> DEFINE MInv == PInv /\ MissedRunsCrossHint
<1>1. Init => MInv
  BY InitPInv DEF Init, MissedRunsCrossHint, Nothing, Contiguous
<1>2. MInv /\ [Next]_vars => MInv'
  <2> SUFFICES ASSUME MInv, [Next]_vars PROVE MissedRunsCrossHint'
    BY NextPInv
  <2>1. CASE UNCHANGED vars
    BY <2>1 DEF vars, MissedRunsCrossHint, Fits, Run, HintBit, Bits, EndBit,
                BitmapBytes
  <2>2. CASE Next
    <3> SUFFICES ASSUME NEW n \in 1 .. MaxRun, refused' = Contiguous(n),
                        NEW s \in Bits', Fits(s, n, 0, EndBit)'
                 PROVE  (s < HintBit /\ HintBit < s + n)'
      BY DEF MissedRunsCrossHint
    <3>1. /\ n # 0 /\ NoContiguous(n, EndBit)
          /\ UNCHANGED <<total, used, search_begin>>
      BY <2>2, ContiguousRefused, SizesAssumption
      DEF AllocateContiguousFails, Ready
    <3>2. /\ s \in Bits /\ Fits(s, n, 0, EndBit) /\ HintBit' = HintBit
      BY <3>1 DEF Bits, EndBit, BitmapBytes, Fits, HintBit
    <3>3. /\ EndBit \in Nat /\ HintBit \in Nat /\ HintBit <= EndBit
          /\ s \in Nat /\ s < EndBit /\ n \in Nat
      BY <3>2, HintBounds, SizesAssumption DEF PInv, Bits
    <3>4. s < HintBit
      BY <3>1, <3>2, <3>3 DEF NoContiguous, NoFit, Fits
    <3>5. HintBit < s + n
      BY <3>1, <3>2, <3>3, <3>4 DEF NoContiguous, NoFit, Fits
    <3> QED
      BY <3>2, <3>4, <3>5
  <2> QED
    BY <2>1, <2>2
<1> QED
  BY <1>1, <1>2, PTL DEF Spec

(* Frames that were just freed together can be allocated again at once.    *)
THEOREM FreedRunAlwaysFits == Spec => FreedRunFits
<1>1. ASSUME PInv, [Next]_vars, next_entry' = next_entry, used' # used,
             used' \subseteq used
      PROVE  \A n \in 1 .. total :
               n = Cardinality(used \ used') => CanAllocate(n)'
  <2> SUFFICES ASSUME NEW n \in 1 .. total, n = Cardinality(used \ used')
               PROVE  CanAllocate(n)'
    OBVIOUS
  <2>1. TypeOK /\ total \in Nat
    BY <1>1, Types DEF PInv
  <2>2. FreeAny
    <3>1. ~(UNCHANGED vars) /\ ~InitializeEntry
      BY <1>1 DEF vars, InitializeEntry, PInv, TypeOK
    <3>2. ~Refuses
      BY <1>1 DEF Refuses, managerVars
    <3>3. ~HandsOutFreeRun
      BY <1>1 DEF HandsOutFreeRun, HandOut, set_range_used
    <3> QED
      BY <1>1, <2>1, <3>1, <3>2, <3>3, AllocateCases DEF Next
  <2>3. PICK start \in Nat, k \in Nat : Ready /\ Free(start, k)
    <3>1. \A f \in 0 .. total : f \in Nat
      BY <2>1
    <3> QED
      BY <2>2, <3>1, SizesAssumption
      DEF FreeAny, pmm_free_frame, pmm_free_contiguous_frames
  <2>4. FreeResult(start, k) = "success"
    BY <1>1, <2>3 DEF Free
  <2>5. /\ k # 0 /\ start < total /\ k <= total - start
        /\ Run(start, k) \subseteq used
    BY <2>1, <2>3, <2>4 DEF FreeResult
  <2>6. /\ used' = used \ Run(start, k) /\ total' = total
        /\ search_begin' = LeastOf(bitmap_index(start), search_begin)
    BY <2>3, <2>4 DEF Free, TakeBack, set_range_free, Ready
  <2>7. n = k
    <3>1. used \ used' = Run(start, k)
      BY <2>5, <2>6
    <3> QED
      BY <1>1, <2>3, <3>1, RunSize
  <2>8. HintBit' \in Nat /\ HintBit' <= start
    <3>1. /\ bitmap_index(start) \in Nat /\ search_begin \in Nat
          /\ bitmap_index(start) * ByteBits <= start
          /\ ByteBits \in Nat
      <4>1. ByteBits \in Nat \ {0}
        BY SizesAssumption
      <4>2. search_begin \in Nat
        BY <2>1, KernelBounds DEF TypeOK
      <4>3. start \div ByteBits \in Nat /\ ByteBits * (start \div ByteBits) <= start
        BY <2>3, <4>1, Quotient
      <4>4. ByteBits * (start \div ByteBits) = (start \div ByteBits) * ByteBits
        BY <4>1, <4>3
      <4> QED
        BY <4>1, <4>2, <4>3, <4>4 DEF bitmap_index
    <3>2. /\ search_begin' \in Nat /\ search_begin' <= bitmap_index(start)
      BY <2>6, <3>1 DEF LeastOf
    <3> HIDE DEF bitmap_index
    <3>3. /\ search_begin' * ByteBits <= bitmap_index(start) * ByteBits
          /\ search_begin' * ByteBits \in Nat
          /\ bitmap_index(start) * ByteBits \in Nat
      BY <3>1, <3>2, ProductMonotone
    <3>4. HintBit' = search_begin' * ByteBits
      BY DEF HintBit
    <3> DEFINE hint == search_begin' * ByteBits
               byte == bitmap_index(start) * ByteBits
    <3>5. hint \in Nat /\ byte \in Nat /\ hint <= byte /\ byte <= start
      BY <3>1, <3>3
    <3> HIDE DEF hint, byte
    <3>6. hint <= start
      BY <2>3, <3>5
    <3> QED
      BY <3>4, <3>5, <3>6 DEF hint
  <2>9. EndBit' \in Nat /\ start + k <= EndBit'
    BY <2>1, <2>3, <2>5, <2>6, KernelBounds DEF EndBit, BitmapBytes
  <2>10. Fits(start, n, HintBit, EndBit)'
    BY <2>6, <2>7, <2>8, <2>9 DEF Fits
  <2> DEFINE S == {s \in Nat : Fits(s, n, HintBit, EndBit)'}
  <2>11. PICK s \in S : \A m \in S : s <= m
    <3>1. S \subseteq Nat /\ S # {}
      BY <2>3, <2>10
    <3> HIDE DEF S
    <3> QED
      BY <3>1, LeastNumber
  <2>12. LeftmostFit(s, n, HintBit, EndBit)'
    <3>1. \A t \in HintBit' .. s - 1 : t \in Nat /\ t < s
      BY <2>8
    <3>2. \A t \in HintBit' .. s - 1 : ~Fits(t, n, HintBit, EndBit)'
      BY <2>11, <3>1
    <3> QED
      BY <2>11, <3>2 DEF LeftmostFit
  <2>13. s \in Bits'
    <3>1. s \in Nat /\ n \in Nat /\ n >= 1 /\ s + n <= EndBit'
      BY <2>1, <2>11 DEF Fits
    <3> HIDE DEF S
    <3>2. s \in 0 .. EndBit' - 1
      BY <2>9, <3>1, RunStartsBelow
    <3> QED
      BY <3>2 DEF Bits
  <2> QED
    BY <2>12, <2>13 DEF CanAllocate, FindContiguous
<1> QED
  BY <1>1, PmmInvariance, PTL DEF Spec, FreedRunFits

(* An allocation counts as many frames as it newly hands out: none of them *)
(* is held by another client, whatever clients free.                       *)
THEOREM FramesNeverShared == Spec => NeverSharedFrames
<1>1. ASSUME PInv, [Next]_vars, used_count' > used_count
      PROVE  Cardinality(owned' \ owned) = used_count' - used_count
  <2>1. used_count \in Nat /\ total \in Nat
    BY <1>1, Types DEF PInv, TypeOK
  <2>2. CASE HandsOutFreeRun
    <3>1. PICK start \in Nat, n \in Nat \ {0} :
            /\ Run(start, n) \cap used = {}
            /\ HandOut(start, n)
      BY <2>2 DEF HandsOutFreeRun
    <3>2. owned' \ owned = Run(start, n) /\ used_count' = used_count + n
      BY <1>1, <3>1 DEF HandOut, set_range_used, PInv
    <3> QED
      BY <2>1, <3>1, <3>2, RunSize
  <2>3. CASE InitializeEntry
    <3>1. FreedBy(map[next_entry]) \subseteq Frames
      BY <1>1, <2>1, <2>3, Types, FreedByBounds
      DEF InitializeEntry, PInv, TypeOK
    <3>2. /\ Cardinality(FreedBy(map[next_entry])) \in Nat
          /\ Cardinality({}) \in Nat
      BY <2>1, <3>1, FramesFinite, FS_EmptySet
    <3>3. used_count' <= used_count
      BY <2>1, <2>3, <3>2 DEF InitializeEntry
    <3> QED
      BY <1>1, <2>1, <3>2, <3>3, <2>3 DEF InitializeEntry
  <2>4. CASE FreeAny
    <3>1. used_count' <= used_count
      BY <2>1, <2>4
      DEF FreeAny, pmm_free_frame, pmm_free_contiguous_frames, Free, TakeBack, set_range_free
    <3> QED
      BY <1>1, <2>1, <3>1, <2>4
      DEF FreeAny, pmm_free_frame, pmm_free_contiguous_frames, Free, TakeBack, set_range_free
  <2>5. CASE UNCHANGED managerVars
    BY <1>1, <2>1, <2>5 DEF managerVars
  <2> QED
    BY <1>1, <2>2, <2>3, <2>4, <2>5, AllocateCases
    DEF Next, PInv, Refuses, vars, managerVars
<1> QED
  BY <1>1, PmmInvariance, PTL DEF NeverSharedFrames, Spec

-----------------------------------------------------------------------------
(* No frame leaks, whatever clients allocate and free. *)
CInv == PInv /\ Conservation

(* Every call of the interface preserves conservation. *)
LEMMA ConservedStep == CInv /\ [Next]_vars => CInv'
<1> SUFFICES ASSUME CInv, [Next]_vars PROVE CInv'
  OBVIOUS
<1> USE DEF CInv
<1>1. /\ total \in Nat /\ Len(map) \in Nat /\ DOMAIN map = 1 .. Len(map)
      /\ \A i \in DOMAIN map : map[i] \in Entry
      /\ next_entry \in Nat /\ next_entry >= 1 /\ owned \subseteq Bits
      /\ Frames \subseteq Bits
  BY Types DEF PInv, TypeOK
<1>2. ASSUME UNCHANGED <<map, total, next_entry>>
      PROVE  FreedFrames' = FreedFrames /\ Bits' = Bits
  BY <1>2
  DEF FreedFrames, FreedBy, KernelFirst, KernelLast, BitmapBytes, Bits, EndBit
<1>3. CASE InitializeEntry
  <2> DEFINE freed == IF map[next_entry].usable
                        THEN FreedBy(map[next_entry]) ELSE {}
  <2>1. /\ next_entry \in 1 .. Len(map) /\ next_entry' = next_entry + 1
        /\ used' = used \ freed /\ UNCHANGED <<map, total, owned, donated>>
        /\ owned = {}
    BY <1>1, <1>3 DEF InitializeEntry, PInv
  <2>2. FreedFrames' = FreedFrames \cup freed
    <3>1. 1 .. (next_entry + 1) - 1 = (1 .. next_entry - 1) \cup {next_entry}
      BY <1>1
    <3>2. FreedFrames' =
            UNION {FreedBy(map[i]) :
                     i \in {j \in 1 .. (next_entry + 1) - 1 : map[j].usable}}
      BY <2>1
      DEF FreedFrames, FreedBy, KernelFirst, KernelLast, BitmapBytes
    <3> QED
      BY <3>1, <3>2 DEF FreedFrames
  <2>3. Bits' = Bits
    BY <2>1 DEF Bits, EndBit, BitmapBytes
  <2> HIDE DEF freed
  <2>4. Conservation'
    BY <2>1, <2>2, <2>3 DEF Conservation, Pool
  <2> QED
    BY <1>3, <2>4, InitializeEntryStep
<1>4. CASE HandsOutFreeRun /\ Ready
  <2>1. PICK start \in Nat, n \in Nat \ {0} :
          /\ Run(start, n) \subseteq Bits /\ Run(start, n) \cap used = {}
          /\ HandOut(start, n)
    BY <1>4 DEF HandsOutFreeRun
  <2>2. FreedFrames' = FreedFrames /\ Bits' = Bits
    BY <1>2, <1>4 DEF Ready
  <2>3. Conservation'
    BY <2>1, <2>2 DEF Conservation, Pool, HandOut, set_range_used
  <2> QED
    BY <1>4, <2>1, <2>3, HandOutStep
<1>5. CASE FreeAny
  <2>1. PICK f \in Nat, n \in Nat : Ready /\ Free(f, n)
    <3>1. PICK f \in 0 .. total :
            \/ pmm_free_frame(f)
            \/ \E n \in 0 .. MaxRun : pmm_free_contiguous_frames(f, n)
      BY <1>5 DEF FreeAny
    <3> QED
      BY <1>1, <3>1, SizesAssumption
      DEF pmm_free_frame, pmm_free_contiguous_frames
  <2>2. FreedFrames' = FreedFrames /\ Bits' = Bits
    BY <1>2, <2>1 DEF Ready
  <2>3. ASSUME FreeResult(f, n) # "success" PROVE Conservation'
    <3>1. UNCHANGED <<used, owned, donated>>
      BY <2>1, <2>3 DEF Free
    <3> QED
      BY <2>2, <3>1 DEF Conservation, Pool
  <2>4. ASSUME FreeResult(f, n) = "success" PROVE Conservation'
    <3> DEFINE run == Run(f, n)
    <3>1. run \subseteq Bits
      BY <1>1, <2>1, <2>4 DEF FreeResult, Run, Frames
    <3>2. /\ used' = used \ run /\ owned' = owned \ run
          /\ donated' = donated \cup (run \ owned)
      BY <2>1, <2>4 DEF Free, TakeBack, set_range_free
    <3> HIDE DEF run
    <3>3. Pool' = Pool \cup (run \ owned)
      BY <2>2, <3>2 DEF Pool
    <3>4. owned' \subseteq Pool'
      BY <3>2, <3>3 DEF Conservation
    <3>5. Pool' \ owned' = (Pool \ owned) \cup run
      BY <3>2, <3>3 DEF Conservation
    <3>6. used' = Bits \ ((Pool \ owned) \cup run)
      BY <3>2 DEF Conservation
    <3> QED
      BY <2>2, <3>4, <3>5, <3>6 DEF Conservation
  <2> QED
    BY <2>1, <2>3, <2>4, FreeStep
<1>6. ASSUME UNCHANGED managerVars PROVE Conservation'
  BY <1>2, <1>6 DEF managerVars, Conservation, Pool
<1>7. CASE Ready /\ Refuses
  BY <1>1, <1>6, <1>7, IdleStep DEF Ready, Refuses
<1>8. CASE UNCHANGED vars
  BY <1>6, <1>8, StutterStep DEF vars, managerVars
<1> QED
  BY <1>3, <1>4, <1>5, <1>7, <1>8, AllocateCases DEF Next, PInv

(* The free frames are the usable and donated ones that no client holds. *)
THEOREM AlwaysConserved == Spec => []Conservation
<1>1. Init => CInv
  <2> SUFFICES ASSUME Init PROVE Conservation
    BY InitPInv DEF CInv
  <2>1. Pool = {} /\ used = Bits /\ owned = {}
    BY DEF Init, Pool, FreedFrames, Bits, EndBit
  <2> QED
    BY <2>1 DEF Conservation
<1>2. CInv => Conservation
  BY DEF CInv
<1> QED
  BY <1>1, <1>2, ConservedStep, PTL DEF Spec

-----------------------------------------------------------------------------
(* Powers of two, which the prover knows as the number of subsets only.    *)

(* A set with one more element has twice as many subsets. *)
LEMMA PowerOfTwo ==
  ASSUME NEW n \in Nat
  PROVE  2 ^ n \in Nat /\ 2 ^ (n + 1) = 2 * 2 ^ n
<1>. DEFINE x == n + 1
            A == SUBSET (1 .. n)
            B == {T \cup {x} : T \in A}
            f == [T \in A |-> T \cup {x}]
<1>1. /\ IsFiniteSet(1 .. n) /\ Cardinality(1 .. n) = n
      /\ IsFiniteSet(1 .. x) /\ Cardinality(1 .. x) = x
  BY FS_Interval
<1>2. /\ IsFiniteSet(A) /\ Cardinality(A) = 2 ^ n
      /\ Cardinality(SUBSET (1 .. x)) = 2 ^ (n + 1)
  BY <1>1, FS_SUBSET
<1>3. \A T \in A : x \notin T
  OBVIOUS
<1>4. f \in Bijection(A, B)
  <2>1. \A S, T \in A : S \cup {x} = T \cup {x} => S = T
    BY <1>3
  <2>2. f \in [A -> B] /\ \A U \in B : \E T \in A : f[T] = U
    OBVIOUS
  <2>. QED BY <2>1, <2>2 DEF Bijection, Injection, Surjection, IsInjective
<1>5. IsFiniteSet(B) /\ Cardinality(B) = 2 ^ n
  BY <1>2, <1>4, FS_Bijection DEF ExistsBijection
<1>6. A \cap B = {}
  BY <1>3
<1>7. A \cup B = SUBSET (1 .. x)
  <2>1. 1 .. x = (1 .. n) \cup {x}
    OBVIOUS
  <2>2. ASSUME NEW U \in SUBSET (1 .. x) PROVE U \in A \cup B
    <3>1. CASE x \in U
      <4>1. U \ {x} \in A /\ U = (U \ {x}) \cup {x}
        BY <2>1, <3>1
      <4>. QED BY <4>1
    <3>2. CASE x \notin U
      BY <2>1, <3>2
    <3>. QED BY <3>1, <3>2
  <2>3. ASSUME NEW U \in A \cup B PROVE U \in SUBSET (1 .. x)
    BY <2>1
  <2>. QED BY <2>2, <2>3
<1>8. Cardinality(A) \in Nat
  BY <1>2, FS_CardinalityType
<1>9. Cardinality(A \cup B) = Cardinality(A) + Cardinality(B) - Cardinality(A \cap B)
  BY <1>2, <1>5, FS_Union
<1>10. Cardinality(A \cap B) = 0
  BY <1>6, FS_EmptySet
<1>11. Cardinality(A \cup B) = 2 ^ (n + 1)
  BY <1>2, <1>7
<1>. HIDE DEF A, B, f, x
<1>12. 2 ^ n \in Nat
  BY <1>2, <1>8
<1>13. 2 ^ (n + 1) = 2 ^ n + 2 ^ n - 0
  BY <1>2, <1>5, <1>9, <1>10, <1>11
<1>14. \A p \in Nat : p + p - 0 = 2 * p
  OBVIOUS
<1>15. 2 ^ n + 2 ^ n - 0 = 2 * 2 ^ n
  BY <1>12, <1>14, Zenon
<1>. QED BY <1>12, <1>13, <1>15, Zenon

(* They grow with the exponent, ... *)
LEMMA PowerMonotone ==
  ASSUME NEW m \in Nat, NEW n \in Nat, m <= n
  PROVE  2 ^ m <= 2 ^ n
<1>. DEFINE Bad == {k \in Nat : m <= k /\ ~(2 ^ m <= 2 ^ k)}
<1>. SUFFICES ASSUME Bad # {} PROVE FALSE
  OBVIOUS
<1>1. PICK k \in Bad : \A j \in Bad : k <= j
  BY LeastNumber
<1>2. k # m /\ m <= k /\ k \in Nat
  BY PowerOfTwo
<1>3. k - 1 \in Nat /\ m <= k - 1 /\ k - 1 \notin Bad
  BY <1>1, <1>2
<1>4. 2 ^ m <= 2 ^ (k - 1)
  BY <1>3
<1>5. 2 ^ (k - 1) \in Nat /\ 2 ^ ((k - 1) + 1) = 2 * 2 ^ (k - 1) /\ (k - 1) + 1 = k
  BY <1>3, PowerOfTwo
<1>6. 2 ^ m \in Nat /\ 2 ^ k = 2 * 2 ^ (k - 1)
  BY <1>5, PowerOfTwo
<1>. QED BY <1>1, <1>4, <1>5, <1>6

(* ... and exceed it. *)
LEMMA PowerExceeds ==
  ASSUME NEW n \in Nat
  PROVE  n < 2 ^ n
<1>. DEFINE Bad == {k \in Nat : ~(k < 2 ^ k)}
<1>. SUFFICES ASSUME Bad # {} PROVE FALSE
  OBVIOUS
<1>1. PICK k \in Bad : \A j \in Bad : k <= j
  BY LeastNumber
<1>2. 0 < 2 ^ 0
  OBVIOUS
<1>3. k \in Nat /\ k # 0
  BY <1>2, Zenon
<1>4. k - 1 \in Nat /\ k - 1 \notin Bad /\ (k - 1) + 1 = k
  BY <1>1, <1>3
<1>5. k - 1 < 2 ^ (k - 1) /\ 2 ^ (k - 1) \in Nat
      /\ 2 ^ ((k - 1) + 1) = 2 * 2 ^ (k - 1)
  BY <1>4, PowerOfTwo
<1>6. 2 ^ k = 2 * 2 ^ (k - 1)
  BY <1>4, <1>5
<1>7. \A p \in Nat : k - 1 < p => k < 2 * p
  BY <1>4
<1>8. k < 2 * 2 ^ (k - 1)
  BY <1>5, <1>7
<1>. QED BY <1>1, <1>6, <1>8
-----------------------------------------------------------------------------
(* array_of_shifts finds the runs of a word.                               *)

(* highest_of_2 exists for every request. *)
LEMMA HighestPower ==
  ASSUME frames \in Nat \ {0}
  PROVE  /\ HighestOf2 \in 1 .. frames
         /\ \E n \in Nat : HighestOf2 = 2 ^ n
         /\ frames < 2 * HighestOf2
<1>. DEFINE Above == {k \in Nat : frames < 2 ^ k}
            P(d) == (\E n \in 0 .. frames : d = 2 ^ n) /\ frames < 2 * d
<1>1. frames \in Above
  BY PowerExceeds
<1>2. PICK k \in Above : \A j \in Above : k <= j
  BY <1>1, LeastNumber
<1>3. ~(frames < 2 ^ 0)
  OBVIOUS
<1>4. k \in Nat /\ k # 0 /\ k <= frames
  BY <1>1, <1>2, <1>3
<1>5. k - 1 \in Nat /\ k - 1 \notin Above /\ (k - 1) + 1 = k
  BY <1>2, <1>4
<1>6. 2 ^ (k - 1) \in Nat /\ 2 ^ ((k - 1) + 1) = 2 * 2 ^ (k - 1)
  BY <1>5, PowerOfTwo
<1>7. ~(frames < 2 ^ (k - 1)) /\ frames < 2 ^ k /\ 2 ^ k = 2 * 2 ^ (k - 1)
  BY <1>2, <1>5, <1>6
<1>8. PICK d \in Nat : d = 2 ^ (k - 1)
  BY <1>6
<1>9. d \in 1 .. frames /\ frames < 2 * d
  BY <1>7, <1>8
<1>10. P(d)
  BY <1>4, <1>8, <1>9
<1>11. HighestOf2 \in 1 .. frames /\ P(HighestOf2)
  <2>. HIDE DEF P
  <2>1. HighestOf2 = CHOOSE e \in 1 .. frames : P(e)
    BY DEF HighestOf2, P
  <2>. QED BY <1>9, <1>10, <2>1
<1>. QED BY <1>11

(* The recursive function of space is what its equations say. *)
LEMMA NarrowedUnfolds ==
  ASSUME NEW free, NEW step, NEW size \in Nat
  PROVE  \E f : /\ Narrowed(free, step, size) = f[size]
                /\ f[0] = free
                /\ \A n \in 1 .. size :
                     f[n] = {b \in f[n - 1] : b + step[n] \in f[n - 1]}
<1>. DEFINE Solves(f, k) ==
              f = [n \in 0 .. k |->
                     IF n = 0 THEN free
                     ELSE {b \in f[n - 1] : b + step[n] \in f[n - 1]}]
            Bad == {k \in Nat : ~\E f : Solves(f, k)}
<1>1. Bad = {}
  <2>. SUFFICES ASSUME Bad # {} PROVE FALSE
    OBVIOUS
  <2>1. PICK k \in Bad : \A j \in Bad : k <= j
    BY LeastNumber
  <2>2. CASE k = 0
    <3>. DEFINE f == [n \in 0 .. 0 |-> free]
    <3>1. Solves(f, 0)
      OBVIOUS
    <3>. QED BY <2>1, <2>2, <3>1
  <2>3. CASE k # 0
    <3>1. k - 1 \in Nat /\ k - 1 \notin Bad
      <4>. HIDE DEF Solves
      <4>1. k \in Nat /\ k - 1 \in Nat /\ ~(k <= k - 1)
        BY <2>3
      <4>. HIDE DEF Bad
      <4>. QED BY <2>1, <4>1
    <3>2. PICK f : Solves(f, k - 1)
      BY <3>1
    <3>. DEFINE next == {b \in f[k - 1] : b + step[k] \in f[k - 1]}
                g == [n \in 0 .. k |-> IF n = k THEN next ELSE f[n]]
    <3>3. \A n \in 0 .. k :
            g[n] = IF n = 0 THEN free
                   ELSE {b \in g[n - 1] : b + step[n] \in g[n - 1]}
      <4>. TAKE n \in 0 .. k
      <4>1. CASE n = k
        <5>1. g[k] = next /\ g[k - 1] = f[k - 1]
          BY <3>1
        <5>. QED BY <2>3, <4>1, <5>1
      <4>2. CASE n # k /\ n # 0
        <5>1. n \in 0 .. k - 1 /\ n - 1 \in 0 .. k - 1 /\ n \in 0 .. k /\ n - 1 \in 0 .. k
          BY <2>1, <4>2
        <5>2. f[n] = {b \in f[n - 1] : b + step[n] \in f[n - 1]}
          BY <3>2, <4>2, <5>1
        <5>3. g[n] = f[n] /\ g[n - 1] = f[n - 1]
          BY <2>1, <4>2, <5>1
        <5>. QED BY <4>2, <5>2, <5>3
      <4>3. CASE n # k /\ n = 0
        <5>1. f[0] = free
          BY <3>1, <3>2
        <5>. QED BY <4>3, <5>1
      <4>. QED BY <4>1, <4>2, <4>3
    <3>4. Solves(g, k)
      BY <3>3
    <3>. QED BY <2>1, <3>4
  <2>. QED BY <2>2, <2>3
<1>. DEFINE inv == CHOOSE f : Solves(f, size)
<1>2. Solves(inv, size)
  <2>. HIDE DEF Solves
  <2>1. \E f : Solves(f, size)
    BY <1>1
  <2>. QED BY <2>1
<1>3. Narrowed(free, step, size) = inv[size]
  BY DEF Narrowed
<1>. HIDE DEF inv
<1>4. inv[0] = free /\ \A n \in 1 .. size :
                        inv[n] = {b \in inv[n - 1] : b + step[n] \in inv[n - 1]}
  BY <1>2
<1>. QED BY <1>3, <1>4

(* The numbers of a set that m numbers of it in a row begin with. *)
Starts(free, m) == {b \in free : \A i \in 0 .. m - 1 : b + i \in free}

(* What one step of space keeps. *)
Shifted(S, d) == {b \in S : b + d \in S}

(* A shift by no more than the length known extends it by the shift. *)
LEMMA ShiftExtends ==
  ASSUME NEW free, free \subseteq Int, NEW m \in Nat, NEW d \in Nat, 1 <= m, d <= m
  PROVE  Shifted(Starts(free, m), d) = Starts(free, m + d)
<1>1. ASSUME NEW b \in Starts(free, m), b + d \in Starts(free, m)
      PROVE  b \in Starts(free, m + d)
  <2>. SUFFICES ASSUME NEW i \in 0 .. m + d - 1 PROVE b + i \in free
    BY DEF Starts
  <2>1. CASE i < m
    BY <2>1 DEF Starts
  <2>2. CASE i >= m
    <3>1. i - d \in 0 .. m - 1 /\ b + i = (b + d) + (i - d)
      BY <2>2 DEF Starts
    <3>. QED BY <1>1, <3>1 DEF Starts
  <2>. QED BY <2>1, <2>2
<1>2. ASSUME NEW b \in Starts(free, m + d)
      PROVE  b \in Starts(free, m) /\ b + d \in Starts(free, m)
  <2>1. b \in Int /\ b \in free /\ \A i \in 0 .. m + d - 1 : b + i \in free
    BY DEF Starts
  <2>2. b \in Starts(free, m)
    BY <2>1 DEF Starts
  <2>3. b + d \in free
    BY <2>1
  <2>4. ASSUME NEW i \in 0 .. m - 1 PROVE (b + d) + i \in free
    <3>1. i + d \in 0 .. m + d - 1 /\ (b + d) + i = b + (i + d)
      BY <2>1
    <3>. QED BY <2>1, <3>1
  <2>. QED BY <2>2, <2>3, <2>4 DEF Starts
<1>3. Starts(free, m + d) \subseteq Starts(free, m)
  BY <1>2
<1>. QED BY <1>1, <1>2, <1>3 DEF Shifted
(* The shifts double the length that is known until it is the highest      *)
(* power of two of the request; the last one adds the rest.                *)
LEMMA SpaceFinds ==
  ASSUME frames \in Nat \ {0},
         NEW bits \in Nat, frames < bits, \E n \in 1 .. bits : 2 ^ n = bits,
         NEW free, free \subseteq Int
  PROVE  Space(free, bits) = Starts(free, frames)
<1>. DEFINE N == ArraySize(bits)
            H == HighestOf2
            Known(n) == IF 2 ^ n < H THEN 2 ^ n ELSE H
<1>1. N \in 1 .. bits /\ 2 ^ N = bits
  BY DEF ArraySize
<1>2. PICK k \in Nat : H = 2 ^ k
  BY HighestPower
<1>3. H \in 1 .. frames /\ frames < 2 * H
  BY HighestPower
<1>4. PICK f : /\ Space(free, bits) = f[N]
               /\ f[0] = free
               /\ \A n \in 1 .. N : f[n] = Shifted(f[n - 1], ArrayOfShifts(bits)[n])
  BY <1>1, NarrowedUnfolds DEF Space, Shifted
<1>. HIDE DEF N, H
<1>5. ArrayOfShifts(bits)[N] = frames - H
  BY <1>1 DEF ArrayOfShifts, N, H
<1>6. \A n \in 1 .. N - 1 :
        ArrayOfShifts(bits)[n] = IF 2 ^ (n - 1) < H THEN 2 ^ (n - 1) ELSE 0
  BY <1>1 DEF ArrayOfShifts, Doubling, N, H
<1>7. \A n \in Nat : 2 ^ n \in Nat
  BY PowerOfTwo
<1>8. \A n \in Nat : Known(n) \in Nat
  BY <1>3, <1>7
<1>9. \A n \in Nat : n <= N - 1 => f[n] = Starts(free, Known(n))
  <2>. DEFINE Bad == {n \in Nat : n <= N - 1 /\ f[n] # Starts(free, Known(n))}
  <2>. SUFFICES ASSUME Bad # {} PROVE FALSE
    OBVIOUS
  <2>. HIDE DEF Known
  <2>1. PICK n \in Bad : \A j \in Bad : n <= j
    BY LeastNumber
  <2>2. CASE n = 0
    <3>1. Known(0) = 1
      <4>1. 2 ^ 0 = 1
        OBVIOUS
      <4>. QED BY <1>3, <4>1 DEF Known
    <3>2. Starts(free, 1) = free
      <4>1. \A b \in free : b + 0 = b
        OBVIOUS
      <4>. QED BY <4>1 DEF Starts
    <3>. QED BY <1>4, <2>1, <2>2, <3>1, <3>2
  <2>3. CASE n # 0
    <3>1. n - 1 \in Nat /\ n \in 1 .. N - 1 /\ n \in 1 .. N /\ ~(n <= n - 1) /\ n - 1 <= N - 1
      BY <1>1, <2>1, <2>3
    <3>2. f[n - 1] = Starts(free, Known(n - 1))
      BY <2>1, <3>1
    <3>3. PICK p \in Nat : p = 2 ^ (n - 1)
      BY <1>7, <3>1
    <3>4. 2 ^ n = 2 * p
      <4>1. 2 ^ ((n - 1) + 1) = 2 * 2 ^ (n - 1) /\ (n - 1) + 1 = n
        BY <3>1, PowerOfTwo
      <4>. QED BY <3>3, <4>1
    <3>5. 1 <= p /\ p <= p
      <4>1. n - 1 < 2 ^ (n - 1)
        BY <3>1, PowerExceeds
      <4>. QED BY <3>1, <3>3, <4>1
    <3>6. f[n] = Shifted(f[n - 1], IF p < H THEN p ELSE 0)
      BY <1>4, <1>6, <3>1, <3>3
    <3>7. CASE p < H
      <4>1. Known(n - 1) = p
        BY <3>3, <3>7 DEF Known
      <4>2. 2 * p <= H
        <5>1. CASE n <= k
          <6>1. 2 ^ n <= 2 ^ k
            BY <3>1, <5>1, PowerMonotone
          <6>. QED BY <1>2, <3>4, <6>1
        <5>2. CASE ~(n <= k)
          <6>1. k <= n - 1
            BY <3>1, <5>2
          <6>2. 2 ^ k <= 2 ^ (n - 1)
            BY <3>1, <6>1, PowerMonotone
          <6>3. H <= p
            BY <1>2, <3>3, <6>2
          <6>. QED BY <1>3, <3>7, <6>3
        <5>. QED BY <5>1, <5>2
      <4>3. Known(n) = p + p
        BY <1>3, <3>4, <4>2 DEF Known
      <4>4. f[n] = Shifted(Starts(free, p), p)
        BY <3>2, <3>6, <3>7, <4>1
      <4>5. Shifted(Starts(free, p), p) = Starts(free, p + p)
        BY <3>5, ShiftExtends
      <4>6. f[n] = Starts(free, p + p)
        BY <4>4, <4>5
      <4>. QED BY <2>1, <4>3, <4>6
    <3>8. CASE ~(p < H)
      <4>1. Known(n - 1) = H /\ Known(n) = H
        BY <1>3, <3>3, <3>4, <3>8 DEF Known
      <4>2. f[n] = Shifted(Starts(free, H), 0)
        BY <3>2, <3>6, <3>8, <4>1
      <4>3. \A b \in Starts(free, H) : b + 0 = b
        BY DEF Starts
      <4>4. f[n] = Starts(free, H)
        BY <4>2, <4>3 DEF Shifted
      <4>. QED BY <2>1, <4>1, <4>4
    <3>. QED BY <3>7, <3>8
  <2>. QED BY <2>2, <2>3
<1>10. N - 1 \in Nat /\ Known(N - 1) = H
  <2>1. k < N
    <3>1. CASE N <= k
      <4>1. 2 ^ N <= 2 ^ k
        BY <1>1, <3>1, PowerMonotone
      <4>2. bits <= H
        BY <1>1, <1>2, <4>1
      <4>. QED BY <1>3, <4>2
    <3>. QED BY <1>1, <3>1
  <2>2. N - 1 \in Nat /\ k <= N - 1
    BY <1>1, <2>1
  <2>3. 2 ^ k <= 2 ^ (N - 1)
    BY <2>2, PowerMonotone
  <2>4. PICK p \in Nat : p = 2 ^ (N - 1)
    BY <1>7, <2>2
  <2>5. H <= p
    BY <1>2, <2>3, <2>4
  <2>. QED BY <1>3, <2>2, <2>4, <2>5
<1>. HIDE DEF Known
<1>11. f[N - 1] = Starts(free, H)
  BY <1>9, <1>10
<1>12. f[N] = Shifted(Starts(free, H), frames - H)
  BY <1>1, <1>4, <1>5, <1>11
<1>13. frames - H \in Nat /\ frames - H <= H /\ H \in Nat /\ 1 <= H /\ H + (frames - H) = frames
  BY <1>3
<1>14. Shifted(Starts(free, H), frames - H) = Starts(free, H + (frames - H))
  BY <1>13, ShiftExtends
<1>. QED BY <1>4, <1>12, <1>13, <1>14
-----------------------------------------------------------------------------
(* What a lane does to the run that is carried along.                      *)

(* What RunTracked says of a place and the free bits directly before it. *)
Tracked(first, place, free) ==
  /\ first <= place - free
  /\ Run(place - free, free) \cap used = {}
  /\ first < place - free => place - free - 1 \in used
  /\ NoFit(frames, first, place)

(* A run that starts before the tracked one would contain the used bit in  *)
(* front of it, or end too early.                                          *)
LEMMA NoEarlierFit ==
  ASSUME frames \in Nat \ {0},
         NEW first \in Nat, NEW place \in Nat, NEW free \in Nat, NEW end \in Nat,
         Tracked(first, place, free), free < frames,
         NEW s \in first .. place - free - 1
  PROVE  ~Fits(s, frames, first, end)
<1>. SUFFICES ASSUME Fits(s, frames, first, end) PROVE FALSE
  OBVIOUS
<1>1. CASE s + frames <= place
  <2>1. Fits(s, frames, first, place)
    BY <1>1 DEF Fits
  <2>. QED BY <2>1 DEF Tracked, NoFit
<1>2. CASE s + frames > place
  <2>1. place - free - 1 \in Run(s, frames)
    BY <1>2 DEF Run
  <2>2. place - free - 1 \in used
    BY DEF Tracked
  <2>. QED BY <2>1, <2>2 DEF Fits
<1>. QED BY <1>1, <1>2

(* Free bits lengthen the run, up to the leftmost fit. *)
LEMMA FreeBits ==
  ASSUME frames \in Nat \ {0},
         NEW first \in Nat, NEW place \in Nat, NEW free \in Nat, NEW end \in Nat,
         Tracked(first, place, free), free < frames,
         NEW n \in Nat, Run(place, n) \cap used = {}, place + n <= end
  PROVE  /\ free + n >= frames => LeftmostFit(place - free, frames, first, end)
         /\ free + n < frames => Tracked(first, place + n, free + n)
<1>1. \A s \in first .. place - free - 1 : ~Fits(s, frames, first, end)
                                         /\ ~Fits(s, frames, first, place + n)
  BY NoEarlierFit
<1>2. Run(place - free, free + n) \cap used = {}
  <2>1. Run(place - free, free + n) = Run(place - free, free) \cup Run(place, n)
    BY DEF Run
  <2>. QED BY <2>1 DEF Tracked
<1>3. ASSUME free + n >= frames PROVE LeftmostFit(place - free, frames, first, end)
  <2>1. Run(place - free, frames) \subseteq Run(place - free, free + n)
    BY <1>3 DEF Run, Tracked
  <2>2. first <= place - free /\ place - free + frames <= end
    BY <1>3 DEF Tracked
  <2>3. Fits(place - free, frames, first, end)
    BY <1>2, <2>1, <2>2 DEF Fits
  <2>. QED BY <1>1, <2>3 DEF LeftmostFit
<1>4. ASSUME free + n < frames PROVE Tracked(first, place + n, free + n)
  <2>1. (place + n) - (free + n) = place - free
    OBVIOUS
  <2>2. NoFit(frames, first, place + n)
    <3>. SUFFICES ASSUME NEW s \in first .. place + n - 1,
                         Fits(s, frames, first, place + n)
                  PROVE  FALSE
      BY DEF NoFit
    <3>1. s + frames <= place + n
      BY DEF Fits
    <3>2. s \in first .. place - free - 1
      BY <1>4, <3>1 DEF Tracked
    <3>. QED BY <1>1, <3>2
  <2>. QED BY <1>2, <2>1, <2>2 DEF Tracked
<1>. QED BY <1>3, <1>4

(* A place behind a used bit: nothing is carried, nothing was missed. *)
LEMMA UsedBits ==
  ASSUME frames \in Nat \ {0},
         NEW first \in Nat, NEW place \in Nat, NEW free \in Nat,
         Tracked(first, place, free), free < frames,
         NEW n \in Nat \ {0}, Run(place, n) \subseteq used
  PROVE  Tracked(first, place + n, 0)
<1>1. NoFit(frames, first, place + n)
  <2>. SUFFICES ASSUME NEW s \in first .. place + n - 1,
                       Fits(s, frames, first, place + n)
                PROVE  FALSE
    BY DEF NoFit
  <2>1. s + frames <= place + n
    BY DEF Fits
  <2>2. CASE s + frames <= place
    <3>1. Fits(s, frames, first, place) /\ s \in first .. place - 1
      BY <2>2 DEF Fits
    <3>. QED BY <3>1 DEF Tracked, NoFit
  <2>3. CASE s + frames > place
    <3>1. s + frames - 1 \in Run(s, frames) /\ s + frames - 1 \in Run(place, n)
      BY <2>1, <2>3 DEF Run
    <3>. QED BY <3>1 DEF Fits
  <2>. QED BY <2>2, <2>3
<1>2. place + n - 0 - 1 \in Run(place, n)
  BY DEF Run
<1>3. Run(place + n - 0, 0) = {} /\ first <= place + n - 0
  BY DEF Run, Tracked
<1>. QED BY <1>1, <1>2, <1>3 DEF Tracked

(* The runs that space finds are the runs inside the word. *)
LEMMA InsideRuns ==
  ASSUME frames \in Nat \ {0}, NEW place \in Nat, NEW n \in Nat,
         NEW free, free = {b - place : b \in Run(place, n) \ used}
  PROVE  /\ free \subseteq Nat
         /\ \A b \in Int : b \in Starts(free, frames) <=>
                           Run(place + b, frames) \subseteq Run(place, n) \ used
<1>1. \A b \in Int : b \in free <=> place + b \in Run(place, n) \ used
  <2>. TAKE b \in Int
  <2>1. ASSUME b \in free PROVE place + b \in Run(place, n) \ used
    <3>1. PICK x \in Run(place, n) \ used : b = x - place
      BY <2>1
    <3>2. x \in Int /\ place + b = x
      BY <3>1 DEF Run
    <3>. QED BY <3>2
  <2>2. ASSUME place + b \in Run(place, n) \ used PROVE b \in free
    <3>1. b = (place + b) - place
      OBVIOUS
    <3>. QED BY <2>2, <3>1
  <2>. QED BY <2>1, <2>2
<1>2. free \subseteq Nat
  BY DEF Run
<1>3. ASSUME NEW b \in Int
      PROVE  b \in Starts(free, frames) <=>
             Run(place + b, frames) \subseteq Run(place, n) \ used
  <2>1. ASSUME b \in Starts(free, frames), NEW x \in Run(place + b, frames)
        PROVE  x \in Run(place, n) \ used
    <3>1. x \in Int /\ x - (place + b) \in 0 .. frames - 1
      BY DEF Run
    <3>2. b + (x - (place + b)) \in free
      BY <2>1, <3>1 DEF Starts
    <3>3. b + (x - (place + b)) \in Int /\ place + (b + (x - (place + b))) = x
      BY <3>1
    <3>. QED BY <1>1, <3>2, <3>3
  <2>2. ASSUME Run(place + b, frames) \subseteq Run(place, n) \ used
        PROVE  b \in Starts(free, frames)
    <3>1. \A i \in 0 .. frames - 1 : b + i \in free
      <4>. TAKE i \in 0 .. frames - 1
      <4>1. place + (b + i) \in Run(place + b, frames) /\ b + i \in Int
        BY DEF Run
      <4>. QED BY <1>1, <2>2, <4>1
    <3>2. b + 0 \in free /\ b + 0 = b
      BY <3>1
    <3>. QED BY <3>1, <3>2 DEF Starts
  <2>. QED BY <2>1, <2>2
<1>. QED BY <1>2, <1>3
(* A fit that is not over before the first used bit of a mixed lane lies   *)
(* inside the lane, or goes beyond it.                                     *)
LEMMA FitBehindUsed ==
  ASSUME frames \in Nat \ {0},
         NEW first \in Nat, NEW place \in Nat, NEW n \in Nat, NEW end \in Nat,
         NEW low \in Run(place, n) \cap used, NoFit(frames, first, low),
         NEW s \in Nat, Fits(s, frames, first, end), s + frames <= place + n
  PROVE  Run(s, frames) \subseteq Run(place, n) \ used
<1>1. low \in Nat /\ place <= low /\ low < place + n
  BY DEF Run
<1>2. ~(s + frames <= low)
  <2>. SUFFICES ASSUME s + frames <= low PROVE FALSE
    OBVIOUS
  <2>1. Fits(s, frames, first, low) /\ s \in first .. low - 1
    BY <1>1 DEF Fits
  <2>. QED BY <2>1 DEF NoFit
<1>3. ~(s <= low)
  <2>. SUFFICES ASSUME s <= low PROVE FALSE
    OBVIOUS
  <2>1. low \in Run(s, frames)
    BY <1>1, <1>2 DEF Run
  <2>. QED BY <2>1 DEF Fits
<1>4. Run(s, frames) \subseteq Run(place, n)
  BY <1>1, <1>3 DEF Run
<1>. QED BY <1>4 DEF Fits

(* A mixed lane: its first run, or the free bits behind its last used one. *)
LEMMA MixedBits ==
  ASSUME frames \in Nat \ {0},
         NEW first \in Nat, NEW place \in Nat, NEW n \in Nat, NEW end \in Nat,
         first <= place, place + n <= end,
         NEW low \in Run(place, n) \cap used, NoFit(frames, first, low),
         NEW high \in Run(place, n) \cap used,
         \A b \in Run(place, n) \cap used : b <= high,
         NEW inside,
         inside = Starts({b - place : b \in Run(place, n) \ used}, frames)
  PROVE  /\ \A m \in inside : (\A j \in inside : m <= j)
                               => LeftmostFit(place + m, frames, first, end)
         /\ inside = {} => /\ Tracked(first, place + n, place + n - 1 - high)
                           /\ place + n - 1 - high < frames
         /\ n <= frames => inside = {}
<1>1. /\ \A b \in Int : b \in inside <=>
                         Run(place + b, frames) \subseteq Run(place, n) \ used
      /\ inside \subseteq Nat
  <2>. DEFINE free == {b - place : b \in Run(place, n) \ used}
  <2>1. /\ free \subseteq Nat
        /\ \A b \in Int : b \in Starts(free, frames) <=>
                          Run(place + b, frames) \subseteq Run(place, n) \ used
    BY InsideRuns
  <2>2. inside = Starts(free, frames)
    OBVIOUS
  <2>. HIDE DEF free
  <2>3. inside \subseteq free
    BY <2>2 DEF Starts
  <2>. QED BY <2>1, <2>2, <2>3
<1>2. \A s \in Int : place + (s - place) = s
  OBVIOUS
<1>3. \A s \in Nat : Run(s, frames) \subseteq Run(place, n) \ used => s - place \in inside
  BY <1>1, <1>2
<1>4. high \in Nat /\ place <= high /\ high < place + n
  BY DEF Run
<1>5. ASSUME NEW m \in inside, \A j \in inside : m <= j
      PROVE  LeftmostFit(place + m, frames, first, end)
  <2>1. m \in Nat /\ Run(place + m, frames) \subseteq Run(place, n) \ used
    BY <1>1
  <2>2. place + m + frames <= place + n
    <3>1. place + m + frames - 1 \in Run(place + m, frames)
      BY <2>1 DEF Run
    <3>2. place + m + frames - 1 \in Run(place, n)
      BY <2>1, <3>1
    <3>. QED BY <2>1, <3>2 DEF Run
  <2>3. Fits(place + m, frames, first, end)
    BY <2>1, <2>2 DEF Fits
  <2>4. ASSUME NEW s \in first .. place + m - 1, Fits(s, frames, first, end)
        PROVE  FALSE
    <3>1. s \in Nat /\ s + frames <= place + n
      BY <2>1, <2>2
    <3>2. s - place \in inside
      BY <1>3, <2>4, <3>1, FitBehindUsed
    <3>. QED BY <1>5, <2>1, <3>1, <3>2
  <2>5. \A s \in first .. place + m - 1 : ~Fits(s, frames, first, end)
    BY <2>4
  <2>. QED BY <2>1, <2>3, <2>5 DEF LeftmostFit
<1>6. ASSUME inside = {}
      PROVE  /\ Tracked(first, place + n, place + n - 1 - high)
             /\ place + n - 1 - high < frames
  <2>. DEFINE behind == place + n - 1 - high
  <2>1. behind \in Nat /\ place + n - behind = high + 1 /\ high + 1 - 1 = high
    BY <1>4
  <2>2. \A b \in Run(high + 1, behind) : b \in Run(place, n) /\ b > high
    BY <1>4 DEF Run
  <2>3. Run(high + 1, behind) \cap used = {}
    BY <1>4, <2>2 DEF Run
  <2>4. NoFit(frames, first, place + n)
    <3>. SUFFICES ASSUME NEW s \in first .. place + n - 1,
                         Fits(s, frames, first, place + n)
                  PROVE  FALSE
      BY DEF NoFit
    <3>1. s \in Nat /\ s + frames <= place + n /\ place + n \in Nat
      BY DEF Fits
    <3>2. s - place \in inside
      BY <1>3, <3>1, FitBehindUsed
    <3>. QED BY <1>6, <3>2
  <2>5. behind < frames
    <3>. SUFFICES ASSUME frames <= behind PROVE FALSE
      BY <2>1
    <3>1. Run(high + 1, frames) \subseteq Run(high + 1, behind)
      BY <1>4, <2>1 DEF Run
    <3>2. Run(high + 1, frames) \subseteq Run(place, n) \ used
      BY <2>2, <2>3, <3>1
    <3>3. high + 1 \in Nat
      BY <1>4
    <3>4. PICK s \in Nat : s = high + 1
      BY <3>3
    <3>5. s - place \in inside
      BY <1>3, <3>2, <3>4
    <3>. QED BY <1>6, <3>5
  <2>. HIDE DEF behind
  <2>6. Tracked(first, place + n, behind)
    BY <1>4, <2>1, <2>3, <2>4 DEF Tracked
  <2>. QED BY <2>5, <2>6 DEF behind
<1>7. ASSUME n <= frames, NEW b \in inside PROVE FALSE
  <2>1. b \in Nat /\ Run(place + b, frames) \subseteq Run(place, n) \ used
    BY <1>1
  <2>2. place + b \in Run(place + b, frames) /\ place + b + frames - 1 \in Run(place + b, frames)
    BY <2>1 DEF Run
  <2>3. place + b \in Run(place, n) /\ place + b + frames - 1 \in Run(place, n)
    BY <2>1, <2>2
  <2>4. Run(place, n) \subseteq Run(place + b, frames)
    BY <1>7, <2>1, <2>3 DEF Run
  <2>. QED BY <2>1, <2>4
<1>. QED BY <1>5, <1>6, <1>7

-----------------------------------------------------------------------------
(* Multiples of the lane widths.                                           *)

LEMMA Multiples ==
  ASSUME NEW i \in Nat, NEW w \in Nat \ {0}
  PROVE  i % w = 0 <=> \E k \in Nat : i = k * w
<1>1. i = (i \div w) * w + (i % w) /\ i \div w \in Nat
  OBVIOUS
<1>2. ASSUME NEW k \in Nat, i = k * w PROVE i % w = 0
  BY <1>2
<1>3. ASSUME i % w = 0 PROVE i = (i \div w) * w
  BY <1>1, <1>3
<1>. QED BY <1>1, <1>2, <1>3, Zenon

(* The next lane of the same width is aligned, and ends by every aligned   *)
(* end behind it.                                                          *)
LEMMA NextLane ==
  ASSUME NEW i \in Nat, NEW j \in Nat, NEW w \in Nat \ {0}, i % w = 0, j % w = 0
  PROVE  (i + w) % w = 0 /\ (i < j => i + w <= j)
<1>1. PICK k \in Nat : i = k * w
  BY Multiples
<1>2. PICK l \in Nat : j = l * w
  BY Multiples
<1>3. i + w = (k + 1) * w /\ k + 1 \in Nat /\ i + w \in Nat
  BY <1>1
<1>4. (i + w) % w = 0
  BY <1>3, Multiples
<1>5. ASSUME i < j PROVE i + w <= j
  <2>1. k < l
    <3>. SUFFICES ASSUME l <= k PROVE FALSE
      OBVIOUS
    <3>1. l * w <= k * w
      OBVIOUS
    <3>. QED BY <1>1, <1>2, <1>5, <3>1
  <2>2. (k + 1) * w <= l * w
    BY <2>1
  <2>. QED BY <1>2, <1>3, <2>2
<1>. QED BY <1>4, <1>5

(* A multiple of a width is one of every width that divides it. *)
LEMMA MultipleOfMultiple ==
  ASSUME NEW i \in Nat, NEW v \in Nat \ {0}, NEW w \in Nat \ {0},
         v % w = 0, i % v = 0
  PROVE  i % w = 0
<1>1. PICK k \in Nat : i = k * v
  BY Multiples
<1>2. PICK l \in Nat : v = l * w
  BY Multiples
<1>3. i = (k * l) * w /\ k * l \in Nat
  BY <1>1, <1>2
<1>. QED BY <1>3, Multiples

(* get_best_aligned_address and the ends of the sweeps. *)
LEMMA AlignedDown ==
  ASSUME NEW i \in Nat, NEW w \in Nat \ {0}
  PROVE  /\ AlignDown(i, w) \in Nat /\ AlignDown(i, w) % w = 0
         /\ AlignDown(i, w) <= i /\ i < AlignDown(i, w) + w
         /\ \A j \in Nat : j % w = 0 /\ j <= i => j <= AlignDown(i, w)
<1>1. i = (i \div w) * w + (i % w) /\ i \div w \in Nat /\ i % w \in 0 .. w - 1
  OBVIOUS
<1>2. AlignDown(i, w) = (i \div w) * w
  BY <1>1 DEF AlignDown
<1>3. AlignDown(i, w) \in Nat /\ AlignDown(i, w) <= i /\ i < AlignDown(i, w) + w
  BY <1>1, <1>2
<1>4. AlignDown(i, w) % w = 0
  BY <1>1, <1>2, <1>3, Multiples
<1>5. ASSUME NEW j \in Nat, j % w = 0, j <= i PROVE j <= AlignDown(i, w)
  <2>. SUFFICES ASSUME AlignDown(i, w) < j PROVE FALSE
    BY <1>3
  <2>1. AlignDown(i, w) + w <= j
    BY <1>3, <1>4, <1>5, NextLane
  <2>. QED BY <1>3, <1>5, <2>1
<1>. QED BY <1>3, <1>4, <1>5

LEMMA AlignedUp ==
  ASSUME NEW i \in Nat, NEW w \in Nat \ {0}
  PROVE  AlignUp(i, w) \in Nat /\ AlignUp(i, w) % w = 0 /\ i <= AlignUp(i, w)
<1>1. i + w - 1 \in Nat
  OBVIOUS
<1>. QED BY <1>1, AlignedDown DEF AlignUp
-----------------------------------------------------------------------------
(* The inductive invariant.                                                *)

Aligned(address, width) == address % width = 0

(* Every core loop ends at an aligned place of the pass, a nested one at   *)
(* the end of a lane of the loop around it.                                *)
LoopsNested ==
  /\ loops[1].tier = TierOf(phase)
  /\ \A i \in DOMAIN loops :
       /\ Aligned(loops[i].end, Widths[loops[i].tier])
       /\ loops[i].end <= PassEnd
       /\ i > 1 => Aligned(loops[i].end, Widths[loops[i - 1].tier])
  /\ \A i, j \in DOMAIN loops : i <= j => loops[j].end <= loops[i].end

(* The next lane is aligned to every width of the tiers so far, or no end  *)
(* of a lane of that width is left in the pass.                            *)
PlaceAligned ==
  /\ Len(loops) > 1 => Aligned(current, Widths[Inner.tier]) /\ current <= Inner.end
  /\ Len(loops) = 1 =>
       \A t \in 1 .. TierOf(phase) :
         Aligned(current, Widths[t]) \/ AlignDown(PassEnd, Widths[t]) < current

(* Where the loop of the phase ends: the next width is aligned there on    *)
(* the way up, and no full lane is left behind it from the top on.         *)
PhaseEnds ==
  IF phase < TopTier
    THEN /\ Aligned(loops[1].end, Widths[phase + 1])
         /\ \/ current <= loops[1].end
            \/ AlignDown(PassEnd, Widths[phase + 1]) < current
    ELSE loops[1].end = AlignDown(PassEnd, Widths[TierOf(phase)])

InPass == PassBegin(pass) <= current /\ current <= PassEnd

FirstPassDone == pass = 2 => NoFit(frames, HintBit, ScanEnd)

ScanInv ==
  /\ RunTracked /\ LoopsNested /\ PlaceAligned /\ PhaseEnds /\ InPass
  /\ FirstPassDone /\ FindsLeftmost

-----------------------------------------------------------------------------
(* Facts about the constants and about places in the pass.                 *)

(* The widths are numbers, and each divides the wider ones. *)
LEMMA WidthFacts ==
  /\ TopTier \in Nat /\ 1 <= TopTier /\ Tiers = 1 .. TopTier
  /\ \A t \in Tiers : Widths[t] \in Nat \ {0}
  /\ \A s, t \in Tiers : s <= t => Widths[t] % Widths[s] = 0
  /\ Widths[1] = 1
<1>1. TopTier \in Nat /\ 1 <= TopTier /\ Tiers = 1 .. TopTier
  BY WidthsAssumption DEF TopTier, Tiers
<1>2. \A t \in Tiers : Widths[t] \in Nat \ {0}
  BY WidthsAssumption DEF Tiers
<1>3. \A w \in Nat \ {0} : w % w = 0
  OBVIOUS
<1>4. ASSUME NEW s \in Tiers, NEW t \in Tiers, s <= t PROVE Widths[t] % Widths[s] = 0
  <2>1. CASE s = t
    BY <1>2, <1>3, <2>1
  <2>2. CASE s < t
    BY <2>2, WidthsAssumption
  <2>. QED BY <1>1, <1>4, <2>1, <2>2
<1>. QED BY <1>1, <1>2, <1>4, WidthsAssumption

(* The cores are called up the tiers and down again. *)
LEMMA TierFacts ==
  ASSUME NEW p \in 1 .. LastPhase
  PROVE  /\ TierOf(p) \in Tiers
         /\ p < TopTier => TierOf(p) = p /\ p + 1 \in Tiers /\ TierOf(p + 1) = p + 1
         /\ TopTier <= p => /\ TierOf(p + 1) = TierOf(p) - 1
                            /\ p = LastPhase <=> TierOf(p) = 1
         /\ LastPhase \in Nat /\ TopTier <= LastPhase
<1>1. TopTier \in Nat /\ 1 <= TopTier /\ Tiers = 1 .. TopTier
  BY WidthFacts
<1>2. LastPhase = 2 * TopTier - 1
  BY DEF LastPhase
<1>. QED BY <1>1, <1>2 DEF TierOf

(* A multiple of the width of a tier is one of every lower tier's. *)
LEMMA AlignedBelow ==
  ASSUME NEW i \in Nat, NEW t \in Tiers, Aligned(i, Widths[t]),
         NEW s \in Tiers, s <= t
  PROVE  Aligned(i, Widths[s])
  BY WidthFacts, MultipleOfMultiple DEF Aligned

(* The last aligned place comes earlier for a wider lane. *)
LEMMA AlignDownOrder ==
  ASSUME NEW i \in Nat, NEW s \in Tiers, NEW t \in Tiers, s <= t
  PROVE  AlignDown(i, Widths[t]) <= AlignDown(i, Widths[s])
<1>1. Widths[t] \in Nat \ {0} /\ Widths[s] \in Nat \ {0}
  BY WidthFacts
<1>2. AlignDown(i, Widths[t]) \in Nat /\ AlignDown(i, Widths[t]) <= i
      /\ Aligned(AlignDown(i, Widths[t]), Widths[t])
  BY <1>1, AlignedDown DEF Aligned
<1>3. Aligned(AlignDown(i, Widths[t]), Widths[s])
  BY <1>2, AlignedBelow
<1>. QED BY <1>1, <1>2, <1>3, AlignedDown DEF Aligned

(* A sequence that is not empty. *)
LEMMA Elements ==
  ASSUME NEW S, NEW s \in Seq(S), s # <<>>
  PROVE  /\ Len(s) \in Nat /\ 1 <= Len(s) /\ DOMAIN s = 1 .. Len(s)
         /\ \A i \in DOMAIN s : s[i] \in S
  OBVIOUS

(* The pass and the places in it. *)
LEMMA PassFacts ==
  ASSUME ScanTypeOK
  PROVE  /\ origin \in Nat /\ current \in Nat
         /\ PassBegin(1) \in Nat /\ PassBegin(2) \in Nat /\ PassEnd \in Nat
         /\ origin <= PassBegin(pass) /\ PassBegin(pass) \in Nat
         /\ PassBegin(pass) <= PassEnd /\ PassEnd <= origin + Bytes
         /\ frames \in Nat \ {0} /\ length \in Nat
         /\ Len(loops) \in Nat /\ 1 <= Len(loops) /\ DOMAIN loops = 1 .. Len(loops)
         /\ \A i \in DOMAIN loops : loops[i].tier \in Tiers /\ loops[i].end \in Nat
         /\ Inner = loops[Len(loops)] /\ Inner.tier \in Tiers /\ Inner.end \in Nat
         /\ Width \in Nat \ {0} /\ Width = Widths[Inner.tier]
         /\ pass \in 1 .. 2 /\ phase \in 1 .. LastPhase
<1>1. /\ Widths[TopTier] \in Nat \ {0} /\ \A t \in Tiers : Widths[t] \in Nat \ {0}
  BY WidthFacts
<1>2. origin \in Nat /\ Bytes \in Nat /\ search_begin \in 0 .. Bytes
  BY <1>1, ScanAssumption DEF ScanTypeOK
<1>3. /\ current \in Nat /\ pass \in 1 .. 2 /\ phase \in 1 .. LastPhase
      /\ frames \in Nat \ {0} /\ length \in Nat
  BY <1>2, ScanAssumption DEF ScanTypeOK
<1>4. /\ PassBegin(1) \in Nat /\ PassBegin(2) \in Nat /\ PassEnd \in Nat
      /\ origin <= PassBegin(pass) /\ PassBegin(pass) \in Nat
      /\ PassBegin(pass) <= PassEnd /\ PassEnd <= origin + Bytes
  BY <1>2, <1>3 DEF PassBegin, PassEnd
<1>5. /\ Len(loops) \in Nat /\ 1 <= Len(loops) /\ DOMAIN loops = 1 .. Len(loops)
      /\ \A i \in DOMAIN loops : loops[i] \in [tier : Tiers, end : Nat]
  <2>. DEFINE L == [tier : Tiers, end : Nat]
  <2>1. loops \in Seq(L) /\ loops # <<>>
    BY DEF ScanTypeOK
  <2>. HIDE DEF L
  <2>2. /\ Len(loops) \in Nat /\ 1 <= Len(loops) /\ DOMAIN loops = 1 .. Len(loops)
        /\ \A i \in DOMAIN loops : loops[i] \in L
    BY <2>1, Elements
  <2>. QED BY <2>2 DEF L
<1>6. Inner = loops[Len(loops)] /\ Inner \in [tier : Tiers, end : Nat]
  BY <1>5 DEF Inner
<1>7. Width \in Nat \ {0} /\ Width = Widths[Inner.tier]
  BY <1>1, <1>6 DEF Width
<1>. QED BY <1>2, <1>3, <1>4, <1>5, <1>6, <1>7

(* LanesAligned, and that a lane lies within its loop. *)
LEMMA LaneInLoop ==
  ASSUME ScanTypeOK, LoopsNested, PlaceAligned, InPass, InLane
  PROVE  /\ Aligned(current, Width)
         /\ current + Width <= Inner.end /\ Inner.end <= PassEnd
         /\ Aligned(current + Width, Width)
<1>. USE PassFacts
<1>1. /\ Aligned(Inner.end, Width) /\ Inner.end <= PassEnd /\ current < Inner.end
      /\ Inner.end \in Nat /\ current \in Nat /\ PassEnd \in Nat /\ Width \in Nat \ {0}
  BY DEF LoopsNested, InLane
<1>2. Aligned(current, Width)
  <2>1. CASE Len(loops) > 1
    BY <2>1 DEF PlaceAligned
  <2>2. CASE Len(loops) = 1
    <3>1. Inner.tier = TierOf(phase) /\ TierOf(phase) \in 1 .. TierOf(phase)
      BY <2>2, TierFacts, WidthFacts DEF LoopsNested
    <3>2. Aligned(current, Width) \/ AlignDown(PassEnd, Width) < current
      BY <2>2, <3>1 DEF PlaceAligned
    <3>3. Inner.end <= AlignDown(PassEnd, Width)
      BY <1>1, AlignedDown DEF Aligned
    <3>4. AlignDown(PassEnd, Width) \in Nat
      BY <1>1, AlignedDown
    <3>. QED BY <1>1, <3>2, <3>3, <3>4
  <2>. QED BY <2>1, <2>2
<1>. QED BY <1>1, <1>2, NextLane DEF Aligned

(* The bit behind the pass. *)
PassEndBit == (PassEnd - origin) * ByteBits

(* Bits and addresses: the lane is a run of bits within the pass. *)
LEMMA LaneBitsFacts ==
  ASSUME ScanTypeOK, LoopsNested, PlaceAligned, InPass, InLane
  PROVE  /\ FirstBit \in Nat /\ Position \in Nat /\ FirstBit <= Position
         /\ LaneBits \in Nat \ {0} /\ Lane = Run(Position, LaneBits)
         /\ PassEndBit \in Nat /\ Position + LaneBits <= PassEndBit
         /\ (current + Width - origin) * ByteBits = Position + LaneBits
<1>1. /\ origin \in Nat /\ current \in Nat /\ PassBegin(pass) \in Nat
      /\ origin <= PassBegin(pass) /\ PassBegin(pass) <= current
      /\ Width \in Nat \ {0} /\ ByteBits \in Nat \ {0}
      /\ current + Width <= PassEnd /\ PassEnd \in Nat
  <2>1. /\ origin \in Nat /\ current \in Nat /\ PassBegin(pass) \in Nat
        /\ origin <= PassBegin(pass) /\ Width \in Nat \ {0} /\ PassEnd \in Nat
        /\ Inner.end \in Nat
    BY PassFacts, Zenon
  <2>2. current + Width <= Inner.end /\ Inner.end <= PassEnd /\ ByteBits \in Nat \ {0}
    BY LaneInLoop, ScanAssumption, Zenon
  <2>3. PassBegin(pass) <= current
    BY DEF InPass
  <2>. QED BY <2>1, <2>2, <2>3
<1>. DEFINE c == current - origin
            b == PassBegin(pass) - origin
            e == PassEnd - origin
<1>2. c \in Nat /\ b \in Nat /\ e \in Nat /\ b <= c /\ c + Width <= e
      /\ current + Width - origin = c + Width
  BY <1>1
<1>. HIDE DEF c, b, e
<1>3. \A i, j, n \in Nat : i <= j => i * n <= j * n /\ i * n \in Nat /\ j * n \in Nat
  OBVIOUS
<1>4. (c + Width) * ByteBits = c * ByteBits + Width * ByteBits
  BY <1>1, <1>2
<1>5. Width * ByteBits \in Nat \ {0}
  BY <1>1
<1>6. c * ByteBits \in Nat /\ b * ByteBits \in Nat /\ b * ByteBits <= c * ByteBits
      /\ e * ByteBits \in Nat /\ (c + Width) * ByteBits <= e * ByteBits
  BY <1>1, <1>2, <1>3
<1>7. Position = c * ByteBits /\ FirstBit = b * ByteBits /\ PassEndBit = e * ByteBits
      /\ LaneBits = Width * ByteBits /\ Lane = Run(Position, LaneBits)
  BY DEF Position, FirstBit, PassEndBit, LaneBits, Lane, Run, c, b, e
<1>. QED BY <1>2, <1>4, <1>5, <1>6, <1>7

(* The passes, in bits. *)
LEMMA PassBits ==
  ASSUME ScanTypeOK
  PROVE  /\ pass = 1 => FirstBit = HintBit /\ PassEndBit = ScanEnd
         /\ pass = 2 => FirstBit = 0 /\ PassEndBit = HintBit
         /\ FirstBit \in Nat /\ PassEndBit \in Nat /\ HintBit \in Nat
         /\ FirstBit <= PassEndBit
<1>1. /\ origin \in Nat /\ Bytes \in Nat /\ ByteBits \in Nat /\ search_begin \in 0 .. Bytes
      /\ pass \in 1 .. 2
  BY PassFacts, ScanAssumption DEF ScanTypeOK
<1>2. /\ pass = 1 => PassBegin(pass) - origin = search_begin /\ PassEnd - origin = Bytes
      /\ pass = 2 => PassBegin(pass) - origin = 0 /\ PassEnd - origin = search_begin
  BY <1>1 DEF PassBegin, PassEnd
<1>3. \A i, j, n \in Nat : i <= j => i * n <= j * n /\ i * n \in Nat /\ j * n \in Nat
  OBVIOUS
<1>4. /\ search_begin * ByteBits \in Nat /\ Bytes * ByteBits \in Nat /\ 0 * ByteBits = 0
      /\ search_begin * ByteBits <= Bytes * ByteBits
  BY <1>1, <1>3
<1>. QED BY <1>1, <1>2, <1>4 DEF FirstBit, PassEndBit, HintBit, ScanEnd

-----------------------------------------------------------------------------
(* The two ways a lane ends: with a run, or with the next lane.            *)

(* A run that is found is the leftmost one of the pass. *)
LEMMA FoundKeeps ==
  ASSUME ScanInv, outcome = "searching",
         NEW f \in Nat, Found(f), LeftmostFit(f, frames, FirstBit, PassEndBit)
  PROVE  ScanInv'
<1>1. ScanTypeOK /\ FindsLeftmost /\ FirstPassDone
  BY DEF ScanInv, RunTracked
<1>2. /\ outcome' = "found" /\ start_frame' = f /\ length' = frames
      /\ UNCHANGED <<used, search_begin, origin, frames, pass, phase, loops, current>>
  BY DEF Found, inputs
<1>3. ScanTypeOK'
  <2>1. frames \in Nat
    BY <1>1, PassFacts
  <2>2. length' \in 0 .. frames /\ start_frame' \in Nat
    BY <1>2, <2>1
  <2>. QED BY <1>1, <1>2, <2>2 DEF ScanTypeOK, ScanEnd
<1>4. RunTracked'
  BY <1>2, <1>3 DEF RunTracked
<1>5. LoopsNested' /\ PlaceAligned' /\ PhaseEnds' /\ InPass' /\ FirstPassDone'
  BY <1>2 DEF ScanInv, LoopsNested, PlaceAligned, PhaseEnds, InPass, FirstPassDone,
              PassBegin, PassEnd, Inner, NoFit, Fits, HintBit, ScanEnd
<1>6. FindsLeftmost'
  <2>1. FindContiguous(f, frames, ScanEnd)
    <3>1. /\ pass \in 1 .. 2
          /\ pass = 1 => FirstBit = HintBit /\ PassEndBit = ScanEnd
          /\ pass = 2 => FirstBit = 0 /\ PassEndBit = HintBit
      BY <1>1, PassBits, PassFacts, Zenon
    <3>2. pass = 1 \/ pass = 2
      BY <3>1
    <3>. QED BY <1>1, <3>1, <3>2, Zenon DEF FindContiguous, FirstPassDone
  <2>. QED BY <1>2, <2>1 DEF FindsLeftmost, FindContiguous, LeftmostFit, NoFit, Fits,
                             Run, HintBit, ScanEnd
<1>. QED BY <1>4, <1>5, <1>6 DEF ScanInv

(* The next lane of a loop, with the free bits that are carried to it. *)
LEMMA AdvancedKeeps ==
  ASSUME ScanInv, InLane, Advance, length' \in 0 .. frames - 1,
         Tracked(FirstBit, Position + LaneBits, length')
  PROVE  ScanInv'
<1>1. ScanTypeOK /\ LoopsNested /\ PlaceAligned /\ PhaseEnds /\ InPass
      /\ FirstPassDone /\ FindsLeftmost
  BY DEF ScanInv, RunTracked
<1>2. /\ current' = current + Width /\ outcome = "searching"
      /\ UNCHANGED <<used, search_begin, origin, frames, pass, phase, loops,
                     start_frame, outcome>>
  BY DEF Advance, inputs, InLane
<1>3. /\ Aligned(current + Width, Width) /\ current + Width <= Inner.end
      /\ Inner.end <= PassEnd
  BY <1>1, LaneInLoop
<1>4. /\ current + Width \in Nat /\ current <= current + Width
      /\ current + Width \in origin .. origin + Bytes
      /\ PassBegin(pass) <= current + Width /\ current + Width <= PassEnd
      /\ Inner.end \in Nat
  <2>1. /\ current \in Nat /\ Width \in Nat /\ Inner.end \in Nat /\ PassEnd \in Nat
        /\ PassBegin(pass) \in Nat /\ origin \in Nat /\ origin <= PassBegin(pass)
        /\ PassEnd <= origin + Bytes
    BY <1>1, PassFacts
  <2>2. PassBegin(pass) <= current
    BY <1>1 DEF InPass
  <2>. QED BY <1>3, <2>1, <2>2, ScanAssumption
<1>5. ScanTypeOK'
  <2>1. frames \in Nat
    BY <1>1, PassFacts
  <2>2. length' \in 0 .. frames /\ length' < frames
    BY <2>1
  <2>. QED BY <1>1, <1>2, <1>4, <2>2 DEF ScanTypeOK, ScanEnd
<1>6. RunTracked'
  <2>1. Position' = Position + LaneBits
    <3>1. current' = current + Width /\ origin' = origin
      BY <1>2
    <3>2. Position' = (current' - origin') * ByteBits
      BY DEF Position
    <3>3. Position' = (current + Width - origin) * ByteBits
      <4>1. current \in Nat /\ Width \in Nat /\ origin \in Nat /\ ByteBits \in Nat
        BY <1>1, PassFacts, ScanAssumption
      <4>. QED BY <3>1, <3>2, <4>1
    <3>. QED BY <1>1, <3>3, LaneBitsFacts
  <2>2. FirstBit' = FirstBit
    BY <1>2 DEF FirstBit, PassBegin
  <2>. QED BY <1>2, <1>5, <2>1, <2>2 DEF RunTracked, Tracked, NoFit, Fits, Run
<1>7. LoopsNested' /\ FirstPassDone' /\ FindsLeftmost' /\ InPass'
  BY <1>1, <1>2, <1>4 DEF LoopsNested, FirstPassDone, FindsLeftmost, InPass, PassBegin,
                          PassEnd, NoFit, Fits, HintBit, ScanEnd
<1>8. PlaceAligned'
  <2>1. Aligned(current + Width, Widths[Inner.tier])
    BY <1>3 DEF Width
  <2>2. ASSUME Len(loops) = 1, NEW t \in 1 .. TierOf(phase)
        PROVE  Aligned(current + Width, Widths[t])
    <3>1. Inner.tier = TierOf(phase)
      BY <1>1, <2>2, PassFacts DEF LoopsNested
    <3>2. Inner.tier \in Tiers
      BY <1>1, PassFacts
    <3>3. t \in Tiers /\ t <= Inner.tier
      BY <3>1, <3>2, WidthFacts
    <3>. QED BY <1>4, <2>1, <3>2, <3>3, AlignedBelow
  <2>. QED BY <1>2, <1>3, <2>1, <2>2 DEF PlaceAligned, Inner
<1>9. PhaseEnds'
  <2>1. Inner.end <= loops[1].end /\ loops[1].end \in Nat
    <3>1. /\ Len(loops) \in Nat /\ 1 <= Len(loops) /\ DOMAIN loops = 1 .. Len(loops)
          /\ Inner = loops[Len(loops)] /\ \A i \in DOMAIN loops : loops[i].end \in Nat
      BY <1>1, PassFacts, Zenon
    <3>2. 1 \in DOMAIN loops /\ Len(loops) \in DOMAIN loops
      BY <3>1
    <3>. QED BY <1>1, <3>1, <3>2 DEF LoopsNested
  <2>2. current + Width <= loops[1].end
    BY <1>3, <1>4, <2>1
  <2>. QED BY <1>1, <1>2, <2>2 DEF PhaseEnds, PassEnd
<1>. QED BY <1>6, <1>7, <1>8, <1>9 DEF ScanInv

(* What the invariant says of the next lane. *)
LEMMA LaneTracked ==
  ASSUME ScanInv, InLane
  PROVE  /\ Tracked(FirstBit, Position, length) /\ length < frames
         /\ frames \in Nat \ {0} /\ length \in Nat
         /\ FirstBit \in Nat /\ Position \in Nat /\ FirstBit <= Position
         /\ LaneBits \in Nat \ {0} /\ Lane = Run(Position, LaneBits)
         /\ PassEndBit \in Nat /\ Position + LaneBits <= PassEndBit
         /\ Position - length \in Nat
<1>1. ScanTypeOK /\ LoopsNested /\ PlaceAligned /\ InPass
  BY DEF ScanInv, RunTracked
<1>2. Tracked(FirstBit, Position, length) /\ length < frames
  BY DEF ScanInv, RunTracked, ScanTypeOK, Tracked, InLane
<1>3. FirstBit \in Nat /\ Position \in Nat /\ length \in Nat
  BY <1>1, LaneBitsFacts, PassFacts
<1>4. Position - length \in Nat
  BY <1>2, <1>3 DEF Tracked
<1>. QED BY <1>1, <1>2, <1>4, LaneBitsFacts, PassFacts

LEMMA FreeLaneKeeps == ScanInv /\ FreeLane => ScanInv'
<1>. SUFFICES ASSUME ScanInv, FreeLane PROVE ScanInv'
  OBVIOUS
<1>1. InLane /\ outcome = "searching" /\ Run(Position, LaneBits) \cap used = {}
  BY LaneTracked DEF FreeLane, InLane
<1>2. /\ length + LaneBits >= frames
           => LeftmostFit(Position - length, frames, FirstBit, PassEndBit)
      /\ length + LaneBits < frames
           => Tracked(FirstBit, Position + LaneBits, length + LaneBits)
  BY <1>1, LaneTracked, FreeBits
<1>3. CASE length + LaneBits >= frames
  <2>1. Found(Position - length)
    BY <1>3 DEF FreeLane
  <2>. QED BY <1>1, <1>2, <1>3, <2>1, FoundKeeps, LaneTracked
<1>4. CASE length + LaneBits < frames
  <2>1. Advance /\ length' = length + LaneBits
    BY <1>1, <1>4, LaneTracked DEF FreeLane
  <2>2. length' \in 0 .. frames - 1
    BY <1>1, <1>4, <2>1, LaneTracked
  <2>. QED BY <1>1, <1>2, <1>4, <2>1, <2>2, AdvancedKeeps
<1>. QED BY <1>1, <1>3, <1>4, LaneTracked

LEMMA UsedLaneKeeps == ScanInv /\ UsedLane => ScanInv'
<1>. SUFFICES ASSUME ScanInv, UsedLane PROVE ScanInv'
  OBVIOUS
<1>1. InLane /\ Run(Position, LaneBits) \subseteq used /\ length' = 0 /\ Advance
  BY LaneTracked DEF UsedLane
<1>2. Tracked(FirstBit, Position + LaneBits, 0)
  BY <1>1, LaneTracked, UsedBits
<1>3. length' \in 0 .. frames - 1
  BY <1>1, LaneTracked
<1>. QED BY <1>1, <1>2, <1>3, AdvancedKeeps

(* The least and the greatest of a bounded set of numbers. *)
LEMMA LeastAndGreatest ==
  ASSUME NEW S, S \subseteq Nat, S # {}
  PROVE  /\ Min(S) \in S /\ \A m \in S : Min(S) <= m
         /\ \A n \in Nat : (\A m \in S : m < n)
                          => Max(S) \in S /\ \A m \in S : m <= Max(S)
<1>1. \E m \in S : \A n \in S : m <= n
  BY LeastNumber
<1>2. ASSUME NEW n \in Nat, \A m \in S : m < n
      PROVE  \E m \in S : \A k \in S : m >= k
  <2>. DEFINE B == {k \in Nat : \A m \in S : m <= k}
  <2>1. n \in B /\ B \subseteq Nat
    BY <1>2
  <2>2. PICK b \in B : \A k \in B : b <= k
    BY <2>1, LeastNumber
  <2>3. b \in Nat /\ \A m \in S : m <= b
    BY <2>2
  <2>4. b \in S
    <3>. SUFFICES ASSUME b \notin S PROVE FALSE
      OBVIOUS
    <3>1. PICK m \in S : TRUE
      OBVIOUS
    <3>2. m \in Nat /\ m < b
      BY <2>3
    <3>3. b - 1 \in Nat /\ \A k \in S : k <= b - 1
      BY <2>3, <3>2
    <3>. QED BY <2>2, <2>3, <3>3
  <2>. QED BY <2>3, <2>4
<1>. QED BY <1>1, <1>2 DEF Min, Max

LEMMA MixedWordKeeps == ScanInv /\ MixedWord => ScanInv'
<1>. SUFFICES ASSUME ScanInv, MixedWord PROVE ScanInv'
  OBVIOUS
<1>. DEFINE low == Min(Lane \cap used)
            high == Max(Lane \cap used)
            trailing == low - Position
            leading == Position + LaneBits - 1 - high
            free == {b - Position : b \in Lane \ used}
            inside == Space(free, LaneBits)
            starts == Starts(free, frames)
<1>1. InLane /\ Inner.tier <= ScalarTiers /\ Lane \cap used # {} /\ outcome = "searching"
  BY DEF MixedWord, Mixed, InLane
<1>2. IF length + trailing >= frames THEN Found(Position - length)
      ELSE IF frames < LaneBits /\ inside # {} THEN Found(Position + Min(inside))
           ELSE length' = leading /\ Advance
  BY DEF MixedWord
<1>3. /\ Tracked(FirstBit, Position, length) /\ length < frames
      /\ frames \in Nat \ {0} /\ length \in Nat
      /\ FirstBit \in Nat /\ Position \in Nat /\ FirstBit <= Position
      /\ LaneBits \in Nat \ {0} /\ Lane = Run(Position, LaneBits)
      /\ PassEndBit \in Nat /\ Position + LaneBits <= PassEndBit
      /\ Position - length \in Nat
  BY <1>1, LaneTracked
<1>4. /\ low \in Run(Position, LaneBits) \cap used
      /\ \A b \in Run(Position, LaneBits) \cap used : low <= b
      /\ high \in Run(Position, LaneBits) \cap used
      /\ \A b \in Run(Position, LaneBits) \cap used : b <= high
  <2>1. Lane \cap used \subseteq Nat /\ Position + LaneBits \in Nat
        /\ \A b \in Lane \cap used : b < Position + LaneBits
    BY <1>3 DEF Run
  <2>. QED BY <1>1, <1>3, <2>1, LeastAndGreatest
<1>5. low \in Nat /\ Position <= low /\ low < Position + LaneBits
  BY <1>3, <1>4 DEF Run
<1>. HIDE DEF low, high
<1>6. /\ trailing \in Nat /\ Run(Position, trailing) \cap used = {}
      /\ Position + trailing = low /\ Position + trailing <= PassEndBit
  <2>1. trailing \in Nat /\ Position + trailing = low /\ Position + trailing <= PassEndBit
    BY <1>3, <1>5
  <2>2. ASSUME NEW b \in Run(Position, trailing) PROVE b \notin used
    <3>1. b \in Run(Position, LaneBits) /\ b < low /\ b \in Nat
      BY <1>3, <1>5 DEF Run
    <3>. QED BY <1>4, <1>5, <3>1
  <2>. QED BY <2>1, <2>2
<1>. HIDE DEF trailing
<1>7. /\ length + trailing >= frames
           => LeftmostFit(Position - length, frames, FirstBit, PassEndBit)
      /\ length + trailing < frames => NoFit(frames, FirstBit, low)
  BY <1>3, <1>6, FreeBits DEF Tracked
<1>8. free = {b - Position : b \in Run(Position, LaneBits) \ used}
  BY <1>3
<1>. HIDE DEF free
<1>9. ASSUME length + trailing < frames
      PROVE  /\ \A m \in starts : (\A j \in starts : m <= j)
                    => LeftmostFit(Position + m, frames, FirstBit, PassEndBit)
             /\ starts = {} => /\ Tracked(FirstBit, Position + LaneBits, leading)
                               /\ leading < frames
             /\ LaneBits <= frames => starts = {}
  BY <1>3, <1>4, <1>7, <1>8, <1>9, MixedBits
<1>10. free \subseteq Nat /\ starts \subseteq Nat
  <2>1. free \subseteq Nat
    BY <1>3 DEF free, Run
  <2>. QED BY <2>1 DEF Starts
<1>11. frames < LaneBits => inside = starts
  <2>1. \E n \in 1 .. LaneBits : 2 ^ n = LaneBits
    <3>1. Inner.tier \in 1 .. ScalarTiers
      <4>1. Inner.tier \in Tiers
        BY PassFacts, Zenon DEF ScanInv, RunTracked
      <4>2. Tiers = 1 .. TopTier /\ TopTier \in Nat /\ ScalarTiers \in Tiers
        BY WidthFacts, ScanAssumption, Zenon
      <4>. QED BY <1>1, <4>1, <4>2
    <3>2. LaneBits = Widths[Inner.tier] * ByteBits
      BY Zenon DEF LaneBits, Width
    <3>. QED BY <3>1, <3>2, WordsAssumption, Zenon
  <2>2. free \subseteq Int
    BY <1>10
  <2>. QED BY <1>3, <2>1, <2>2, SpaceFinds
<1>12. CASE length + trailing >= frames
  BY <1>1, <1>2, <1>3, <1>7, <1>12, FoundKeeps
<1>13. CASE length + trailing < frames /\ frames < LaneBits /\ inside # {}
  <2>1. Min(starts) \in starts /\ \A j \in starts : Min(starts) <= j
    BY <1>10, <1>11, <1>13, LeastAndGreatest
  <2>2. LeftmostFit(Position + Min(starts), frames, FirstBit, PassEndBit)
    BY <1>9, <1>13, <2>1
  <2>3. Position + Min(starts) \in Nat
    BY <1>3, <1>10, <2>1
  <2>4. Found(Position + Min(starts))
    BY <1>2, <1>3, <1>6, <1>11, <1>13
  <2>. QED BY <1>1, <2>2, <2>3, <2>4, FoundKeeps
<1>14. CASE length + trailing < frames /\ ~(frames < LaneBits /\ inside # {})
  <2>1. starts = {}
    BY <1>3, <1>9, <1>11, <1>14
  <2>2. length' = leading /\ Advance
    BY <1>2, <1>3, <1>6, <1>14
  <2>3. Tracked(FirstBit, Position + LaneBits, leading) /\ leading < frames
    BY <1>9, <1>14, <2>1
  <2>4. leading \in Nat
    BY <1>3, <1>4 DEF Run
  <2>5. length' \in 0 .. frames - 1
    BY <1>3, <2>2, <2>3, <2>4
  <2>. QED BY <1>1, <2>2, <2>3, <2>5, AdvancedKeeps
<1>. QED BY <1>3, <1>6, <1>12, <1>13, <1>14

-----------------------------------------------------------------------------
(* The vector cores call the one below them, and return to the loop above. *)

(* A sequence with one more or one less element. *)
LEMMA Appended ==
  ASSUME NEW S, NEW s \in Seq(S), NEW e \in S
  PROVE  /\ Append(s, e) \in Seq(S) /\ Append(s, e) # <<>>
         /\ Len(Append(s, e)) = Len(s) + 1 /\ Append(s, e)[Len(s) + 1] = e
         /\ \A i \in 1 .. Len(s) : Append(s, e)[i] = s[i]
  OBVIOUS

LEMMA Shortened ==
  ASSUME NEW S, NEW s \in Seq(S), Len(s) > 1
  PROVE  /\ SubSeq(s, 1, Len(s) - 1) \in Seq(S) /\ SubSeq(s, 1, Len(s) - 1) # <<>>
         /\ Len(SubSeq(s, 1, Len(s) - 1)) = Len(s) - 1
         /\ \A i \in 1 .. Len(s) - 1 : SubSeq(s, 1, Len(s) - 1)[i] = s[i]
<1>1. \A i \in 1 .. Len(s) - 1 : s[i] \in S /\ s[1 + i - 1] = s[i]
  OBVIOUS
<1>2. PICK n \in Int : n = Len(s) - 1 /\ 1 <= n
  OBVIOUS
<1>3. /\ SubSeq(s, 1, n) \in Seq(S) /\ Len(SubSeq(s, 1, n)) = n - 1 + 1
      /\ \A i \in 1 .. n - 1 + 1 : SubSeq(s, 1, n)[i] = s[1 + i - 1]
  BY <1>1, <1>2, SubSeqProperties
<1>4. n - 1 + 1 = n
  OBVIOUS
<1>5. SubSeq(s, 1, n) # <<>>
  <2>1. PICK t : t = SubSeq(s, 1, n)
    OBVIOUS
  <2>2. Len(t) = n
    BY <1>3, <1>4, <2>1, Zenon
  <2>3. t # <<>>
    BY <1>2, <2>2
  <2>. QED BY <2>1, <2>3
<1>. QED BY <1>1, <1>2, <1>3, <1>4, <1>5

LoopType == [tier : Tiers, end : Nat]

(* What does not depend on the loops. *)
LEMMA LoopsChange ==
  ASSUME ScanInv, loops' \in Seq(LoopType), loops' # <<>>, phase' \in 1 .. LastPhase,
         UNCHANGED <<used, search_begin, origin, frames, pass, current, length,
                     start_frame, outcome>>,
         LoopsNested', PlaceAligned', PhaseEnds'
  PROVE  ScanInv'
<1>1. RunTracked /\ InPass /\ FirstPassDone /\ FindsLeftmost /\ ScanTypeOK
  BY DEF ScanInv, RunTracked
<1>2. ScanTypeOK'
  BY <1>1 DEF ScanTypeOK, ScanEnd, LoopType
<1>3. RunTracked'
  BY <1>1, <1>2 DEF RunTracked, FirstBit, PassBegin, Position, NoFit, Fits, Run
<1>4. InPass' /\ FirstPassDone'
  BY <1>1 DEF InPass, FirstPassDone, PassBegin, PassEnd, NoFit, Fits, Run, HintBit, ScanEnd
<1>5. FindsLeftmost'
  BY <1>1 DEF FindsLeftmost, FindContiguous, NoContiguous, LeftmostFit, NoFit, Fits, Run,
              HintBit, ScanEnd
<1>. QED BY <1>3, <1>4, <1>5 DEF ScanInv

LEMMA MixedVectorKeeps == ScanInv /\ MixedVector => ScanInv'
<1>. SUFFICES ASSUME ScanInv, MixedVector PROVE ScanInv'
  OBVIOUS
<1>. DEFINE n == Len(loops)
            inner == [tier |-> Inner.tier - 1, end |-> current + Width]
<1>1. /\ InLane /\ Inner.tier > ScalarTiers /\ loops' = Append(loops, inner)
      /\ UNCHANGED <<used, search_begin, origin, frames, pass, phase, current, length,
                     start_frame, outcome>>
  BY DEF MixedVector, inputs
<1>2. ScanTypeOK /\ LoopsNested /\ PlaceAligned /\ PhaseEnds /\ InPass
  BY DEF ScanInv, RunTracked
<1>3. /\ Aligned(current, Width) /\ current + Width <= Inner.end
      /\ Inner.end <= PassEnd /\ Aligned(current + Width, Width)
  BY <1>1, <1>2, LaneInLoop
<1>4. /\ current \in Nat /\ Width \in Nat \ {0} /\ Width = Widths[Inner.tier]
      /\ current + Width \in Nat /\ PassEnd \in Nat /\ Inner.end \in Nat
      /\ n \in Nat /\ 1 <= n /\ DOMAIN loops = 1 .. n /\ Inner = loops[n]
      /\ Inner.tier \in Tiers /\ loops \in Seq(LoopType) /\ phase \in 1 .. LastPhase
      /\ \A i \in 1 .. n : loops[i].end \in Nat
  <2>1. loops \in Seq(LoopType)
    BY <1>2 DEF ScanTypeOK, LoopType
  <2>2. /\ current \in Nat /\ Width \in Nat \ {0} /\ Width = Widths[Inner.tier]
        /\ PassEnd \in Nat /\ Inner.end \in Nat /\ Inner.tier \in Tiers
        /\ n \in Nat /\ 1 <= n /\ DOMAIN loops = 1 .. n /\ Inner = loops[n]
        /\ phase \in 1 .. LastPhase /\ \A i \in DOMAIN loops : loops[i].end \in Nat
    BY <1>2, PassFacts, Zenon
  <2>3. current + Width \in Nat
    BY <2>2
  <2>. HIDE DEF n
  <2>. QED BY <2>1, <2>2, <2>3
<1>5. Inner.tier - 1 \in Tiers /\ Inner.tier - 1 <= Inner.tier
  <2>1. Tiers = 1 .. TopTier /\ TopTier \in Nat /\ ScalarTiers \in Tiers
    BY WidthFacts, ScanAssumption, Zenon
  <2>2. Inner.tier \in Tiers /\ Inner.tier > ScalarTiers
    BY <1>1, <1>4, Zenon
  <2>. QED BY <2>1, <2>2
<1>6. inner \in LoopType /\ inner.tier = Inner.tier - 1 /\ inner.end = current + Width
  BY <1>4, <1>5 DEF LoopType
<1>. HIDE DEF inner
<1>7. /\ loops' \in Seq(LoopType) /\ loops' # <<>> /\ Len(loops') = n + 1
      /\ loops'[n + 1] = inner /\ \A i \in 1 .. n : loops'[i] = loops[i]
      /\ DOMAIN loops' = 1 .. n + 1
  <2>1. DOMAIN loops' = 1 .. Len(loops')
    BY <1>1, <1>4, <1>6, Appended, Elements
  <2>. QED BY <1>1, <1>4, <1>6, <2>1, Appended
<1>8. /\ Aligned(current, Widths[inner.tier]) /\ Aligned(inner.end, Widths[inner.tier])
      /\ Aligned(inner.end, Widths[loops[n].tier])
  BY <1>3, <1>4, <1>5, <1>6, AlignedBelow
<1>. HIDE DEF n
<1>9. LoopsNested'
  <2>1. PassEnd' = PassEnd /\ TierOf(phase)' = TierOf(phase)
    BY <1>1 DEF PassEnd, TierOf
  <2>2. loops'[1].tier = TierOf(phase)
    BY <1>2, <1>4, <1>7 DEF LoopsNested
  <2>3. ASSUME NEW i \in 1 .. n + 1
        PROVE  /\ Aligned(loops'[i].end, Widths[loops'[i].tier])
               /\ loops'[i].end <= PassEnd
               /\ i > 1 => Aligned(loops'[i].end, Widths[loops'[i - 1].tier])
    <3>1. CASE i = n + 1
      <4>1. i - 1 = n /\ inner.end <= PassEnd
        BY <1>3, <1>4, <1>6, <3>1
      <4>. QED BY <1>4, <1>7, <1>8, <3>1, <4>1
    <3>2. CASE i \in 1 .. n
      <4>1. i > 1 => i - 1 \in 1 .. n
        BY <1>4, <3>2
      <4>. QED BY <1>2, <1>4, <1>7, <3>2, <4>1 DEF LoopsNested
    <3>. QED BY <1>4, <3>1, <3>2
  <2>4. ASSUME NEW i \in 1 .. n + 1, NEW j \in 1 .. n + 1, i <= j
        PROVE  loops'[j].end <= loops'[i].end
    <3>1. CASE j = n + 1 /\ i = n + 1
      BY <1>4, <1>6, <1>7, <3>1
    <3>2. CASE j = n + 1 /\ i \in 1 .. n
      <4>1. loops[n].end <= loops[i].end
        <5>1. i \in DOMAIN loops /\ n \in DOMAIN loops /\ i <= n
          BY <1>4, <3>2
        <5>. QED BY <1>2, <5>1, Zenon DEF LoopsNested
      <4>2. loops'[j].end = current + Width /\ loops'[i].end = loops[i].end
        BY <1>6, <1>7, <3>2
      <4>3. current + Width <= loops[n].end
        BY <1>3, <1>4
      <4>4. loops[n].end \in Int /\ loops[i].end \in Int /\ current + Width \in Int
        BY <1>3, <1>4, <1>6, <3>2 DEF LoopType
      <4>. QED BY <4>1, <4>2, <4>3, <4>4
    <3>3. CASE j \in 1 .. n /\ i \in 1 .. n
      BY <1>2, <1>4, <1>7, <2>4, <3>3 DEF LoopsNested
    <3>. QED BY <1>4, <2>4, <3>1, <3>2, <3>3
  <2>. QED BY <1>7, <2>1, <2>2, <2>3, <2>4 DEF LoopsNested
<1>10. PlaceAligned'
  <2>1. Inner' = inner /\ Len(loops') > 1
    BY <1>4, <1>7 DEF Inner
  <2>. QED BY <1>1, <1>4, <1>6, <1>7, <1>8, <2>1 DEF PlaceAligned
<1>11. PhaseEnds'
  BY <1>1, <1>2, <1>4, <1>7 DEF PhaseEnds, PassEnd, TierOf
<1>. QED BY <1>1, <1>4, <1>7, <1>9, <1>10, <1>11, LoopsChange

LEMMA LeaveVectorKeeps == ScanInv /\ LeaveVector => ScanInv'
<1>. SUFFICES ASSUME ScanInv, LeaveVector PROVE ScanInv'
  OBVIOUS
<1>. DEFINE n == Len(loops)
<1>1. /\ current >= Inner.end /\ n > 1 /\ loops' = SubSeq(loops, 1, n - 1)
      /\ UNCHANGED <<used, search_begin, origin, frames, pass, phase, current, length,
                     start_frame, outcome>>
  BY DEF LeaveVector, inputs
<1>2. ScanTypeOK /\ LoopsNested /\ PlaceAligned /\ PhaseEnds
  BY DEF ScanInv, RunTracked
<1>3. /\ current \in Nat /\ Inner.end \in Nat
      /\ n \in Nat /\ DOMAIN loops = 1 .. n /\ Inner = loops[n]
      /\ loops \in Seq(LoopType) /\ phase \in 1 .. LastPhase
      /\ \A i \in 1 .. n : loops[i].end \in Nat /\ loops[i].tier \in Tiers
  BY <1>2, PassFacts DEF ScanTypeOK, LoopType
<1>4. /\ loops' \in Seq(LoopType) /\ loops' # <<>> /\ Len(loops') = n - 1
      /\ \A i \in 1 .. n - 1 : loops'[i] = loops[i]
      /\ DOMAIN loops' = 1 .. n - 1
  <2>1. loops' \in Seq(LoopType) /\ loops' # <<>> /\ Len(loops') = n - 1
        /\ \A i \in 1 .. n - 1 : loops'[i] = loops[i]
    BY <1>1, <1>3, Shortened
  <2>. QED BY <2>1, Elements
<1>5. current = loops[n].end
  BY <1>1, <1>2, <1>3 DEF PlaceAligned
<1>6. /\ Aligned(current, Widths[loops[n - 1].tier]) /\ current <= loops[n - 1].end
      /\ n - 1 \in 1 .. n /\ loops'[n - 1] = loops[n - 1]
  <2>1. n - 1 \in 1 .. n /\ n \in 1 .. n /\ n - 1 <= n /\ n - 1 \in 1 .. n - 1
    BY <1>1, <1>3
  <2>. QED BY <1>1, <1>2, <1>3, <1>4, <1>5, <2>1 DEF LoopsNested
<1>. HIDE DEF n
<1>7. LoopsNested'
  <2>1. PassEnd' = PassEnd /\ TierOf(phase)' = TierOf(phase)
    BY <1>1 DEF PassEnd, TierOf
  <2>2. \A i \in 1 .. n - 1 : i \in 1 .. n /\ (i > 1 => i - 1 \in 1 .. n - 1)
    BY <1>3
  <2>3. 1 \in 1 .. n - 1
    BY <1>1, <1>3
  <2>. QED BY <1>2, <1>3, <1>4, <2>1, <2>2, <2>3 DEF LoopsNested
<1>8. PlaceAligned'
  <2>1. Inner' = loops[n - 1]
    BY <1>4, <1>6 DEF Inner
  <2>2. ASSUME n - 1 = 1, NEW t \in 1 .. TierOf(phase) PROVE Aligned(current, Widths[t])
    <3>1. loops[n - 1].tier = TierOf(phase) /\ loops[n - 1].tier \in Tiers
      BY <1>2, <1>3, <1>6, <2>2 DEF LoopsNested
    <3>2. t \in Tiers /\ t <= loops[n - 1].tier
      BY <3>1, WidthFacts
    <3>. QED BY <1>3, <1>6, <3>1, <3>2, AlignedBelow
  <2>. QED BY <1>1, <1>4, <1>6, <2>1, <2>2 DEF PlaceAligned, TierOf
<1>9. PhaseEnds'
  <2>1. loops'[1] = loops[1]
    BY <1>1, <1>3, <1>4
  <2>. QED BY <1>1, <1>2, <2>1 DEF PhaseEnds, PassEnd, TierOf
<1>. QED BY <1>1, <1>3, <1>4, <1>7, <1>8, <1>9, LoopsChange

-----------------------------------------------------------------------------
(* From one core call to the next, and from one pass to the next.          *)

(* The smaller of two places. *)
LEMMA Smaller ==
  ASSUME NEW a \in Nat, NEW b \in Nat
  PROVE  /\ LeastOf(a, b) \in {a, b} /\ LeastOf(a, b) <= b /\ LeastOf(a, b) <= a
  BY DEF LeastOf

(* Where a core call ends. *)
LEMMA PhaseEndFacts ==
  ASSUME NEW p \in 1 .. LastPhase, NEW begin \in Nat, NEW end \in Nat
  PROVE  /\ PhaseEnd(p, begin, end) \in Nat /\ PhaseEnd(p, begin, end) <= end
         /\ Aligned(PhaseEnd(p, begin, end), Widths[TierOf(p)])
         /\ p < TopTier => /\ Aligned(PhaseEnd(p, begin, end), Widths[p + 1])
                           /\ \/ begin <= PhaseEnd(p, begin, end)
                              \/ AlignDown(end, Widths[p + 1]) < begin
         /\ ~(p < TopTier) =>
              PhaseEnd(p, begin, end) = AlignDown(end, Widths[TierOf(p)])
<1>. DEFINE e == PhaseEnd(p, begin, end)
<1>1. p \in Nat /\ TopTier \in Nat /\ TierOf(p) \in Tiers /\ Widths[TierOf(p)] \in Nat \ {0}
  BY TierFacts, WidthFacts
<1>2. CASE p < TopTier
  <2>. DEFINE w == Widths[p + 1]
              up == AlignUp(begin, w)
              down == AlignDown(end, w)
  <2>1. p + 1 \in Tiers /\ TierOf(p) = p /\ p \in Tiers /\ p <= p + 1 /\ w \in Nat \ {0}
    BY <1>1, <1>2, TierFacts, WidthFacts
  <2>2. up \in Nat /\ Aligned(up, w) /\ begin <= up
    BY <2>1, AlignedUp DEF Aligned
  <2>3. down \in Nat /\ Aligned(down, w) /\ down <= end
    BY <2>1, AlignedDown DEF Aligned
  <2>4. e = LeastOf(up, down)
    BY <1>2 DEF PhaseEnd
  <2>. HIDE DEF e, w, up, down
  <2>5. e \in {up, down} /\ e <= down /\ e \in Nat
    BY <2>2, <2>3, <2>4, Smaller
  <2>6. Aligned(e, w) /\ e <= end /\ (begin <= e \/ down < begin)
    BY <2>2, <2>3, <2>5
  <2>7. Aligned(e, Widths[p])
    BY <2>1, <2>5, <2>6, AlignedBelow DEF w
  <2>. QED BY <1>2, <2>1, <2>5, <2>6, <2>7 DEF e, w, down
<1>3. CASE ~(p < TopTier)
  <2>1. e = AlignDown(end, Widths[TierOf(p)])
    BY <1>3 DEF PhaseEnd
  <2>. QED BY <1>1, <1>3, <2>1, AlignedDown DEF Aligned
<1>. QED BY <1>2, <1>3

LEMMA NextPhaseKeeps == ScanInv /\ NextPhase => ScanInv'
<1>. SUFFICES ASSUME ScanInv, NextPhase PROVE ScanInv'
  OBVIOUS
<1>. DEFINE next == PhaseEnd(phase + 1, current, PassEnd)
            tier == TierOf(phase + 1)
<1>1. /\ current >= Inner.end /\ Len(loops) = 1 /\ phase < LastPhase /\ phase' = phase + 1
      /\ loops' = <<[tier |-> tier, end |-> next]>>
      /\ UNCHANGED <<used, search_begin, origin, frames, pass, current, length,
                     start_frame, outcome>>
  BY DEF NextPhase, CoreDone, Loop, inputs
<1>2. ScanTypeOK /\ PlaceAligned /\ PhaseEnds
  BY DEF ScanInv, RunTracked
<1>3. /\ current \in Nat /\ PassEnd \in Nat /\ Inner = loops[1] /\ Inner.end \in Nat
      /\ phase \in Nat /\ phase \in 1 .. LastPhase /\ phase + 1 \in 1 .. LastPhase
      /\ TopTier \in Nat /\ TierOf(phase) \in Nat
  <2>0. phase \in 1 .. LastPhase
    BY <1>2, PassFacts, Zenon
  <2>1. LastPhase \in Nat /\ TopTier \in Nat /\ TierOf(phase) \in Nat
    BY <2>0, TierFacts, WidthFacts
  <2>. QED BY <1>1, <1>2, <2>1, PassFacts
<1>4. /\ next \in Nat /\ next <= PassEnd /\ Aligned(next, Widths[tier])
      /\ phase + 1 < TopTier => /\ Aligned(next, Widths[phase + 1 + 1])
                                /\ \/ current <= next
                                   \/ AlignDown(PassEnd, Widths[phase + 1 + 1]) < current
      /\ ~(phase + 1 < TopTier) => next = AlignDown(PassEnd, Widths[tier])
  BY <1>3, PhaseEndFacts
<1>5. tier \in Tiers
  BY <1>3, TierFacts
<1>. HIDE DEF next
<1>6. ASSUME NEW t \in 1 .. tier
      PROVE  Aligned(current, Widths[t]) \/ AlignDown(PassEnd, Widths[t]) < current
  <2>1. CASE phase < TopTier
    <3>1. TierOf(phase) = phase /\ tier = phase + 1
      BY <1>3, <2>1, TierFacts
    <3>2. CASE t \in 1 .. phase
      BY <1>1, <1>2, <3>1, <3>2 DEF PlaceAligned
    <3>3. CASE t = phase + 1
      <4>1. Aligned(Inner.end, Widths[t])
            /\ (current <= Inner.end \/ AlignDown(PassEnd, Widths[t]) < current)
        BY <1>2, <1>3, <2>1, <3>3 DEF PhaseEnds
      <4>2. CASE current <= Inner.end
        <5>1. current = Inner.end
          BY <1>1, <1>3, <4>2
        <5>. QED BY <4>1, <5>1
      <4>. QED BY <4>1, <4>2
    <3>. QED BY <1>3, <3>1, <3>2, <3>3
  <2>2. CASE ~(phase < TopTier)
    <3>1. tier = TierOf(phase) - 1
      BY <1>3, <2>2, TierFacts
    <3>2. t \in 1 .. TierOf(phase)
      BY <1>3, <3>1
    <3>. QED BY <1>1, <1>2, <3>2 DEF PlaceAligned
  <2>. QED BY <2>1, <2>2
<1>7. /\ TierOf(phase)' = tier /\ PassEnd' = PassEnd
      /\ Len(loops') = 1 /\ DOMAIN loops' = {1} /\ Inner' = loops'[1]
      /\ loops'[1].tier = tier /\ loops'[1].end = next
  BY <1>1 DEF TierOf, PassEnd, Inner
<1>. HIDE DEF tier
<1>8. LoopsNested'
  BY <1>4, <1>7 DEF LoopsNested
<1>9. PlaceAligned'
  BY <1>1, <1>6, <1>7 DEF PlaceAligned
<1>10. PhaseEnds'
  BY <1>1, <1>4, <1>7 DEF PhaseEnds
<1>11. loops' \in Seq(LoopType) /\ loops' # <<>>
  <2>1. [tier |-> tier, end |-> next] \in LoopType
    BY <1>4, <1>5 DEF LoopType
  <2>. QED BY <1>1, <2>1
<1>. QED BY <1>1, <1>3, <1>8, <1>9, <1>10, <1>11, LoopsChange

(* The last core call reads bytes, so that no bit of the pass is left. *)
LEMMA PassRead ==
  ASSUME ScanInv, CoreDone, phase = LastPhase
  PROVE  NoFit(frames, FirstBit, PassEndBit)
<1>1. ScanTypeOK /\ PhaseEnds /\ InPass /\ Len(loops) = 1 /\ current >= Inner.end
      /\ outcome = "searching"
  BY DEF ScanInv, RunTracked, CoreDone
<1>2. /\ current \in Nat /\ PassEnd \in Nat /\ Inner = loops[1] /\ Inner.end \in Nat
      /\ phase \in 1 .. LastPhase /\ origin \in Nat
  BY <1>1, PassFacts
<1>3. TierOf(phase) = 1 /\ ~(phase < TopTier)
  BY <1>2, TierFacts, WidthFacts
<1>4. Inner.end = AlignDown(PassEnd, 1)
  BY <1>1, <1>2, <1>3, WidthFacts DEF PhaseEnds
<1>5. current = PassEnd
  BY <1>1, <1>2, <1>4 DEF AlignDown, InPass
<1>6. Position = PassEndBit
  BY <1>5 DEF Position, PassEndBit
<1>. QED BY <1>1, <1>6 DEF ScanInv, RunTracked

(* The place before the first lane of a pass. *)
PassStarts ==
  /\ ScanTypeOK /\ outcome = "searching" /\ phase = 1 /\ length = 0
  /\ current = PassBegin(pass) /\ loops = <<Loop(1, current, PassEnd)>>
  /\ FirstPassDone

LEMMA PassStartsKeep == PassStarts => ScanInv
<1>. SUFFICES ASSUME PassStarts PROVE ScanInv
  OBVIOUS
<1>. DEFINE e == PhaseEnd(1, current, PassEnd)
<1>1. /\ ScanTypeOK /\ outcome = "searching" /\ phase = 1 /\ length = 0
      /\ current = PassBegin(pass) /\ loops = <<[tier |-> TierOf(1), end |-> e]>>
      /\ FirstPassDone
  BY DEF PassStarts, Loop
<1>2. /\ current \in Nat /\ PassEnd \in Nat /\ PassBegin(pass) <= PassEnd
      /\ PassBegin(pass) \in Nat /\ frames \in Nat \ {0} /\ 1 \in 1 .. LastPhase
      /\ TopTier \in Nat /\ 1 <= TopTier
  BY <1>1, PassFacts, WidthFacts
<1>3. TierOf(1) = 1 /\ Widths[1] = 1
  BY <1>2, WidthFacts DEF TierOf
<1>4. /\ e \in Nat /\ e <= PassEnd /\ Aligned(e, Widths[TierOf(1)])
      /\ 1 < TopTier => /\ Aligned(e, Widths[1 + 1])
                        /\ \/ current <= e
                           \/ AlignDown(PassEnd, Widths[1 + 1]) < current
      /\ ~(1 < TopTier) => e = AlignDown(PassEnd, Widths[TierOf(1)])
  BY <1>2, PhaseEndFacts
<1>. HIDE DEF e
<1>5. /\ Len(loops) = 1 /\ DOMAIN loops = {1} /\ Inner = loops[1]
      /\ loops[1].tier = TierOf(1) /\ loops[1].end = e
  BY <1>1 DEF Inner
<1>6. LoopsNested
  BY <1>1, <1>4, <1>5 DEF LoopsNested
<1>7. PlaceAligned
  <2>1. Aligned(current, 1)
    BY <1>2 DEF Aligned
  <2>2. \A t \in 1 .. TierOf(1) : t = 1
    BY <1>3
  <2>. QED BY <1>1, <1>3, <1>5, <2>1, <2>2 DEF PlaceAligned
<1>8. PhaseEnds
  BY <1>1, <1>4, <1>5 DEF PhaseEnds
<1>9. RunTracked
  <2>1. Position = FirstBit
    BY <1>1 DEF Position, FirstBit
  <2>2. FirstBit \in Nat
    BY <1>1, PassBits
  <2>3. Run(FirstBit - 0, 0) = {} /\ NoFit(frames, FirstBit, FirstBit)
    BY <2>2 DEF Run, NoFit
  <2>. QED BY <1>1, <2>1, <2>2, <2>3 DEF RunTracked
<1>10. InPass /\ FindsLeftmost
  BY <1>1, <1>2 DEF InPass, FindsLeftmost
<1>. QED BY <1>1, <1>6, <1>7, <1>8, <1>9, <1>10 DEF ScanInv

LEMMA SecondPassKeeps == ScanInv /\ SecondPass => ScanInv'
<1>. SUFFICES ASSUME ScanInv, SecondPass PROVE ScanInv'
  OBVIOUS
<1>1. /\ CoreDone /\ phase = LastPhase /\ pass = 1 /\ outcome = "searching"
      /\ pass' = 2 /\ phase' = 1 /\ length' = 0 /\ current' = PassBegin(2)
      /\ loops' = <<Loop(1, PassBegin(2), origin + search_begin)>>
      /\ UNCHANGED <<used, search_begin, origin, frames, start_frame, outcome>>
  BY DEF SecondPass, inputs, CoreDone
<1>2. ScanTypeOK
  BY DEF ScanInv, RunTracked
<1>3. /\ origin \in Nat /\ frames \in Nat \ {0} /\ 1 \in 1 .. LastPhase
      /\ PassBegin(2) = origin /\ search_begin \in 0 .. Bytes /\ Bytes \in Nat
      /\ frames \in Requests
  BY <1>1, <1>2, PassFacts, ScanAssumption DEF PassBegin, ScanTypeOK
<1>4. /\ PassBegin(pass)' = PassBegin(2) /\ PassEnd' = origin + search_begin
      /\ Loop(1, current, PassEnd)' = Loop(1, PassBegin(2), origin + search_begin)
  BY <1>1 DEF PassBegin, PassEnd, Loop, PhaseEnd, TierOf, LeastOf, AlignUp, AlignDown
<1>5. ScanTypeOK'
  <2>1. loops' \in Seq([tier : Tiers, end : Nat]) /\ loops' # <<>>
    <3>1. PassBegin(2) \in Nat /\ origin + search_begin \in Nat
      BY <1>3
    <3>2. Loop(1, PassBegin(2), origin + search_begin) \in [tier : Tiers, end : Nat]
      BY <1>3, <3>1, PhaseEndFacts, TierFacts DEF Loop
    <3>. QED BY <1>1, <3>2
  <2>2. /\ length' \in 0 .. frames' /\ length' < frames'
        /\ current' \in origin .. origin + Bytes /\ pass' \in 1 .. 2 /\ phase' \in 1 .. LastPhase
    BY <1>1, <1>3
  <2>. QED BY <1>1, <1>2, <2>1, <2>2 DEF ScanTypeOK, ScanEnd
<1>6. FirstPassDone'
  <2>1. NoFit(frames, HintBit, ScanEnd)
    BY <1>1, <1>2, PassRead, PassBits
  <2>. QED BY <1>1, <2>1 DEF FirstPassDone, NoFit, Fits, Run, HintBit, ScanEnd
<1>7. PassStarts'
  BY <1>1, <1>4, <1>5, <1>6 DEF PassStarts
<1>8. PassStarts' => ScanInv'
  BY PassStartsKeep, PTL
<1>. QED BY <1>7, <1>8

LEMMA FailKeeps == ScanInv /\ Fail => ScanInv'
<1>. SUFFICES ASSUME ScanInv, Fail PROVE ScanInv'
  OBVIOUS
<1>1. /\ CoreDone /\ phase = LastPhase /\ pass = 2 /\ outcome' = "failed"
      /\ UNCHANGED <<used, search_begin, origin, frames, pass, phase, loops, current, length,
                     start_frame>>
  BY DEF Fail, inputs
<1>2. ScanTypeOK /\ FirstPassDone
  BY DEF ScanInv, RunTracked
<1>3. RunTracked'
  BY <1>1, <1>2 DEF RunTracked, ScanTypeOK, ScanEnd
<1>4. LoopsNested' /\ PlaceAligned' /\ PhaseEnds' /\ InPass' /\ FirstPassDone'
  BY <1>1 DEF ScanInv, LoopsNested, PlaceAligned, PhaseEnds, InPass, FirstPassDone,
              PassBegin, PassEnd, Inner, NoFit, Fits, Run, HintBit, ScanEnd
<1>5. FindsLeftmost'
  <2>1. NoContiguous(frames, ScanEnd)
    BY <1>1, <1>2, PassRead, PassBits DEF FirstPassDone, NoContiguous
  <2>. QED BY <1>1, <2>1 DEF FindsLeftmost, NoContiguous, NoFit, Fits, Run, HintBit, ScanEnd
<1>. QED BY <1>3, <1>4, <1>5 DEF ScanInv

LEMMA StutterKeeps == ScanInv /\ UNCHANGED scanVars => ScanInv'
<1>. SUFFICES ASSUME ScanInv, UNCHANGED scanVars PROVE ScanInv'
  OBVIOUS
<1>1. UNCHANGED <<used, search_begin, origin, frames, pass, phase, loops, current, length,
                  start_frame, outcome>>
  BY DEF scanVars
<1>2. LoopsNested' /\ PlaceAligned' /\ PhaseEnds'
  BY <1>1 DEF ScanInv, LoopsNested, PlaceAligned, PhaseEnds, PassBegin, PassEnd, Inner
<1>3. loops \in Seq(LoopType) /\ loops # <<>> /\ phase \in 1 .. LastPhase
  BY DEF ScanInv, RunTracked, ScanTypeOK, LoopType
<1>. QED BY <1>1, <1>2, <1>3, LoopsChange

LEMMA InitScans == ScanInit => ScanInv
<1>. SUFFICES ASSUME ScanInit PROVE ScanInv
  OBVIOUS
<1>1. /\ used \in SUBSET (0 .. ScanEnd - 1) /\ search_begin \in 0 .. Bytes
      /\ origin \in 0 .. Widths[TopTier] - 1 /\ frames \in Requests
      /\ pass = 1 /\ phase = 1 /\ current = PassBegin(1)
      /\ loops = <<Loop(1, PassBegin(1), origin + Bytes)>>
      /\ length = 0 /\ start_frame = 0 /\ outcome = "searching"
  BY DEF ScanInit
<1>2. /\ origin \in Nat /\ frames \in Nat \ {0} /\ 1 \in 1 .. LastPhase
      /\ PassBegin(1) = origin + search_begin /\ search_begin \in Nat /\ Bytes \in Nat
      /\ PassEnd = origin + Bytes
  <2>1. Widths[TopTier] \in Nat /\ TopTier \in Nat /\ 1 <= TopTier
    BY WidthFacts
  <2>. QED BY <1>1, <2>1, ScanAssumption DEF PassBegin, PassEnd, LastPhase
<1>3. ScanTypeOK
  <2>1. loops \in Seq([tier : Tiers, end : Nat]) /\ loops # <<>>
    <3>1. PassBegin(1) \in Nat /\ origin + Bytes \in Nat
      BY <1>2
    <3>2. Loop(1, PassBegin(1), origin + Bytes) \in [tier : Tiers, end : Nat]
      BY <1>2, <3>1, PhaseEndFacts, TierFacts DEF Loop
    <3>. QED BY <1>1, <3>2
  <2>2. length \in 0 .. frames /\ length < frames /\ current \in origin .. origin + Bytes
    BY <1>1, <1>2
  <2>. QED BY <1>1, <1>2, <2>1, <2>2 DEF ScanTypeOK
<1>4. PassStarts
  BY <1>1, <1>2, <1>3 DEF PassStarts, FirstPassDone
<1>. QED BY <1>4, PassStartsKeep

-----------------------------------------------------------------------------
(* Every step of the search keeps the invariant. *)
LEMMA ScanStepKeeps == ScanInv /\ ScanStep => ScanInv'
  BY FreeLaneKeeps, UsedLaneKeeps, MixedWordKeeps, MixedVectorKeeps, LeaveVectorKeeps,
     NextPhaseKeeps, SecondPassKeeps, FailKeeps DEF ScanStep

LEMMA NextKeepsScanInv == ScanInv /\ [ScanNext]_scanVars => ScanInv'
  BY ScanStepKeeps, StutterKeeps DEF ScanNext, Returned

(* The inductive invariant holds in every state of a search. *)
THEOREM ScanInvAlways == ScanSpec => []ScanInv
<1>1. ScanInit => ScanInv
  BY InitScans
<1>2. ScanInv /\ [ScanNext]_scanVars => ScanInv'
  BY NextKeepsScanInv
<1>. QED BY <1>1, <1>2, PTL DEF ScanSpec

(* For every address of the bitmap and every list of lane widths, a core   *)
(* reads only lanes that are aligned to their width and lie in the pass.   *)
THEOREM LanesAlwaysAligned == ScanSpec => []LanesAligned
<1>1. ScanInv => LanesAligned
  <2>. SUFFICES ASSUME ScanInv, InLane
                PROVE  /\ current % Width = 0
                       /\ PassBegin(pass) <= current /\ current + Width <= PassEnd
    BY DEF LanesAligned
  <2>1. ScanTypeOK /\ LoopsNested /\ PlaceAligned /\ InPass
    BY DEF ScanInv, RunTracked
  <2>2. /\ Aligned(current, Width) /\ current + Width <= Inner.end /\ Inner.end <= PassEnd
        /\ PassBegin(pass) <= current
    BY <2>1, LaneInLoop DEF InPass
  <2>3. current \in Nat /\ Width \in Nat /\ Inner.end \in Nat /\ PassEnd \in Nat
    BY <2>1, PassFacts
  <2>. QED BY <2>2, <2>3 DEF Aligned
<1>. QED BY <1>1, ScanInvAlways, PTL

(* Between two lanes the carried length is exactly the free run that ends  *)
(* at the next lane, and no run of the pass was passed over.               *)
THEOREM RunAlwaysTracked == ScanSpec => []RunTracked
<1>1. ScanInv => RunTracked
  BY DEF ScanInv
<1>. QED BY <1>1, ScanInvAlways, PTL

(* The search over lanes finds the run that the bit-by-bit search of the   *)
(* two passes finds, and fails only when there is none.                    *)
THEOREM LeftmostAlwaysFound == ScanSpec => []FindsLeftmost
<1>1. ScanInv => FindsLeftmost
  BY DEF ScanInv
<1>. QED BY <1>1, ScanInvAlways, PTL

-----------------------------------------------------------------------------
(* The manager that searches by lanes implements the manager that searches *)
(* in one step.  While a call searches, the invariant of the search holds, *)
(* and the bitmap is the one that the call has found.                      *)
SearchInv == next_entry > Len(map) /\ ScanInv

ContiguousInv ==
  /\ PInv /\ BitmapBytes(total) = Bytes
  /\ origin = KernelEnd % Widths[TopTier]
  /\ outcome # "none" => SearchInv

(* The two models number the bits of one bitmap, at a place that the       *)
(* widest lane may see anywhere.                                           *)
LEMMA OneBitmap ==
  ASSUME PInv, BitmapBytes(total) = Bytes, origin = KernelEnd % Widths[TopTier]
  PROVE  /\ EndBit = ScanEnd /\ used \in SUBSET (0 .. ScanEnd - 1)
         /\ search_begin \in 0 .. Bytes
         /\ origin \in 0 .. Widths[TopTier] - 1
<1>1. EndBit = ScanEnd
  BY DEF EndBit, ScanEnd
<1>2. used \in SUBSET Bits /\ search_begin \in 0 .. BitmapBytes(total)
  BY DEF PInv, TypeOK
<1>3. KernelEnd \in Nat /\ Widths[TopTier] \in Nat \ {0}
  BY SizesAssumption, WidthFacts
<1>4. KernelEnd % Widths[TopTier] \in 0 .. Widths[TopTier] - 1
  BY <1>3
<1> QED
  BY <1>1, <1>2, <1>4 DEF Bits

(* A run that the search finds begins in the bitmap. *)
LEMMA FoundInBitmap ==
  ASSUME TypeOK, NEW n \in Nat \ {0}, NEW start, start \in Nat,
         FindContiguous(start, n, EndBit)
  PROVE  start \in Bits
<1>1. EndBit \in Nat /\ HintBit \in Nat /\ HintBit <= EndBit
  BY HintBounds
<1>2. start + n <= EndBit
  BY <1>1 DEF FindContiguous, LeftmostFit, Fits
<1> QED
  BY <1>1, <1>2 DEF Bits

(* A step of the search reads the bitmap and the hint, and is taken only   *)
(* while the call searches.                                                *)
LEMMA StepSearches ==
  ASSUME ScanStep
  PROVE  outcome = "searching" /\ UNCHANGED inputs
<1>1. CASE FreeLane
  BY <1>1 DEF FreeLane, InLane, Found, Advance
<1>2. CASE UsedLane
  BY <1>2 DEF UsedLane, InLane, Advance
<1>3. CASE MixedWord
  BY <1>3 DEF MixedWord, InLane, Found, Advance
<1>4. CASE MixedVector \/ LeaveVector
  BY <1>4 DEF MixedVector, InLane, LeaveVector
<1>5. CASE NextPhase \/ SecondPass \/ Fail
  BY <1>5 DEF NextPhase, SecondPass, Fail, CoreDone
<1> QED
  BY <1>1, <1>2, <1>3, <1>4, <1>5 DEF ScanStep

(* The size of the machine and the place of the bitmap never change. *)
LEMMA MachineKept ==
  ASSUME [ContiguousNext]_contiguousVars
  PROVE  total' = total /\ origin' = origin
<1>1. CASE CallSearch \/ UNCHANGED contiguousVars
  BY <1>1 DEF CallSearch, contiguousVars, vars
<1>2. CASE Search
  BY <1>2, StepSearches DEF Search, inputs
<1>3. CASE ReturnRun \/ ReturnNull
  BY <1>3 DEF ReturnRun, ReturnNull, LeaveSearch, Ready
<1>4. CASE OtherOperation
  BY <1>4
  DEF OtherOperation, InitializeEntry, pmm_allocate_frame, AllocateFrameFails,
      AllocateContiguousFails, FreeAny, pmm_free_frame,
      pmm_free_contiguous_frames, Ready
<1> QED
  BY <1>1, <1>2, <1>3, <1>4 DEF ContiguousNext

LEMMA ContiguousInitInv == ContiguousInit => ContiguousInv
<1> SUFFICES ASSUME ContiguousInit PROVE ContiguousInv
  OBVIOUS
<1>1. PInv
  BY InitPInv DEF ContiguousInit
<1>2. BitmapBytes(total) = Bytes
  BY BitmapAssumption DEF ContiguousInit, Init
<1> QED
  BY <1>1, <1>2 DEF ContiguousInit, NoSearch, ContiguousInv

(* A call begins in a state of the search. *)
LEMMA CallScans == ContiguousInv /\ CallSearch => ScanInit'
<1> SUFFICES ASSUME ContiguousInv, CallSearch PROVE ScanInit'
  OBVIOUS
<1>1. /\ used \in SUBSET (0 .. ScanEnd - 1) /\ search_begin \in 0 .. Bytes
      /\ origin \in 0 .. Widths[TopTier] - 1
  BY OneBitmap DEF ContiguousInv
<1>2. used' = used /\ search_begin' = search_begin /\ origin' = origin
  BY DEF CallSearch, vars
<1>3. PassBegin(1)' = PassBegin(1)
  BY <1>2 DEF PassBegin
<1> QED
  BY <1>1, <1>2, <1>3 DEF ScanInit, CallSearch

(* What a call returns, and every other operation, is a step of Pmm. *)
LEMMA ReturnRunIsNext == ContiguousInv /\ ReturnRun => Next
<1> SUFFICES ASSUME ContiguousInv, ReturnRun PROVE Next
  OBVIOUS
<1>1. PInv /\ ScanInv /\ EndBit = ScanEnd /\ outcome = "found"
  BY OneBitmap DEF ContiguousInv, SearchInv, ReturnRun
<1>2. /\ frames \in Requests /\ start_frame \in Nat
      /\ FindContiguous(start_frame, frames, EndBit)
  BY <1>1 DEF ScanInv, RunTracked, ScanTypeOK, FindsLeftmost
<1>3. frames \in 1 .. MaxRun
  BY <1>2, RequestsAssumption
<1>4. frames \in Nat \ {0} /\ frames \in 0 .. MaxRun /\ frames > 0
  BY <1>3, SizesAssumption
<1>5. start_frame \in Bits
  BY <1>1, <1>2, <1>4, FoundInBitmap DEF PInv
<1>6. pmm_allocate_contiguous_frames(frames)
  BY <1>2, <1>4, <1>5 DEF pmm_allocate_contiguous_frames, ReturnRun
<1> QED
  BY <1>4, <1>6 DEF Next, Allocate

LEMMA ReturnNullIsNext == ContiguousInv /\ ReturnNull => Next
<1> SUFFICES ASSUME ContiguousInv, ReturnNull PROVE Next
  OBVIOUS
<1>1. PInv /\ ScanInv /\ EndBit = ScanEnd /\ outcome = "failed"
  BY OneBitmap DEF ContiguousInv, SearchInv, ReturnNull
<1>2. frames \in Requests /\ NoContiguous(frames, EndBit)
  BY <1>1 DEF ScanInv, RunTracked, ScanTypeOK, FindsLeftmost
<1>3. frames \in 0 .. MaxRun
  BY <1>2, RequestsAssumption
<1>4. AllocateContiguousFails(frames)
  BY <1>2 DEF AllocateContiguousFails, ReturnNull
<1> QED
  BY <1>3, <1>4 DEF Next, Allocate

LEMMA OtherOperationIsNext == OtherOperation => Next
<1>1. 0 \in 0 .. MaxRun
  BY SizesAssumption
<1> QED
  BY <1>1 DEF OtherOperation, Next, Allocate

(* Every step of the composition is a step of Pmm or changes nothing of    *)
(* its state: the lanes are read, and no frame is handed out before the    *)
(* whole search has ended.                                                 *)
LEMMA ContiguousStep ==
  ContiguousInv /\ [ContiguousNext]_contiguousVars => [Next]_vars
<1> SUFFICES ASSUME ContiguousInv, [ContiguousNext]_contiguousVars
             PROVE  [Next]_vars
  OBVIOUS
<1>1. CASE CallSearch
  BY <1>1 DEF CallSearch
<1>2. CASE Search
  BY <1>2, StepSearches DEF Search, inputs, vars
<1>3. CASE UNCHANGED contiguousVars
  BY <1>3 DEF contiguousVars
<1> QED
  BY <1>1, <1>2, <1>3, ReturnRunIsNext, ReturnNullIsNext, OtherOperationIsNext
  DEF ContiguousNext

(* The inductive step: a call enters the invariant of the search, the      *)
(* search keeps it, and nothing else runs until the call has returned.     *)
LEMMA ContiguousNextInv ==
  ContiguousInv /\ [ContiguousNext]_contiguousVars => ContiguousInv'
<1> SUFFICES ASSUME ContiguousInv, [ContiguousNext]_contiguousVars
             PROVE  ContiguousInv'
  OBVIOUS
<1>1. PInv'
  BY ContiguousStep, NextPInv DEF ContiguousInv
<1>2. total' = total /\ origin' = origin
  BY MachineKept
<1>3. BitmapBytes(total)' = Bytes /\ (origin = KernelEnd % Widths[TopTier])'
  BY <1>2 DEF ContiguousInv, BitmapBytes, bitmap_index
<1>4. (outcome # "none" => SearchInv)'
  <2>1. CASE CallSearch
    <3>1. ScanInit' => ScanInv'
      BY InitScans, PTL
    <3>2. (next_entry > Len(map))'
      BY <2>1 DEF CallSearch, Ready, vars
    <3> QED
      BY <2>1, <3>1, <3>2, CallScans DEF SearchInv
  <2>2. CASE Search
    <3>1. outcome = "searching"
      BY <2>2, StepSearches DEF Search
    <3>2. ScanInv' /\ next_entry' = next_entry /\ map' = map
      BY <2>2, <3>1, ScanStepKeeps DEF Search, ContiguousInv, SearchInv
    <3> QED
      BY <3>1, <3>2 DEF ContiguousInv, SearchInv
  <2>3. CASE ReturnRun \/ ReturnNull
    BY <2>3 DEF ReturnRun, ReturnNull, LeaveSearch
  <2>4. CASE OtherOperation
    BY <2>4 DEF OtherOperation, NoSearch, scanLocals
  <2>5. CASE UNCHANGED contiguousVars
    <3>1. ScanInv => ScanInv'
      BY <2>5, StutterKeeps DEF contiguousVars, vars, scanLocals, scanVars
    <3> QED
      BY <2>5, <3>1
      DEF ContiguousInv, SearchInv, contiguousVars, vars, scanLocals
  <2> QED
    BY <2>1, <2>2, <2>3, <2>4, <2>5 DEF ContiguousNext
<1> QED
  BY <1>1, <1>3, <1>4 DEF ContiguousInv

LEMMA ContiguousInvariance == ContiguousSpec => []ContiguousInv
  BY ContiguousInitInv, ContiguousNextInv, PTL DEF ContiguousSpec

(* Every behaviour of the allocator that sweeps the bitmap by lanes is one *)
(* of the allocator that finds a run in one step: whatever holds of Pmm    *)
(* holds of it, for every list of widths and every place of the bitmap.    *)
THEOREM SearchImplementsPmm == ContiguousSpec => ImplementsPmm
<1>1. ContiguousInit => Init
  BY DEF ContiguousInit
<1> QED
  BY <1>1, ContiguousInvariance, ContiguousStep, PTL
  DEF ContiguousSpec, ImplementsPmm, Spec

(* In particular the allocator that sweeps the bitmap by lanes counts its  *)
(* frames, protects the kernel, fails only when it may, conserves frames,  *)
(* shares none, and takes again at once what has been freed.               *)
THEOREM ContiguousSafe ==
  ContiguousSpec =>
    /\ [](Accounting /\ KernelProtected /\ NullMeansExhausted
          /\ MissedRunsCrossHint /\ Conservation)
    /\ NeverSharedFrames /\ FreedRunFits
<1>1. ContiguousSpec => Spec
  BY SearchImplementsPmm DEF ImplementsPmm
<1> QED
  BY <1>1, UsedFramesCounted, KernelAlwaysProtected, NullAlwaysMeansExhausted,
     OnlyRunsAcrossHintMissed, AlwaysConserved, FramesNeverShared,
     FreedRunAlwaysFits, PTL
=============================================================================
