------------------------------ MODULE PmmScan -------------------------------
(***************************************************************************)
(* How src/kernel/pmm.cpp searches the bitmap for contiguous frames.  A    *)
(* sweep peels a range of bytes into lanes: wider and wider ones until the *)
(* next width is aligned, the widest ones, and narrower ones again up to   *)
(* the end.  One core per width looks at its lanes and carries in `length' *)
(* the free frames directly before the lane.  A mixed lane of a vector     *)
(* core is searched by the core below it, lane by lane.                    *)
(*                                                                         *)
(* With the widths 1, 2, 4 this is sweep_32, with 1, 2, 4, 16 sweep_sse_2  *)
(* and with 1, 2, 4, 16, 32 sweep_avx_2; ScalarTiers is 3 in all of them.  *)
(***************************************************************************)
EXTENDS FrameSearch, Sequences, FiniteSets, FiniteSetsExt

CONSTANTS
  Bytes,         \* bytes of the bitmap
  Widths,        \* the bytes of a lane of each tier, in increasing order
  ScalarTiers,   \* the tiers whose lanes are machine words
  Requests       \* the numbers of frames that are asked for

Tiers == 1 .. Len(Widths)

ASSUME WidthsAssumption ==
  /\ Widths \in Seq(Nat \ {0}) /\ Widths # <<>> /\ Widths[1] = 1
  /\ \A i, j \in Tiers : i < j => Widths[j] % Widths[i] = 0
ASSUME ScanAssumption ==
  /\ ByteBits \in Nat \ {0} /\ Bytes \in Nat
  /\ ScalarTiers \in Tiers /\ Requests \subseteq Nat \ {0}
(* The machine words have 8, 16 and 32 bits. *)
ASSUME WordsAssumption ==
  \A t \in 1 .. ScalarTiers :
    \E n \in 1 .. Widths[t] * ByteBits : 2 ^ n = Widths[t] * ByteBits

VARIABLES
  origin,        \* the address of g_bitmap.start, as the widths see it
  frames,        \* the request
  pass,          \* 1: search_begin to the end, 2: start to search_begin
  phase,         \* which core call of the sweep
  loops,         \* the core loops that run, innermost last: tier and end
  current,       \* the address of the next lane
  length,        \* free frames directly before current
  start_frame,   \* run->start_frame
  outcome

inputs == <<used, search_begin, origin, frames>>
scanVars == <<used, search_begin, origin, frames,
          pass, phase, loops, current, length, start_frame, outcome>>

-----------------------------------------------------------------------------
ScanEnd == Bytes * ByteBits

PassBegin(p) == IF p = 1 THEN origin + search_begin ELSE origin
PassEnd == IF pass = 1 THEN origin + Bytes ELSE origin + search_begin

AlignDown(address, width) == address - (address % width)
AlignUp(address, width) == AlignDown(address + width - 1, width)

(* The core calls of a sweep: up the tiers, and down again from the top.   *)
TopTier == Len(Widths)
LastPhase == 2 * TopTier - 1
TierOf(p) == IF p <= TopTier THEN p ELSE 2 * TopTier - p

(* Faulty variant: a tier on the way up ends at its own alignment. *)
PhaseEndUnpeeled(p, begin, end) ==
  IF p < TopTier
    THEN LeastOf(AlignUp(begin, Widths[p]), AlignDown(end, Widths[p]))
    ELSE AlignDown(end, Widths[TierOf(p)])

PhaseEnd(p, begin, end) ==
  IF p < TopTier
    THEN LeastOf(AlignUp(begin, Widths[p + 1]), AlignDown(end, Widths[p + 1]))
    ELSE AlignDown(end, Widths[TierOf(p)])

Loop(p, begin, end) == [tier |-> TierOf(p), end |-> PhaseEnd(p, begin, end)]

-----------------------------------------------------------------------------
(* The lane at current and its first bit, which is also its first frame.   *)

Inner == loops[Len(loops)]
Width == Widths[Inner.tier]
LaneBits == Width * ByteBits
Position == (current - origin) * ByteBits
Lane == Position .. Position + LaneBits - 1

InLane == outcome = "searching" /\ current < Inner.end

(* array_of_shifts: the shifts for a word of `bits' bits, doubling up to    *)
(* the highest power of two of the request, and the rest as the last one.  *)
HighestOf2 == CHOOSE d \in 1 .. frames : (\E n \in 0 .. frames : d = 2 ^ n)
                                         /\ frames < 2 * d
ArraySize(bits) == CHOOSE n \in 1 .. bits : 2 ^ n = bits
Doubling(n) == IF 2 ^ (n - 1) < HighestOf2 THEN 2 ^ (n - 1) ELSE 0

(* Faulty variant: the last shift is missing. *)
ArrayOfShiftsOfPower(bits) ==
  [n \in 1 .. ArraySize(bits) |-> IF n = ArraySize(bits) THEN 0 ELSE Doubling(n)]

ArrayOfShifts(bits) ==
  [n \in 1 .. ArraySize(bits) |->
     IF n = ArraySize(bits) THEN frames - HighestOf2 ELSE Doubling(n)]

(* space: the bits of a word from which `frames' free bits follow.  Every  *)
(* shift narrows the set; together they look at the bits 0 to frames - 1   *)
(* above.                                                                  *)
Narrowed(free, step, size) ==
  LET inv[n \in 0 .. size] ==
        IF n = 0 THEN free
        ELSE {b \in inv[n - 1] : b + step[n] \in inv[n - 1]}
  IN  inv[size]
Space(free, bits) == Narrowed(free, ArrayOfShifts(bits), ArraySize(bits))

Advance == /\ current' = current + Width
           /\ UNCHANGED <<pass, phase, loops, start_frame, outcome>>
           /\ UNCHANGED inputs

Found(frame) == /\ outcome' = "found"
                /\ start_frame' = frame
                /\ length' = frames
                /\ UNCHANGED <<pass, phase, loops, current>>
                /\ UNCHANGED inputs

FreeLane ==
  /\ InLane /\ Lane \cap used = {}
  /\ IF length + LaneBits >= frames
       THEN Found(Position - length)
       ELSE length' = length + LaneBits /\ Advance

UsedLane ==
  /\ InLane /\ Lane \subseteq used
  /\ length' = 0 /\ Advance

Mixed == Lane \cap used # {} /\ ~(Lane \subseteq used)

(* Faulty variant: the free bits at the end of the word are forgotten. *)
MixedWordNoCarry ==
  /\ InLane /\ Mixed /\ Inner.tier <= ScalarTiers
  /\ LET trailing == Min(Lane \cap used) - Position
         inside   == Space({b - Position : b \in Lane \ used}, LaneBits)
     IN  IF length + trailing >= frames THEN Found(Position - length)
         ELSE IF frames < LaneBits /\ inside # {}
           THEN Found(Position + Min(inside))
           ELSE length' = 0 /\ Advance

(* Faulty variant: the last used bit counts as free. *)
MixedWordOneTooMany ==
  /\ InLane /\ Mixed /\ Inner.tier <= ScalarTiers
  /\ LET trailing == Min(Lane \cap used) - Position
         leading  == Position + LaneBits - Max(Lane \cap used)
         inside   == Space({b - Position : b \in Lane \ used}, LaneBits)
     IN  IF length + trailing >= frames THEN Found(Position - length)
         ELSE IF frames < LaneBits /\ inside # {}
           THEN Found(Position + Min(inside))
           ELSE length' = leading /\ Advance

(* A run that ends in the word, else one inside it, else the free bits at  *)
(* its end are carried over.                                               *)
MixedWord ==
  /\ InLane /\ Mixed /\ Inner.tier <= ScalarTiers
  /\ LET trailing == Min(Lane \cap used) - Position
         leading  == Position + LaneBits - 1 - Max(Lane \cap used)
         inside   == Space({b - Position : b \in Lane \ used}, LaneBits)
     IN  IF length + trailing >= frames THEN Found(Position - length)
         ELSE IF frames < LaneBits /\ inside # {}
           THEN Found(Position + Min(inside))
           ELSE length' = leading /\ Advance

MixedVector ==
  /\ InLane /\ Mixed /\ Inner.tier > ScalarTiers
  /\ loops' = Append(loops, [tier |-> Inner.tier - 1, end |-> current + Width])
  /\ UNCHANGED <<pass, phase, current, length, start_frame, outcome>>
  /\ UNCHANGED inputs

(* Faulty variant: the core goes on at the lane that it has searched. *)
LeaveVectorRewinds ==
  /\ outcome = "searching" /\ current >= Inner.end /\ Len(loops) > 1
  /\ loops' = SubSeq(loops, 1, Len(loops) - 1)
  /\ current' = current - Widths[Inner.tier + 1]
  /\ UNCHANGED <<pass, phase, length, start_frame, outcome>>
  /\ UNCHANGED inputs

LeaveVector ==
  /\ outcome = "searching" /\ current >= Inner.end /\ Len(loops) > 1
  /\ loops' = SubSeq(loops, 1, Len(loops) - 1)
  /\ UNCHANGED <<pass, phase, current, length, start_frame, outcome>>
  /\ UNCHANGED inputs

CoreDone == outcome = "searching" /\ current >= Inner.end /\ Len(loops) = 1

NextPhase ==
  /\ CoreDone /\ phase < LastPhase
  /\ phase' = phase + 1
  /\ loops' = <<Loop(phase + 1, current, PassEnd)>>
  /\ UNCHANGED <<pass, current, length, start_frame, outcome>>
  /\ UNCHANGED inputs

(* Faulty variant: the run of the first pass is carried into the second. *)
SecondPassNoReset ==
  /\ CoreDone /\ phase = LastPhase /\ pass = 1
  /\ pass' = 2 /\ phase' = 1
  /\ current' = PassBegin(2)
  /\ loops' = <<Loop(1, PassBegin(2), origin + search_begin)>>
  /\ UNCHANGED <<length, start_frame, outcome>>
  /\ UNCHANGED inputs

SecondPass ==
  /\ CoreDone /\ phase = LastPhase /\ pass = 1
  /\ pass' = 2 /\ phase' = 1
  /\ current' = PassBegin(2)
  /\ loops' = <<Loop(1, PassBegin(2), origin + search_begin)>>
  /\ length' = 0
  /\ UNCHANGED <<start_frame, outcome>>
  /\ UNCHANGED inputs

(* Faulty variant: there is no second pass to wait for. *)
FailEarly ==
  /\ CoreDone /\ phase = LastPhase
  /\ outcome' = "failed"
  /\ UNCHANGED <<pass, phase, loops, current, length, start_frame>>
  /\ UNCHANGED inputs

Fail ==
  /\ CoreDone /\ phase = LastPhase /\ pass = 2
  /\ outcome' = "failed"
  /\ UNCHANGED <<pass, phase, loops, current, length, start_frame>>
  /\ UNCHANGED inputs

Returned == outcome # "searching" /\ UNCHANGED scanVars

-----------------------------------------------------------------------------
ScanInit ==
  /\ used \in SUBSET (0 .. ScanEnd - 1)
  /\ search_begin \in 0 .. Bytes
  /\ origin \in 0 .. Widths[TopTier] - 1
  /\ frames \in Requests
  /\ pass = 1 /\ phase = 1
  /\ current = PassBegin(1)
  /\ loops = <<Loop(1, PassBegin(1), origin + Bytes)>>
  /\ length = 0 /\ start_frame = 0
  /\ outcome = "searching"

ScanStep == \/ FreeLane \/ UsedLane \/ MixedWord \/ MixedVector \/ LeaveVector
            \/ NextPhase \/ SecondPass \/ Fail
ScanNext == ScanStep \/ Returned

ScanSpec == ScanInit /\ [][ScanNext]_scanVars

-----------------------------------------------------------------------------
(* Properties.                                                             *)

(* Every variable has its type; a run is never longer than what is asked. *)
ScanTypeOK ==
  /\ used \in SUBSET (0 .. ScanEnd - 1) /\ search_begin \in 0 .. Bytes
  /\ origin \in 0 .. Widths[TopTier] - 1 /\ frames \in Requests
  /\ pass \in 1 .. 2 /\ phase \in 1 .. LastPhase
  /\ loops \in Seq([tier : Tiers, end : Nat]) /\ loops # <<>>
  /\ current \in origin .. origin + Bytes
  /\ length \in 0 .. frames
  /\ start_frame \in Nat
  /\ outcome \in {"searching", "found", "failed"}
  /\ outcome = "searching" => length < frames

(* Whatever the address of the bitmap and the hint, every lane that a core *)
(* reads is aligned to its width, which the vector loads demand, and lies  *)
(* within the pass.                                                        *)
LanesAligned ==
  InLane => /\ current % Width = 0
            /\ PassBegin(pass) <= current /\ current + Width <= PassEnd

(* Between two lanes, whatever their widths, length counts exactly the     *)
(* free frames directly before the next lane, and no run was passed over.  *)
FirstBit == (PassBegin(pass) - origin) * ByteBits
RunTracked ==
  ScanTypeOK /\ (outcome = "searching" =>
    LET first == FirstBit
    IN  /\ first <= Position - length
        /\ Run(Position - length, length) \cap used = {}
        /\ first < Position - length => Position - length - 1 \in used
        /\ NoFit(frames, first, Position))

(* The sweep over lanes of any widths finds what the bit-by-bit search of  *)
(* the two passes finds, and gives up only when that finds nothing.        *)
FindsLeftmost ==
  /\ outcome = "found" => FindContiguous(start_frame, frames, ScanEnd)
  /\ outcome = "failed" => NoContiguous(frames, ScanEnd)
=============================================================================
