-------------------------- MODULE InterruptsProofs --------------------------
(***************************************************************************)
(* Proofs about Interrupts: for every set of exceptions and lines, every   *)
(* limit of the nesting and every size of the stacks that leaves the slack *)
(* the assumptions name, interrupts do not nest, the counters match what   *)
(* is in progress, and nothing an interrupt needs is overwritten.          *)
(***************************************************************************)
EXTENDS Interrupts, FiniteSetTheorems, SequenceTheorems, TLAPS

FrameRecord ==
  [vector : Gates, esp : Int, flag : BOOLEAN, from : Int, handled : BOOLEAN]

(* What one nested interrupt takes of the interrupt stack. *)
Level == Preamble + Overhead + InterruptRawStack

InterruptOutermost == frames # <<>> /\ IsIrq(frames[1].vector)

(* Where the stack pointer is: in the kernel's stack without an interrupt, *)
(* else below the handlers that are in progress.                           *)
StackPosition ==
  /\ frames = <<>> => esp \in KernelStackBottom + Preamble .. KernelStackTop
  /\ frames # <<>> => esp = HandlerStack(frames[Len(frames)].from)
  /\ \A i \in 1 .. Len(frames) :
       /\ frames[i].from = InterruptStackTop - (i - 1) * Level
       /\ i = 1 => frames[i].esp \in KernelStackBottom + Preamble .. KernelStackTop
       /\ i > 1 => frames[i].esp = HandlerStack(frames[i - 1].from)

(* Only the outermost frame can be an interrupt's; only the code outside   *)
(* all frames runs with interrupts enabled; the request in service is that *)
(* of the outermost frame.                                                 *)
Nesting ==
  /\ frames \in Seq(FrameRecord) /\ Len(frames) <= ExceptionMax + 1
  /\ \A i \in 1 .. Len(frames) :
       /\ frames[i].flag = (i = 1)
       /\ IsIrq(frames[i].vector) => i = 1
       /\ frames[i].handled => IsIrq(frames[i].vector)
  /\ \A a, b \in isr : a = b
  /\ Running => interrupt_flag = (frames = <<>>)
  /\ Running /\ frames = <<>> => isr = {}
  /\ frames # <<>> /\ frames[1].handled => isr = {}

Counters ==
  /\ pic_counter = IF InterruptOutermost THEN 1 ELSE 0
  /\ exception_counter = Len(frames) - pic_counter
  /\ exception_counter <= ExceptionMax
  /\ mode = "nesting_overflow" => exception_counter = ExceptionMax

Simple ==
  /\ irr \subseteq IrqLines /\ isr \subseteq IrqLines
  /\ interrupt_flag \in BOOLEAN /\ raised \in BOOLEAN
  /\ mode \in {"running", "panic", "nesting_overflow", "reset"}

NInv == Simple /\ Nesting /\ Counters /\ StackPosition

-----------------------------------------------------------------------------
LEMMA ConstantsTyped ==
  /\ KernelRawStack \in Nat /\ KernelRawStack > 0
  /\ InterruptRawStack \in Nat /\ InterruptRawStack > 0
  /\ Preamble \in Nat /\ Preamble > 0 /\ Overhead \in Nat /\ Overhead > 0
  /\ ExceptionMax \in Nat /\ ExceptionMax > 0 /\ PicMax \in Nat /\ PicMax > 0
  BY StackAssumption

LEMMA VectorsTyped ==
  /\ \A line \in IrqLines : IrqBase + line \in Gates /\ IsIrq(IrqBase + line)
  /\ GeneralProtection \in Gates /\ ~IsIrq(GeneralProtection)
  /\ \A vector \in Exceptions : ~IsIrq(vector)
  /\ ~IsIrq(IrqBase + SpuriousLine) \/ IrqBase + SpuriousLine \notin Gates
  /\ \A vector \in Gates : vector \in Nat
  BY VectorAssumption DEF Gates, IsIrq, IrqBase, IrqMax, GeneralProtection

(* The interrupt stack holds a level for each exception that may nest and  *)
(* one more handler: this is where the slack is needed.                    *)
LEMMA RoomForLevels ==
  ASSUME NEW n \in Nat, n <= ExceptionMax
  PROVE  /\ n * Level \in Nat
         /\ InterruptStackTop \in Nat /\ InterruptStackBottom \in Nat
         /\ InterruptStackTop - n * Level - Overhead - InterruptRawStack
              >= InterruptStackBottom
<1>. DEFINE R == InterruptRawStack
            V == Overhead
            E == ExceptionMax
            P == PicMax
            RP == InterruptRawStack + Preamble
<1>1. /\ R \in Nat /\ V \in Nat /\ E \in Nat /\ P \in Nat /\ RP \in Nat
      /\ P > 0 /\ Level = RP + V /\ Level \in Nat
      /\ InterruptStackBottom \in Nat
  BY ConstantsTyped DEF Level, InterruptStackBottom, KernelStackTop
<1>2. InterruptStackTop = InterruptStackBottom + R + RP * (P + E - 1)
  BY DEF InterruptStackTop
<1>3. V * (E + 1) <= RP * (P - 1)
  BY SlackAssumption
<1>. HIDE DEF R, V, E, P, RP
<1>4. n * Level <= E * Level /\ n * Level \in Nat /\ E * Level \in Nat
  BY <1>1 DEF E
<1>5. /\ E * Level = RP * E + V * E
      /\ V * (E + 1) = V * E + V
      /\ RP * (P + E - 1) = RP * (P - 1) + RP * E
  BY <1>1
<1>6. /\ RP * E \in Nat /\ V * E \in Nat /\ RP * (P - 1) \in Nat
      /\ RP * (P + E - 1) \in Nat
  BY <1>1
<1>7. InterruptStackTop - n * Level - V - R >= InterruptStackBottom
  BY <1>1, <1>2, <1>3, <1>4, <1>5, <1>6
<1>8. InterruptStackTop \in Nat
  BY <1>1, <1>2, <1>6
<1>. QED BY <1>1, <1>4, <1>7, <1>8 DEF R, V

(* The common entry loads the top of the interrupt stack in the mainline   *)
(* and goes on below the last handler otherwise.                           *)
LEMMA StackOfEntry ==
  ASSUME Nesting, StackPosition, Len(frames) <= ExceptionMax
  PROVE  SwitchStack(esp - Preamble) = InterruptStackTop - Len(frames) * Level
<1>. USE ConstantsTyped
<1>1. Len(frames) \in Nat
  BY DEF Nesting
<1>2. CASE frames = <<>>
  <2>1. Len(frames) = 0 /\ 0 * Level = 0
    <3>1. Level \in Nat
      BY DEF Level
    <3>2. 0 * Level = 0
      BY <3>1
    <3>3. Len(frames) = 0
      BY <1>2
    <3>. QED BY <3>2, <3>3
  <2>2. esp - Preamble < InterruptStackBottom
    BY <1>2 DEF StackPosition, InterruptStackBottom, KernelStackTop, KernelStackBottom
  <2>3. esp - Preamble \in Int /\ InterruptStackTop \in Nat /\ InterruptStackBottom \in Nat
    BY <1>2, RoomForLevels DEF StackPosition, KernelStackTop, KernelStackBottom
  <2>4. SwitchStack(esp - Preamble) = InterruptStackTop
    BY <2>2, <2>3 DEF SwitchStack
  <2>. QED BY <2>1, <2>3, <2>4
<1>3. CASE frames # <<>>
  <2>. DEFINE n == Len(frames)
  <2>1. n \in Nat /\ n > 0 /\ n \in 1 .. n
    <3>1. frames \in Seq(FrameRecord)
      BY DEF Nesting
    <3>2. n \in Nat \ {0}
      BY <1>3, <3>1, EmptySeq
    <3>. QED BY <3>2
  <2>2. Level \in Nat /\ Level = Preamble + Overhead + InterruptRawStack
    BY DEF Level
  <2>3. esp = InterruptStackTop - (n - 1) * Level - Overhead - InterruptRawStack
    BY <1>3, <2>1 DEF StackPosition, HandlerStack
  <2>. HIDE DEF n
  <2>4. /\ n * Level \in Nat /\ InterruptStackTop \in Nat /\ InterruptStackBottom \in Nat
        /\ InterruptStackTop - n * Level - Overhead - InterruptRawStack
             >= InterruptStackBottom
    BY <2>1, RoomForLevels DEF n
  <2>5. (n - 1) * Level = n * Level - Level
    BY <2>1, <2>2
  <2>6. esp - Preamble = InterruptStackTop - n * Level
    <3>1. PICK x \in Nat : x = n * Level
      BY <2>4
    <3>2. (n - 1) * Level = x - Level
      BY <2>5, <3>1
    <3>3. esp = InterruptStackTop - (x - Level) - Overhead - InterruptRawStack
      BY <2>3, <3>2
    <3>4. esp - Preamble = InterruptStackTop - x
      BY <2>2, <2>4, <3>3, ConstantsTyped
    <3>. QED BY <3>1, <3>4
  <2>7. /\ InterruptStackTop - n * Level > InterruptStackBottom
        /\ InterruptStackTop - n * Level <= InterruptStackTop
    BY <2>4
  <2>. QED BY <2>4, <2>6, <2>7 DEF SwitchStack, n
<1>. QED BY <1>2, <1>3

-----------------------------------------------------------------------------
(* An entry pushes one frame, or stops the machine when exceptions have    *)
(* nested as deep as they may.                                             *)
LEMMA Pushed ==
  ASSUME NInv, Running, NEW vector \in Gates, Enter(vector),
         IsIrq(vector) => frames = <<>>, ~Overflowed(vector)
  PROVE  /\ Len(frames) <= ExceptionMax /\ Len(frames) \in Nat
         /\ frames' = Append(frames,
               [vector |-> vector, esp |-> esp, flag |-> interrupt_flag,
                from |-> InterruptStackTop - Len(frames) * Level, handled |-> FALSE])
         /\ esp' = HandlerStack(InterruptStackTop - Len(frames) * Level)
         /\ frames' \in Seq(FrameRecord) /\ Len(frames') = Len(frames) + 1
         /\ frames' # <<>>
         /\ \A i \in 1 .. Len(frames) : frames'[i] = frames[i]
         /\ frames'[Len(frames) + 1] =
               [vector |-> vector, esp |-> esp, flag |-> interrupt_flag,
                from |-> InterruptStackTop - Len(frames) * Level, handled |-> FALSE]
         /\ mode' = mode /\ interrupt_flag' = FALSE /\ Counted(vector, 1)
<1>. USE ConstantsTyped
<1>1. frames \in Seq(FrameRecord) /\ Len(frames) \in Nat
  BY DEF NInv, Nesting
<1>2. Len(frames) <= ExceptionMax
  <2>1. CASE frames = <<>>
    BY <2>1
  <2>2. CASE ~IsIrq(vector)
    <3>1. exception_counter < ExceptionMax
      <4>1. ~(exception_counter >= ExceptionMax)
        BY <2>2 DEF Overflowed
      <4>2. exception_counter \in Int
        BY <1>1 DEF NInv, Counters
      <4>. QED BY <4>1, <4>2
    <3>2. pic_counter \in {0, 1} /\ exception_counter = Len(frames) - pic_counter
      BY DEF NInv, Counters
    <3>. QED BY <1>1, <3>1, <3>2
  <2>. QED BY <2>1, <2>2
<1>3. SwitchStack(esp - Preamble) = InterruptStackTop - Len(frames) * Level
  BY <1>2, StackOfEntry DEF NInv
<1>. DEFINE new == [vector |-> vector, esp |-> esp, flag |-> interrupt_flag,
                    from |-> InterruptStackTop - Len(frames) * Level,
                    handled |-> FALSE]
<1>4. /\ frames' = Append(frames, new)
      /\ esp' = HandlerStack(InterruptStackTop - Len(frames) * Level)
      /\ mode' = mode /\ interrupt_flag' = FALSE /\ Counted(vector, 1)
  BY <1>3 DEF Enter
<1>5. new \in FrameRecord
  <2>1. InterruptStackTop - Len(frames) * Level \in Int
    BY <1>1, <1>2, RoomForLevels
  <2>2. esp \in Int
    <3>1. CASE frames = <<>>
      BY <3>1 DEF NInv, StackPosition, KernelStackTop, KernelStackBottom
    <3>2. CASE frames # <<>>
      <4>1. Len(frames) \in Nat \ {0}
        BY <1>1, <3>2, EmptySeq
      <4>2. frames[Len(frames)] \in FrameRecord
        BY <1>1, <4>1, ElementOfSeq
      <4>. QED BY <3>2, <4>2 DEF NInv, StackPosition, FrameRecord, HandlerStack
    <3>. QED BY <3>1, <3>2
  <2>3. interrupt_flag \in BOOLEAN
    BY DEF NInv, Simple
  <2>. QED BY <2>1, <2>2, <2>3 DEF FrameRecord
<1>. HIDE DEF new
<1>6. /\ frames' \in Seq(FrameRecord) /\ Len(frames') = Len(frames) + 1
      /\ \A i \in 1 .. Len(frames) : frames'[i] = frames[i]
      /\ frames'[Len(frames) + 1] = new
  BY <1>1, <1>4, <1>5
<1>7. frames' # <<>>
  BY <1>1, <1>6
<1>. QED BY <1>1, <1>2, <1>4, <1>6, <1>7 DEF new

LEMMA StoppedWhenNested ==
  ASSUME NInv, NEW vector \in Gates, Enter(vector),
         IsIrq(vector) => frames = <<>>, Overflowed(vector)
  PROVE  /\ exception_counter = ExceptionMax
         /\ mode' = "nesting_overflow" /\ interrupt_flag' = FALSE
         /\ UNCHANGED <<esp, frames, pic_counter, exception_counter>>
<1>1. ~IsIrq(vector)
  <2>. SUFFICES ASSUME IsIrq(vector) PROVE FALSE
    OBVIOUS
  <2>1. pic_counter = 0
    BY DEF NInv, Counters, InterruptOutermost
  <2>2. pic_counter >= PicMax
    BY DEF Overflowed
  <2>. QED BY <2>1, <2>2, ConstantsTyped
<1>2. exception_counter >= ExceptionMax
  BY <1>1 DEF Overflowed
<1>3. exception_counter <= ExceptionMax /\ exception_counter \in Int
  BY DEF NInv, Counters, Nesting
<1>. QED BY <1>2, <1>3, ConstantsTyped DEF Enter

(* What an entry leaves true, whatever happens to the PIC in the step.     *)
LEMMA EnterKeeps ==
  ASSUME NInv, Running, NEW vector \in Gates, Enter(vector),
         IsIrq(vector) => frames = <<>>
  PROVE  /\ Counters' /\ StackPosition'
         /\ mode' \in {"running", "nesting_overflow"} /\ interrupt_flag' = FALSE
         /\ frames' \in Seq(FrameRecord) /\ Len(frames') <= ExceptionMax + 1
         /\ \A i \in 1 .. Len(frames') :
              /\ frames'[i].flag = (i = 1)
              /\ IsIrq(frames'[i].vector) => i = 1
              /\ frames'[i].handled => IsIrq(frames'[i].vector)
         /\ Running' => frames' # <<>>
         /\ frames' # <<>> /\ frames'[1].handled
              => frames # <<>> /\ frames[1].handled
<1>. USE ConstantsTyped
<1>n. /\ frames \in Seq(FrameRecord) /\ Len(frames) \in Nat
      /\ frames # <<>> => Len(frames) >= 1
      /\ frames = <<>> => Len(frames) = 0
      /\ interrupt_flag = (frames = <<>>)
      /\ \A i \in 1 .. Len(frames) :
           /\ frames[i].flag = (i = 1)
           /\ IsIrq(frames[i].vector) => i = 1
           /\ frames[i].handled => IsIrq(frames[i].vector)
  <2>1. frames \in Seq(FrameRecord)
    BY DEF NInv, Nesting
  <2>2. /\ Len(frames) \in Nat
        /\ frames # <<>> => Len(frames) \in Nat \ {0}
        /\ frames = <<>> => Len(frames) = 0
    BY <2>1, EmptySeq
  <2>. QED BY <2>1, <2>2 DEF NInv, Nesting
<1>1. CASE Overflowed(vector)
  <2>1. /\ exception_counter = ExceptionMax
        /\ mode' = "nesting_overflow" /\ interrupt_flag' = FALSE
        /\ esp' = esp /\ frames' = frames /\ pic_counter' = pic_counter
        /\ exception_counter' = exception_counter
    BY <1>1, StoppedWhenNested
  <2>2. Counters'
    BY <2>1 DEF NInv, Counters, InterruptOutermost
  <2>3. StackPosition'
    BY <2>1 DEF NInv, StackPosition
  <2>4. Len(frames) <= ExceptionMax + 1
    BY DEF NInv, Nesting
  <2>. QED BY <1>n, <2>1, <2>2, <2>3, <2>4 DEF Running
<1>2. CASE ~Overflowed(vector)
  <2>. DEFINE n == Len(frames)
  <2>1. /\ n <= ExceptionMax /\ n \in Nat
        /\ esp' = HandlerStack(InterruptStackTop - n * Level)
        /\ frames' \in Seq(FrameRecord) /\ Len(frames') = n + 1
        /\ frames' # <<>>
        /\ \A i \in 1 .. n : frames'[i] = frames[i]
        /\ frames'[n + 1].vector = vector /\ frames'[n + 1].esp = esp
        /\ frames'[n + 1].flag = interrupt_flag
        /\ frames'[n + 1].from = InterruptStackTop - n * Level
        /\ frames'[n + 1].handled = FALSE
        /\ mode' = mode /\ interrupt_flag' = FALSE /\ Counted(vector, 1)
    <3>1. /\ n <= ExceptionMax /\ n \in Nat
          /\ esp' = HandlerStack(InterruptStackTop - n * Level)
          /\ frames' \in Seq(FrameRecord) /\ Len(frames') = n + 1
          /\ frames' # <<>>
          /\ \A i \in 1 .. n : frames'[i] = frames[i]
          /\ mode' = mode /\ interrupt_flag' = FALSE /\ Counted(vector, 1)
      BY <1>2, Pushed
    <3>2. frames'[n + 1] =
            [vector |-> vector, esp |-> esp, flag |-> interrupt_flag,
             from |-> InterruptStackTop - n * Level, handled |-> FALSE]
      BY <1>2, Pushed
    <3>. HIDE DEF n
    <3>. QED BY <3>1, <3>2
  <2>2. \A i \in 1 .. n + 1 : i \in 1 .. n \/ i = n + 1
    BY <2>1
  <2>3. n + 1 = 1 <=> frames = <<>>
    BY <1>n, <2>1
  <2>4. /\ frames'[n + 1].flag = (n + 1 = 1)
        /\ IsIrq(frames'[n + 1].vector) => n + 1 = 1
    BY <1>n, <2>1, <2>3
  <2>. HIDE DEF n
  <2>5. \A i \in 1 .. Len(frames') :
          /\ frames'[i].flag = (i = 1)
          /\ IsIrq(frames'[i].vector) => i = 1
          /\ frames'[i].handled => IsIrq(frames'[i].vector)
    BY <1>n, <2>1, <2>2, <2>4 DEF n
  <2>6. frames'[1].handled => frames # <<>> /\ frames[1].handled
    BY <1>n, <2>1, <2>3 DEF n
  <2>7. Counters'
    <3>1. CASE frames = <<>>
      <4>1. n = 0 /\ frames'[1].vector = vector
        BY <1>n, <2>1, <3>1 DEF n
      <4>2. pic_counter = 0 /\ exception_counter = 0
        BY <3>1, <4>1 DEF NInv, Counters, InterruptOutermost, n
      <4>3. InterruptOutermost' <=> IsIrq(vector)
        BY <2>1, <4>1 DEF InterruptOutermost
      <4>4. /\ IsIrq(vector) => pic_counter' = 1 /\ exception_counter' = 0
            /\ ~IsIrq(vector) => pic_counter' = 0 /\ exception_counter' = 1
        BY <2>1, <4>2 DEF Counted
      <4>. QED BY <2>1, <4>1, <4>3, <4>4 DEF Counters, NInv, Running
    <3>2. CASE frames # <<>>
      <4>1. ~IsIrq(vector) /\ frames'[1] = frames[1] /\ n >= 1
        BY <1>n, <2>1, <3>2 DEF n
      <4>2. InterruptOutermost' <=> InterruptOutermost
        BY <2>1, <3>2, <4>1 DEF InterruptOutermost
      <4>3. pic_counter' = pic_counter /\ exception_counter' = exception_counter + 1
        BY <2>1, <4>1 DEF Counted
      <4>4. ~(exception_counter >= ExceptionMax)
        BY <1>2, <4>1 DEF Overflowed
      <4>5. /\ pic_counter = IF InterruptOutermost THEN 1 ELSE 0
            /\ exception_counter = n - pic_counter
        BY DEF NInv, Counters, n
      <4>. QED BY <2>1, <4>2, <4>3, <4>4, <4>5 DEF Counters, Running
    <3>. QED BY <3>1, <3>2
  <2>8. StackPosition'
    <3>1. frames' # <<>> /\ esp' = HandlerStack(frames'[Len(frames')].from)
      BY <2>1
    <3>2. ASSUME NEW i \in 1 .. n
          PROVE  /\ frames'[i].from = InterruptStackTop - (i - 1) * Level
                 /\ i = 1 => frames'[i].esp
                               \in KernelStackBottom + Preamble .. KernelStackTop
                 /\ i > 1 => frames'[i].esp = HandlerStack(frames'[i - 1].from)
      <4>1. frames'[i] = frames[i]
        BY <2>1
      <4>2. i > 1 => i - 1 \in 1 .. n /\ frames'[i - 1] = frames[i - 1]
        BY <2>1
      <4>. QED BY <4>1, <4>2 DEF NInv, StackPosition, n
    <3>. DEFINE Placed(i) ==
           /\ frames'[i].from = InterruptStackTop - (i - 1) * Level
           /\ i = 1 => frames'[i].esp \in KernelStackBottom + Preamble .. KernelStackTop
           /\ i > 1 => frames'[i].esp = HandlerStack(frames'[i - 1].from)
    <3>3. Placed(n + 1)
      <4>1. n + 1 - 1 = n
        BY <2>1
      <4>2. n + 1 = 1 => esp \in KernelStackBottom + Preamble .. KernelStackTop
        BY <2>3 DEF NInv, StackPosition
      <4>3. n + 1 > 1 => esp = HandlerStack(frames'[n].from)
        <5>. SUFFICES ASSUME n + 1 > 1 PROVE esp = HandlerStack(frames'[n].from)
          OBVIOUS
        <5>1. frames # <<>> /\ n \in 1 .. n
          BY <1>n, <2>1 DEF n
        <5>. QED BY <2>1, <5>1 DEF NInv, StackPosition, n
      <4>. QED BY <2>1, <4>1, <4>2, <4>3
    <3>4. /\ KernelStackBottom' = KernelStackBottom /\ Level' = Level
          /\ KernelStackTop' = KernelStackTop /\ InterruptStackTop' = InterruptStackTop
      BY DEF KernelStackBottom, KernelStackTop, InterruptStackTop,
             InterruptStackBottom, Level
    <3>5. \A i \in 1 .. Len(frames') : Placed(i)
      <4>1. \A i \in 1 .. n : Placed(i)
        BY <3>2
      <4>. HIDE DEF Placed
      <4>. QED BY <2>1, <2>2, <3>3, <4>1
    <3>. QED BY <3>1, <3>4, <3>5 DEF StackPosition
  <2>. QED BY <2>1, <2>5, <2>6, <2>7, <2>8 DEF Running
<1>. QED BY <1>1, <1>2

(* A step that enters a gate, whatever else it does to the PIC.            *)
LEMMA EnterStep ==
  ASSUME NInv, Running, NEW vector \in Gates, Enter(vector),
         IsIrq(vector) => frames = <<>>,
         irr' \subseteq IrqLines, isr' \subseteq IrqLines, raised' \in BOOLEAN,
         \A a, b \in isr' : a = b, isr' = isr \/ frames = <<>>
  PROVE  NInv'
<1>1. /\ Counters' /\ StackPosition'
      /\ mode' \in {"running", "nesting_overflow"} /\ interrupt_flag' = FALSE
      /\ frames' \in Seq(FrameRecord) /\ Len(frames') <= ExceptionMax + 1
      /\ \A i \in 1 .. Len(frames') :
           /\ frames'[i].flag = (i = 1)
           /\ IsIrq(frames'[i].vector) => i = 1
           /\ frames'[i].handled => IsIrq(frames'[i].vector)
      /\ Running' => frames' # <<>>
      /\ frames' # <<>> /\ frames'[1].handled
           => frames # <<>> /\ frames[1].handled
  BY EnterKeeps
<1>2. Simple'
  BY <1>1 DEF Simple
<1>3. FrameRecord' = FrameRecord
  BY DEF FrameRecord, Gates
<1>4. frames' # <<>> /\ frames'[1].handled => isr' = {}
  BY <1>1 DEF NInv, Nesting
<1>5. Nesting'
  BY <1>1, <1>3, <1>4 DEF Nesting, IsIrq
<1>. QED BY <1>1, <1>2, <1>5 DEF NInv

LEMMA DeliverStep ==
  ASSUME NInv, Running, NEW vector, Deliver(vector),
         IsIrq(vector) /\ vector \in Gates => frames = <<>>,
         irr' \subseteq IrqLines, isr' \subseteq IrqLines, raised' \in BOOLEAN,
         \A a, b \in isr' : a = b, isr' = isr \/ frames = <<>>
  PROVE  NInv'
<1>1. CASE vector \in Gates /\ Enter(vector)
  BY <1>1, EnterStep
<1>2. CASE Enter(GeneralProtection)
  BY <1>2, EnterStep, VectorsTyped
<1>3. CASE /\ mode' = "reset"
           /\ UNCHANGED <<esp, frames, pic_counter, exception_counter, interrupt_flag>>
  <2>1. Simple'
    BY <1>3 DEF NInv, Simple
  <2>2. FrameRecord' = FrameRecord
    BY DEF FrameRecord, Gates
  <2>3. Nesting'
    BY <1>3, <2>2 DEF NInv, Nesting, Running, IsIrq
  <2>4. Counters'
    BY <1>3 DEF NInv, Counters, InterruptOutermost
  <2>5. StackPosition'
    BY <1>3 DEF NInv, StackPosition
  <2>. QED BY <2>1, <2>3, <2>4, <2>5 DEF NInv
<1>. QED BY <1>1, <1>2, <1>3 DEF Deliver

(* A frame that has been handled is the only one.                          *)
LEMMA HandledAlone ==
  ASSUME NInv, frames # <<>>, IsIrq(Innermost.vector)
  PROVE  /\ Len(frames) = 1 /\ Innermost = frames[1] /\ frames[1] \in FrameRecord
         /\ frames \in Seq(FrameRecord) /\ InterruptOutermost
<1>1. frames \in Seq(FrameRecord)
  BY DEF NInv, Nesting
<1>2. Len(frames) \in Nat \ {0}
  BY <1>1, EmptySeq
<1>3. Innermost = frames[Len(frames)]
  BY DEF Innermost, Last
<1>4. Len(frames) = 1
  <2>1. Len(frames) \in 1 .. Len(frames) /\ IsIrq(frames[Len(frames)].vector)
    BY <1>2, <1>3
  <2>. QED BY <2>1 DEF NInv, Nesting
<1>. QED BY <1>1, <1>3, <1>4 DEF InterruptOutermost

LEMMA NInvInit == Init => NInv
<1>. SUFFICES ASSUME Init PROVE NInv
  OBVIOUS
<1>. USE DEF Init
<1>1. Simple
  BY DEF Simple
<1>2. frames \in Seq(FrameRecord) /\ Len(frames) = 0
  OBVIOUS
<1>3. Nesting
  <2>1. Len(frames) <= ExceptionMax + 1
    BY <1>2, ConstantsTyped
  <2>2. \A i \in 1 .. Len(frames) : FALSE
    BY <1>2
  <2>3. interrupt_flag = (frames = <<>>)
    OBVIOUS
  <2>4. frames \in Seq(FrameRecord) /\ isr = {} /\ frames = <<>>
    BY <1>2
  <2>. HIDE DEF Init
  <2>. QED BY <2>1, <2>2, <2>3, <2>4 DEF Nesting
<1>4. Counters
  BY <1>2, ConstantsTyped DEF Counters, InterruptOutermost
<1>5. StackPosition
  BY <1>2 DEF StackPosition
<1>. QED BY <1>1, <1>3, <1>4, <1>5 DEF NInv

LEMMA NInvNext == NInv /\ [Next]_vars => NInv'
<1>. SUFFICES ASSUME NInv, [Next]_vars PROVE NInv'
  OBVIOUS
<1>c. FrameRecord' = FrameRecord
  BY DEF FrameRecord, Gates
<1>1. CASE Request
  <2>. USE <1>1 DEF Request, NInv
  <2>1. Simple'
    BY DEF Simple
  <2>2. Nesting'
    BY <1>c DEF Nesting, Running, IsIrq
  <2>3. Counters'
    BY DEF Counters, InterruptOutermost
  <2>4. StackPosition'
    BY DEF StackPosition
  <2>. QED BY <2>1, <2>2, <2>3, <2>4
<1>2. CASE Mainline
  <2>. USE <1>2 DEF Mainline, NInv
  <2>1. Simple'
    BY DEF Simple
  <2>2. Nesting'
    BY <1>c DEF Nesting, Running, IsIrq
  <2>3. Counters'
    BY DEF Counters, InterruptOutermost
  <2>4. StackPosition'
    BY DEF StackPosition, KernelStackBottom, KernelStackTop
  <2>. QED BY <2>1, <2>2, <2>3, <2>4
<1>3. CASE Accept
  <2>. PICK line \in irr :
         /\ Running /\ interrupt_flag
         /\ irr' = irr \ {line} /\ isr' = isr \cup {line}
         /\ Deliver(IrqBase + line) /\ raised' = raised
    BY <1>3 DEF Accept
  <2>1. irr \subseteq IrqLines /\ raised \in BOOLEAN
    BY DEF NInv, Simple
  <2>2. frames = <<>> /\ isr = {}
    BY DEF NInv, Nesting
  <2>3. isr' \subseteq IrqLines /\ (\A a, b \in isr' : a = b) /\ irr' \subseteq IrqLines
    BY <2>1, <2>2
  <2>. QED BY <2>1, <2>2, <2>3, DeliverStep
<1>4. CASE AcceptSpurious
  <2>1. /\ Running /\ frames = <<>> /\ isr = {} /\ Deliver(IrqBase + SpuriousLine)
        /\ irr' = irr /\ isr' = isr /\ raised' = raised
    BY <1>4 DEF AcceptSpurious, NInv, Nesting
  <2>2. irr \subseteq IrqLines /\ raised \in BOOLEAN
    BY DEF NInv, Simple
  <2>. QED BY <2>1, <2>2, DeliverStep
<1>5. CASE Raise
  <2>. PICK vector \in Exceptions :
         /\ Running /\ raised' = TRUE /\ Deliver(vector)
         /\ irr' = irr /\ isr' = isr
    BY <1>5 DEF Raise
  <2>1. irr \subseteq IrqLines /\ isr \subseteq IrqLines /\ (\A a, b \in isr : a = b)
    BY DEF NInv, Simple, Nesting
  <2>. QED BY <2>1, DeliverStep, VectorsTyped
<1>6. CASE Panic
  <2>. USE <1>6 DEF Panic, NInv
  <2>1. Simple'
    BY DEF Simple
  <2>2. Nesting'
    BY <1>c DEF Nesting, Running, IsIrq
  <2>3. Counters'
    BY DEF Counters, InterruptOutermost
  <2>4. StackPosition'
    BY DEF StackPosition
  <2>. QED BY <2>1, <2>2, <2>3, <2>4
<1>7. CASE Dispatch
  <2>1. /\ Len(frames) = 1 /\ Innermost = frames[1] /\ frames[1] \in FrameRecord
        /\ frames \in Seq(FrameRecord) /\ InterruptOutermost /\ frames # <<>>
    BY <1>7, HandledAlone DEF Dispatch
  <2>2. /\ isr' = {line \in isr : \E other \in isr : other < line}
        /\ frames' = [frames EXCEPT ![1].handled = TRUE]
        /\ irr' = irr /\ interrupt_flag' = interrupt_flag /\ mode' = mode
        /\ esp' = esp /\ pic_counter' = pic_counter
        /\ exception_counter' = exception_counter /\ raised' = raised
        /\ Running /\ IsIrq(frames[1].vector)
    BY <1>7, <2>1 DEF Dispatch
  <2>3. isr' = {}
    <3>1. isr \subseteq 0 .. 15 /\ \A a, b \in isr : a = b
      BY VectorAssumption DEF NInv, Simple, Nesting
    <3>. QED BY <2>2, <3>1
  <2>4. frames' = [frames EXCEPT ![1] = [frames[1] EXCEPT !.handled = TRUE]]
    BY <2>2
  <2>5. /\ frames' \in Seq(FrameRecord) /\ Len(frames') = 1
        /\ frames'[1] = [frames[1] EXCEPT !.handled = TRUE]
    <3>1. [frames[1] EXCEPT !.handled = TRUE] \in FrameRecord
      BY <2>1 DEF FrameRecord
    <3>. QED BY <2>1, <2>4, <3>1
  <2>6. /\ frames'[1].vector = frames[1].vector /\ frames'[1].esp = frames[1].esp
        /\ frames'[1].flag = frames[1].flag /\ frames'[1].from = frames[1].from
        /\ frames' # <<>> /\ \A i \in 1 .. 1 : i = 1
    BY <2>1, <2>5 DEF FrameRecord
  <2>7. Simple'
    BY <2>2, <2>3 DEF NInv, Simple
  <2>8. Nesting'
    <3>1. frames'[1].flag = (1 = 1) /\ IsIrq(frames'[1].vector)
      BY <2>1, <2>2, <2>6 DEF NInv, Nesting
    <3>2. interrupt_flag' = (frames' = <<>>)
      BY <2>1, <2>2, <2>6 DEF NInv, Nesting
    <3>3. \A i \in 1 .. Len(frames') :
            /\ frames'[i].flag = (i = 1)
            /\ IsIrq(frames'[i].vector) => i = 1
            /\ frames'[i].handled => IsIrq(frames'[i].vector)
      <4>1. 1 .. Len(frames') = {1}
        BY <2>5
      <4>. QED BY <3>1, <4>1
    <3>4. Len(frames') <= ExceptionMax + 1
      BY <2>5, ConstantsTyped
    <3>. QED BY <1>c, <2>3, <2>5, <2>6, <3>2, <3>3, <3>4 DEF Nesting, IsIrq
  <2>9. Counters'
    <3>1. InterruptOutermost'
      BY <2>2, <2>6 DEF InterruptOutermost, IsIrq
    <3>. QED BY <2>1, <2>2, <2>5, <3>1 DEF NInv, Counters
  <2>10. StackPosition'
    <3>1. /\ esp = HandlerStack(frames[1].from)
          /\ frames[1].from = InterruptStackTop - (1 - 1) * Level
          /\ frames[1].esp \in KernelStackBottom + Preamble .. KernelStackTop
      BY <2>1 DEF NInv, StackPosition
    <3>2. 1 .. Len(frames') = {1}
      BY <2>5
    <3>3. \A i \in 1 .. Len(frames') :
            /\ frames'[i].from = InterruptStackTop - (i - 1) * Level
            /\ i = 1 => frames'[i].esp \in KernelStackBottom + Preamble .. KernelStackTop
            /\ i > 1 => frames'[i].esp = HandlerStack(frames'[i - 1].from)
      BY <2>6, <3>1, <3>2
    <3>4. /\ KernelStackBottom' = KernelStackBottom /\ Level' = Level
          /\ KernelStackTop' = KernelStackTop /\ InterruptStackTop' = InterruptStackTop
      BY DEF KernelStackBottom, KernelStackTop, InterruptStackTop,
             InterruptStackBottom, Level
    <3>5. esp' = HandlerStack(frames'[Len(frames')].from)
      BY <2>2, <2>5, <2>6, <3>1
    <3>. QED BY <2>6, <3>3, <3>4, <3>5 DEF StackPosition
  <2>. QED BY <2>7, <2>8, <2>9, <2>10 DEF NInv
<1>8. CASE Return
  <2>0. frames # <<>> /\ Innermost.handled
    BY <1>8 DEF Return
  <2>1. IsIrq(Innermost.vector)
    <3>1. Len(frames) \in Nat \ {0} /\ Innermost = frames[Len(frames)]
      BY <2>0, EmptySeq DEF NInv, Nesting, Innermost, Last
    <3>. QED BY <2>0, <3>1 DEF NInv, Nesting
  <2>2. /\ Len(frames) = 1 /\ Innermost = frames[1] /\ frames[1] \in FrameRecord
        /\ frames \in Seq(FrameRecord) /\ InterruptOutermost
    BY <2>0, <2>1, HandledAlone
  <2>3. /\ pic_counter' = 0 /\ exception_counter' = 0
    <3>1. pic_counter = 1 /\ exception_counter = 0
      BY <2>2 DEF NInv, Counters
    <3>. QED BY <1>8, <2>1, <3>1 DEF Return, Counted
  <2>4. frames' = <<>> /\ Len(frames') = 0
    <3>1. Front(frames) = SubSeq(frames, 1, 0)
      BY <2>2 DEF Front
    <3>2. SubSeq(frames, 1, 0) = <<>>
      BY <2>2
    <3>. QED BY <1>8, <3>1, <3>2 DEF Return
  <2>5. /\ esp' = frames[1].esp /\ interrupt_flag' = TRUE
        /\ irr' = irr /\ isr' = isr /\ mode' = mode /\ raised' = raised
    <3>1. Innermost.flag = (1 = 1)
      BY <2>2 DEF NInv, Nesting
    <3>. QED BY <1>8, <2>2, <3>1 DEF Return
  <2>6. isr = {}
    BY <2>0, <2>2 DEF NInv, Nesting
  <2>7. Simple'
    BY <2>5 DEF NInv, Simple
  <2>8. Nesting'
    <3>1. Len(frames') <= ExceptionMax + 1
      BY <2>4, ConstantsTyped
    <3>2. \A i \in 1 .. Len(frames') : FALSE
      BY <2>4
    <3>3. interrupt_flag' = (frames' = <<>>)
      BY <2>4, <2>5
    <3>4. frames' \in Seq(FrameRecord) /\ isr' = {} /\ frames' = <<>>
      BY <2>4, <2>5, <2>6
    <3>. QED BY <1>c, <3>1, <3>2, <3>3, <3>4 DEF Nesting
  <2>9. Counters'
    <3>1. mode # "nesting_overflow"
      BY <1>8 DEF Return, Running
    <3>. QED BY <2>3, <2>4, <2>5, <3>1, ConstantsTyped DEF Counters, InterruptOutermost
  <2>10. StackPosition'
    BY <2>2, <2>4, <2>5 DEF NInv, StackPosition, KernelStackBottom, KernelStackTop
  <2>. QED BY <2>7, <2>8, <2>9, <2>10 DEF NInv
<1>9. CASE UNCHANGED vars
  <2>. USE <1>9 DEF vars, NInv
  <2>1. Simple'
    BY DEF Simple
  <2>2. Nesting'
    BY <1>c DEF Nesting, Running, IsIrq
  <2>3. Counters'
    BY DEF Counters, InterruptOutermost
  <2>4. StackPosition'
    BY DEF StackPosition
  <2>. QED BY <2>1, <2>2, <2>3, <2>4
<1>. QED BY <1>1, <1>2, <1>3, <1>4, <1>5, <1>6, <1>7, <1>8, <1>9 DEF Next

LEMMA AlwaysNInv == Spec => []NInv
  BY NInvInit, NInvNext, PTL DEF Spec

-----------------------------------------------------------------------------
(* Where each interrupt in progress has its words: a level of the          *)
(* interrupt stack each, and the outermost also its frame on the kernel's. *)
LEMMA LevelOfFrame ==
  ASSUME NInv, NEW i \in 1 .. Len(frames)
  PROVE  /\ i \in Nat /\ (i - 1) * Level \in Nat
         /\ frames[i].from = InterruptStackTop - (i - 1) * Level
         /\ HandlerStack(frames[i].from) \in Nat
         /\ HandlerStack(frames[i].from) >= InterruptStackBottom
         /\ HandlerStack(frames[i].from) = frames[i].from - Overhead - InterruptRawStack
         /\ frames[i].from \in Nat /\ frames[i].from <= InterruptStackTop
<1>1. /\ Len(frames) \in Nat /\ Len(frames) <= ExceptionMax + 1
      /\ frames[i].from = InterruptStackTop - (i - 1) * Level
  BY DEF NInv, Nesting, StackPosition
<1>2. i - 1 \in Nat /\ i - 1 <= ExceptionMax /\ i \in Nat
  BY <1>1, ConstantsTyped
<1>3. /\ (i - 1) * Level \in Nat
      /\ InterruptStackTop \in Nat /\ InterruptStackBottom \in Nat
      /\ InterruptStackTop - (i - 1) * Level - Overhead - InterruptRawStack
           >= InterruptStackBottom
  BY <1>2, RoomForLevels
<1>4. PICK x \in Nat : x = (i - 1) * Level
  BY <1>3
<1>5. /\ frames[i].from = InterruptStackTop - x
      /\ InterruptStackTop - x - Overhead - InterruptRawStack >= InterruptStackBottom
  BY <1>1, <1>3, <1>4
<1>6. frames[i].from \in Nat
  BY <1>3, <1>5, ConstantsTyped
<1>7. HandlerStack(frames[i].from) = frames[i].from - Overhead - InterruptRawStack
  BY DEF HandlerStack
<1>8. /\ HandlerStack(frames[i].from) >= InterruptStackBottom
      /\ frames[i].from <= InterruptStackTop
  BY <1>3, <1>5, <1>7
<1>9. HandlerStack(frames[i].from) \in Nat
  BY <1>3, <1>6, <1>7, <1>8, ConstantsTyped
<1>. QED BY <1>1, <1>2, <1>3, <1>6, <1>7, <1>8, <1>9

LEMMA TypeOfNInv == NInv => TypeOK
<1>. SUFFICES ASSUME NInv PROVE TypeOK
  OBVIOUS
<1>1. frames \in Seq(FrameRecord) /\ Len(frames) \in Nat
  BY DEF NInv, Nesting
<1>2. /\ KernelStackBottom = 0 /\ InterruptStackTop \in Nat
      /\ InterruptStackBottom \in Nat /\ KernelStackTop = InterruptStackBottom
      /\ InterruptStackBottom <= InterruptStackTop
  <2>1. /\ InterruptStackTop \in Nat /\ InterruptStackBottom \in Nat
        /\ InterruptStackTop - 0 * Level - Overhead - InterruptRawStack
             >= InterruptStackBottom
    BY RoomForLevels, ConstantsTyped
  <2>2. 0 * Level = 0
    BY ConstantsTyped DEF Level
  <2>. QED BY <2>1, <2>2, ConstantsTyped DEF KernelStackBottom, InterruptStackBottom
<1>3. esp \in KernelStackBottom .. InterruptStackTop
  <2>1. CASE frames = <<>>
    BY <1>2, <2>1, ConstantsTyped DEF NInv, StackPosition
  <2>2. CASE frames # <<>>
    <3>1. Len(frames) \in 1 .. Len(frames)
      BY <1>1, <2>2, EmptySeq
    <3>2. esp = HandlerStack(frames[Len(frames)].from)
      BY <2>2 DEF NInv, StackPosition
    <3>3. /\ esp \in Nat /\ frames[Len(frames)].from \in Nat
          /\ esp = frames[Len(frames)].from - Overhead - InterruptRawStack
          /\ frames[Len(frames)].from <= InterruptStackTop
      BY <3>1, <3>2, LevelOfFrame
    <3>4. esp <= frames[Len(frames)].from
      BY <3>3, ConstantsTyped
    <3>5. esp <= InterruptStackTop
      BY <1>2, <3>3, <3>4
    <3>. QED BY <1>2, <3>3, <3>5
  <2>. QED BY <2>1, <2>2
<1>4. pic_counter \in 0 .. PicMax /\ exception_counter \in 0 .. ExceptionMax
  <2>1. InterruptOutermost => Len(frames) \in Nat \ {0}
    BY <1>1, EmptySeq DEF InterruptOutermost
  <2>. QED BY <1>1, <2>1, ConstantsTyped DEF NInv, Counters
<1>5. \A i \in DOMAIN frames : frames[i].vector \in Gates
  <2>. SUFFICES ASSUME NEW i \in 1 .. Len(frames) PROVE frames[i].vector \in Gates
    BY <1>1, LenProperties
  <2>1. frames[i] \in FrameRecord
    BY <1>1, ElementOfSeq
  <2>. QED BY <2>1 DEF FrameRecord
<1>. QED BY <1>3, <1>4, <1>5 DEF NInv, Simple, TypeOK

(* The interrupts in progress are the outermost frame or none, and the     *)
(* exceptions are the rest.                                                *)
LEMMA CountedFrames ==
  ASSUME NInv
  PROVE  /\ pic_counter = Cardinality(FramesOf(TRUE))
         /\ exception_counter = Cardinality(FramesOf(FALSE))
<1>1. /\ frames \in Seq(FrameRecord) /\ Len(frames) \in Nat
      /\ DOMAIN frames = 1 .. Len(frames)
      /\ \A i \in 1 .. Len(frames) : IsIrq(frames[i].vector) => i = 1
  BY DEF NInv, Nesting
<1>2. IsIrq(frames[1].vector) \in BOOLEAN
  BY DEF IsIrq
<1>3. CASE InterruptOutermost
  <2>1. Len(frames) \in Nat \ {0} /\ IsIrq(frames[1].vector)
    BY <1>1, <1>3, EmptySeq DEF InterruptOutermost
  <2>2. FramesOf(TRUE) = {1}
    BY <1>1, <2>1 DEF FramesOf
  <2>3. FramesOf(FALSE) = 2 .. Len(frames)
    BY <1>1, <2>1 DEF FramesOf, IsIrq
  <2>4. Cardinality({1}) = 1
    BY FS_Singleton
  <2>5. Cardinality(2 .. Len(frames)) = Len(frames) - 1
    BY <2>1, FS_Interval
  <2>. QED BY <1>3, <2>2, <2>3, <2>4, <2>5 DEF NInv, Counters
<1>4. CASE ~InterruptOutermost
  <2>1. \A i \in 1 .. Len(frames) : ~IsIrq(frames[i].vector)
    BY <1>1, <1>4, EmptySeq DEF InterruptOutermost
  <2>2. FramesOf(TRUE) = {}
    BY <1>1, <2>1 DEF FramesOf
  <2>3. FramesOf(FALSE) = 1 .. Len(frames)
    BY <1>1, <2>1 DEF FramesOf, IsIrq
  <2>4. Cardinality(1 .. Len(frames)) = Len(frames)
    <3>1. \A n \in Nat : Cardinality(1 .. n) = n
      <4>. SUFFICES ASSUME NEW n \in Nat PROVE Cardinality(1 .. n) = n
        OBVIOUS
      <4>1. Cardinality(1 .. n) = IF 1 > n THEN 0 ELSE n - 1 + 1
        BY FS_Interval
      <4>. QED BY <4>1
    <3>. QED BY <1>1, <3>1
  <2>5. Cardinality({}) = 0
    BY FS_EmptySet
  <2>6. pic_counter = 0 /\ exception_counter = Len(frames)
    BY <1>1, <1>4 DEF NInv, Counters
  <2>. QED BY <2>2, <2>3, <2>4, <2>5, <2>6
<1>. QED BY <1>3, <1>4

(* The words of an interrupt in progress lie in its level, above the       *)
(* handler's stack, or in the kernel's stack; those of a nested one below  *)
(* the stack of the handler it interrupts.                                 *)
LEMMA WordsOfFrame ==
  ASSUME NInv, NEW i \in 1 .. Len(frames)
  PROVE  /\ \A x \in Words(i) :
              /\ x \in Int
              /\ x < InterruptStackBottom \/ HandlerStack(frames[i].from) <= x
         /\ i > 1 => \A x \in Words(i) :
              InterruptStackBottom <= x /\ x < HandlerStack(frames[i - 1].from)
         /\ HandlerWords(i) \subseteq InterruptStackBottom .. InterruptStackTop - 1
<1>. DEFINE low == HandlerStack(frames[i].from)
            high == frames[i].from
            stack == frames[i].esp
<1>1. /\ i \in Nat /\ low \in Nat /\ high \in Nat /\ low >= InterruptStackBottom
      /\ high <= InterruptStackTop /\ low <= high
      /\ high = InterruptStackTop - (i - 1) * Level
  <2>1. /\ i \in Nat /\ low \in Nat /\ high \in Nat /\ low >= InterruptStackBottom
        /\ high <= InterruptStackTop /\ low = high - Overhead - InterruptRawStack
        /\ high = InterruptStackTop - (i - 1) * Level
    BY LevelOfFrame
  <2>. HIDE DEF low, high
  <2>. QED BY <2>1, ConstantsTyped
<1>2. /\ InterruptStackBottom \in Nat /\ InterruptStackTop \in Nat
      /\ InterruptStackBottom = KernelStackTop
  BY RoomForLevels, ConstantsTyped DEF InterruptStackBottom
<1>3. i = 1 => stack \in Int /\ stack <= InterruptStackBottom
  <2>1. i = 1 => stack \in KernelStackBottom + Preamble .. KernelStackTop
    BY DEF NInv, StackPosition
  <2>. HIDE DEF stack
  <2>. QED BY <1>2, <2>1, ConstantsTyped DEF KernelStackBottom
<1>4. i > 1 => /\ stack = HandlerStack(frames[i - 1].from)
               /\ stack \in Int /\ stack - Preamble = high
  <2>. SUFFICES ASSUME i > 1
                PROVE  /\ stack = HandlerStack(frames[i - 1].from)
                       /\ stack \in Int /\ stack - Preamble = high
    OBVIOUS
  <2>1. Len(frames) \in Nat
    BY DEF NInv, Nesting
  <2>2. i - 1 \in 1 .. Len(frames)
    BY <1>1, <2>1
  <2>3. stack = HandlerStack(frames[i - 1].from)
    BY DEF NInv, StackPosition
  <2>. DEFINE above == frames[i - 1].from
  <2>4. /\ HandlerStack(above) = above - Overhead - InterruptRawStack
        /\ above = InterruptStackTop - (i - 1 - 1) * Level
        /\ above \in Nat /\ (i - 1 - 1) * Level \in Nat
    BY <2>2, LevelOfFrame
  <2>5. Level \in Nat /\ Level = Preamble + Overhead + InterruptRawStack
    BY ConstantsTyped DEF Level
  <2>6. (i - 1) * Level = (i - 1 - 1) * Level + Level
    BY <1>1, <2>5
  <2>7. stack = HandlerStack(above)
    BY <2>3
  <2>. HIDE DEF above, stack, high
  <2>8. stack \in Int /\ stack - Preamble = high
    BY <1>1, <1>2, <2>4, <2>5, <2>6, <2>7, ConstantsTyped
  <2>. QED BY <2>3, <2>8
<1>5. /\ Words(i) = (stack - Preamble .. stack - 1) \cup (low .. high - 1)
      /\ HandlerWords(i) = low .. high - 1
  BY DEF Words, FrameWords, HandlerWords
<1>6. \A x \in Words(i) :
        /\ x \in Int
        /\ x < InterruptStackBottom \/ low <= x
  <2>. HIDE DEF low, high, stack
  <2>1. CASE i = 1
    BY <1>1, <1>2, <1>3, <1>5, <2>1, ConstantsTyped
  <2>2. CASE i > 1
    BY <1>1, <1>2, <1>4, <1>5, <2>2, ConstantsTyped
  <2>3. i = 1 \/ i > 1
    BY <1>1
  <2>. QED BY <2>1, <2>2, <2>3
<1>7. i > 1 => \A x \in Words(i) : InterruptStackBottom <= x /\ x < stack
  <2>. HIDE DEF low, high, stack
  <2>. QED BY <1>1, <1>2, <1>4, <1>5, ConstantsTyped
<1>8. HandlerWords(i) \subseteq InterruptStackBottom .. InterruptStackTop - 1
  <2>. HIDE DEF low, high, stack
  <2>. QED BY <1>1, <1>2, <1>5
<1>. QED BY <1>4, <1>6, <1>7, <1>8

(* The stack of a handler lies below those of the frames outside it.       *)
LEMMA LowerLevels ==
  ASSUME NInv, NEW i \in 1 .. Len(frames), NEW j \in 1 .. Len(frames), i <= j
  PROVE  HandlerStack(frames[j].from) <= HandlerStack(frames[i].from)
<1>. DEFINE high(k) == frames[k].from
<1>1. /\ i \in Nat /\ (i - 1) * Level \in Nat /\ high(i) \in Nat
      /\ high(i) = InterruptStackTop - (i - 1) * Level
      /\ HandlerStack(high(i)) = high(i) - Overhead - InterruptRawStack
  BY LevelOfFrame
<1>2. /\ j \in Nat /\ (j - 1) * Level \in Nat /\ high(j) \in Nat
      /\ high(j) = InterruptStackTop - (j - 1) * Level
      /\ HandlerStack(high(j)) = high(j) - Overhead - InterruptRawStack
  BY LevelOfFrame
<1>3. Level \in Nat
  BY ConstantsTyped DEF Level
<1>4. (i - 1) * Level <= (j - 1) * Level
  <2>. HIDE DEF high
  <2>1. j - i \in Nat /\ j - 1 = (i - 1) + (j - i) /\ i - 1 \in Int
    BY <1>1, <1>2
  <2>2. \A a \in Int, d \in Nat, c \in Nat : (a + d) * c = a * c + d * c /\ d * c \in Nat
    OBVIOUS
  <2>3. (j - 1) * Level = (i - 1) * Level + (j - i) * Level /\ (j - i) * Level \in Nat
    BY <1>3, <2>1, <2>2
  <2>. QED BY <1>1, <1>2, <2>3
<1>5. InterruptStackTop \in Nat
  BY RoomForLevels, ConstantsTyped
<1>6. HandlerStack(high(j)) <= HandlerStack(high(i))
  <2>. HIDE DEF high
  <2>1. high(j) <= high(i)
    BY <1>1, <1>2, <1>4, <1>5
  <2>2. high(j) - Overhead - InterruptRawStack <= high(i) - Overhead - InterruptRawStack
    BY <1>1, <1>2, <2>1, ConstantsTyped
  <2>. QED BY <1>1, <1>2, <2>2
<1>. QED BY <1>6

-----------------------------------------------------------------------------
(* The types, with the stack pointer in one of the two stacks.             *)
THEOREM InterruptsTypeCorrect == Spec => []TypeOK
<1>1. NInv => TypeOK
  BY TypeOfNInv
<1>. QED BY <1>1, AlwaysNInv, PTL

(* The counters of common_interrupt_entry.S are the numbers of interrupts  *)
(* and of exceptions in progress, for ever.                                *)
THEOREM CountersAlwaysMatch == Spec => []CountersMatch
<1>1. NInv => CountersMatch
  BY CountedFrames DEF CountersMatch
<1>. QED BY <1>1, AlwaysNInv, PTL

(* An interrupt is never interrupted by another: the nesting that the      *)
(* stubs count for the PIC never exceeds one.                              *)
THEOREM InterruptsDoNotNest == Spec => []OneInterrupt
<1>1. NInv => OneInterrupt
  <2>. SUFFICES ASSUME NInv PROVE OneInterrupt
    OBVIOUS
  <2>1. Cardinality(isr) <= 1
    <3>1. CASE isr = {}
      BY <3>1, FS_EmptySet
    <3>2. CASE isr # {}
      <4>1. PICK a \in isr : TRUE
        BY <3>2
      <4>2. isr = {a}
        BY <4>1 DEF NInv, Nesting
      <4>3. Cardinality({a}) = 1
        BY FS_Singleton
      <4>. QED BY <4>2, <4>3
    <3>. QED BY <3>1, <3>2
  <2>2. \A i \in DOMAIN frames : IsIrq(frames[i].vector) => i = 1
    BY DEF NInv, Nesting
  <2>. QED BY <2>1, <2>2 DEF OneInterrupt
<1>. QED BY <1>1, AlwaysNInv, PTL

(* The stubs halt the machine only below a full nesting of exceptions.     *)
THEOREM OverflowMeansNested == Spec => []OverflowOnlyNested
<1>1. NInv => OverflowOnlyNested
  <2>. SUFFICES ASSUME NInv, mode = "nesting_overflow"
                PROVE  Cardinality(FramesOf(FALSE)) = ExceptionMax
    BY DEF OverflowOnlyNested
  <2>. QED BY CountedFrames DEF NInv, Counters
<1>. QED BY <1>1, AlwaysNInv, PTL

(* No frame and no handler's stack is overwritten by a nested interrupt,   *)
(* and no handler leaves the interrupt stack.                              *)
THEOREM StacksDoNotOverlap == Spec => []FramesDisjoint
<1>1. NInv => FramesDisjoint
  <2>. SUFFICES ASSUME NInv PROVE FramesDisjoint
    OBVIOUS
  <2>1. /\ frames \in Seq(FrameRecord) /\ Len(frames) \in Nat
        /\ DOMAIN frames = 1 .. Len(frames)
    BY DEF NInv, Nesting
  <2>2. InterruptStackBottom \in Nat
    BY RoomForLevels, ConstantsTyped
  <2>3. \A i \in 1 .. Len(frames) :
          HandlerWords(i) \subseteq InterruptStackBottom .. InterruptStackTop - 1
    BY WordsOfFrame
  <2>4. ASSUME NEW i \in 1 .. Len(frames), NEW j \in 1 .. Len(frames), i < j
        PROVE  Words(i) \cap Words(j) = {}
    <3>1. j > 1 /\ j - 1 \in 1 .. Len(frames) /\ i <= j - 1
      BY <2>1, <2>4
    <3>2. HandlerStack(frames[j - 1].from) <= HandlerStack(frames[i].from)
      BY <3>1, LowerLevels
    <3>3. /\ HandlerStack(frames[j - 1].from) \in Nat
          /\ HandlerStack(frames[i].from) \in Nat
      BY <3>1, LevelOfFrame
    <3>4. \A x \in Words(i) : x < InterruptStackBottom \/ HandlerStack(frames[i].from) <= x
      BY WordsOfFrame
    <3>5. \A x \in Words(j) : /\ x \in Int /\ InterruptStackBottom <= x
                              /\ x < HandlerStack(frames[j - 1].from)
      BY <3>1, WordsOfFrame
    <3>. SUFFICES ASSUME NEW x \in Words(i), x \in Words(j) PROVE FALSE
      OBVIOUS
    <3>6. /\ x < InterruptStackBottom \/ HandlerStack(frames[i].from) <= x
          /\ x \in Int /\ InterruptStackBottom <= x
          /\ x < HandlerStack(frames[j - 1].from)
      BY <3>4, <3>5
    <3>. QED BY <2>2, <3>2, <3>3, <3>6
  <2>5. \A i, j \in DOMAIN frames : i # j => Words(i) \cap Words(j) = {}
    <3>. SUFFICES ASSUME NEW i \in 1 .. Len(frames), NEW j \in 1 .. Len(frames), i # j
                  PROVE  Words(i) \cap Words(j) = {}
      BY <2>1
    <3>1. i < j \/ j < i
      BY <2>1
    <3>2. CASE i < j
      BY <2>4, <3>2
    <3>3. CASE j < i
      <4>1. Words(j) \cap Words(i) = {}
        BY <2>4, <3>3
      <4>. QED BY <4>1
    <3>. QED BY <3>1, <3>2, <3>3
  <2>. QED BY <2>1, <2>3, <2>5 DEF FramesDisjoint
<1>. QED BY <1>1, AlwaysNInv, PTL
=============================================================================
