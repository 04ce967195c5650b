----------------------------- MODULE Interrupts -----------------------------
(***************************************************************************)
(* From the vector to iret: the stubs and the common entry of the          *)
(* interrupts (src/assembly/common_interrupt_entry.S), the dispatcher and  *)
(* its handlers (src/kernel/exceptions.cpp), the end of interrupt          *)
(* (src/kernel/pic.cpp).  All gates are interrupt gates, so that an        *)
(* interrupt handler is interrupted by the exceptions it raises itself and *)
(* by nothing else; a stub and the common entry raise none and are one     *)
(* step.  Addresses are counted in words of some size; the kernel stack    *)
(* lies below the interrupt stack (src/link_scripts/kernel.ld).            *)
(***************************************************************************)
EXTENDS Integers, Sequences, FiniteSets, SequencesExt

CONSTANTS
  Exceptions,       \* vectors below 32 that running code can raise
  IrqLines,         \* lines whose mask bit is clear: the timer, the keyboard
  SpuriousLine,     \* IRQ 7, raised when a request is gone before it is read
  CpuInterruptList, \* CPU_INTERRUPT_LIST: 0, 6, 13, 14
  Contributory,     \* exceptions whose delivery must not raise another one
  ExceptionMax,     \* exception_count_max
  PicMax,           \* pic_count_max
  KernelRawStack, InterruptRawStack,   \* what stack_calculator found
  Preamble,         \* _interrupt_preamble_size, the frame up to pusha
  Overhead          \* what the common entry and the dispatcher push, which
                    \* is not a part of the sizes above

IrqBase == 32                                                    \* irq_base
IrqMax == 47                                                      \* irq_max
GeneralProtection == 13
DoubleFault == 8

ASSUME StackAssumption ==
  /\ {KernelRawStack, InterruptRawStack, Preamble, Overhead} \subseteq Nat \ {0}
  /\ {ExceptionMax, PicMax} \subseteq Nat \ {0}
(* The interrupt stack has room for PicMax nested interrupts, which never  *)
(* nest; that room pays for what is not counted.                           *)
ASSUME SlackAssumption ==
  Overhead * (ExceptionMax + 1) <= (InterruptRawStack + Preamble) * (PicMax - 1)
ASSUME VectorAssumption ==
  /\ Exceptions \subseteq 0 .. 31 /\ CpuInterruptList \subseteq 0 .. 31
  /\ Contributory \subseteq 0 .. 31
  /\ GeneralProtection \in CpuInterruptList /\ DoubleFault \notin CpuInterruptList
  /\ IrqLines \subseteq 0 .. 15 /\ SpuriousLine \in (0 .. 15) \ IrqLines

VARIABLES
  irr, isr,             \* the PIC: lines requested, lines in service
  interrupt_flag,
  mode,                 \* "running", or how the machine stopped
  esp,
  frames,               \* the interrupts in progress, the innermost last
  pic_counter, exception_counter,
  raised                \* history: running code has raised an exception

vars == <<irr, isr, interrupt_flag, mode, esp, frames, pic_counter,
          exception_counter, raised>>

-----------------------------------------------------------------------------
KernelStackBottom == 0
KernelStackTop == KernelRawStack + Preamble
InterruptStackBottom == KernelStackTop
InterruptStackTop ==
  InterruptStackBottom + InterruptRawStack
    + (InterruptRawStack + Preamble) * (PicMax + ExceptionMax - 1)

IsIrq(vector) == vector \in IrqBase .. IrqMax
Gates == CpuInterruptList \cup {IrqBase + line : line \in IrqLines}

(* Faulty variant: the top of the interrupt stack is loaded every time. *)
SwitchAlways(edx) == InterruptStackTop

(* The stack pointer after common_interrupt_entry; edx points to a frame.  *)
SwitchStack(edx) ==
  IF edx <= InterruptStackBottom \/ edx > InterruptStackTop
    THEN InterruptStackTop ELSE edx

(* Each handler takes what the calculator reserved for the deepest. *)
HandlerStack(s) == s - Overhead - InterruptRawStack

Init ==
  /\ irr = {} /\ isr = {} /\ interrupt_flag = TRUE /\ mode = "running"
  /\ esp \in KernelStackBottom + Preamble .. KernelStackTop
  /\ frames = <<>> /\ pic_counter = 0 /\ exception_counter = 0 /\ raised = FALSE

Running == mode = "running"
Innermost == Last(frames)

-----------------------------------------------------------------------------
InProgress(line) == \E i \in DOMAIN frames : frames[i].vector = IrqBase + line

(* The PIC: a device does not request again before its handler returned    *)
(* (the period of the timer is far longer); another line may at any time.  *)
Request ==
  \E line \in IrqLines \ irr :
    /\ ~InProgress(line)
    /\ irr' = irr \cup {line}
    /\ UNCHANGED <<isr, interrupt_flag, mode, esp, frames, pic_counter,
                   exception_counter, raised>>

(* The mainline's own use of the stack. *)
Mainline ==
  /\ Running /\ frames = <<>>
  /\ esp' \in KernelStackBottom + Preamble .. KernelStackTop
  /\ UNCHANGED <<irr, isr, interrupt_flag, mode, frames, pic_counter,
                 exception_counter, raised>>

(* What a stub and the common entry do: isr_N, irq_N. *)
Overflowed(vector) ==
  IF IsIrq(vector) THEN pic_counter >= PicMax
  ELSE exception_counter >= ExceptionMax

(* Faulty variant: the counters of the two kinds are exchanged. *)
CountedSwapped(vector, n) ==
  /\ pic_counter' = IF IsIrq(vector) THEN pic_counter ELSE pic_counter + n
  /\ exception_counter' =
       IF IsIrq(vector) THEN exception_counter + n ELSE exception_counter

Counted(vector, n) ==
  /\ pic_counter' = IF IsIrq(vector) THEN pic_counter + n ELSE pic_counter
  /\ exception_counter' =
       IF IsIrq(vector) THEN exception_counter ELSE exception_counter + n

Enter(vector) ==
  \/ /\ Overflowed(vector)
     /\ mode' = "nesting_overflow" /\ interrupt_flag' = FALSE
     /\ UNCHANGED <<esp, frames, pic_counter, exception_counter>>
  \/ LET edx == esp - Preamble
     IN /\ ~Overflowed(vector)
        /\ Counted(vector, 1)
        /\ frames' = Append(frames,
             [vector |-> vector, esp |-> esp, flag |-> interrupt_flag,
              from |-> SwitchStack(edx), handled |-> FALSE])
        /\ esp' = HandlerStack(SwitchStack(edx))
        /\ interrupt_flag' = FALSE
        /\ UNCHANGED mode

(* The processor finds the gate of a vector, or raises a general           *)
(* protection fault: a double fault if it was delivering a contributory    *)
(* exception, and a double fault without a gate resets the machine.        *)
Deliver(vector) ==
  \/ vector \in Gates /\ Enter(vector)
  \/ vector \notin Gates \cup Contributory \cup {DoubleFault}
       /\ Enter(GeneralProtection)
  \/ /\ vector \in (Contributory \cup {DoubleFault}) \ Gates
     /\ mode' = "reset"
     /\ UNCHANGED <<esp, frames, pic_counter, exception_counter, interrupt_flag>>

Accept ==
  \E line \in irr :
    /\ Running /\ interrupt_flag
    /\ \A other \in (irr \ {line}) \cup isr : line < other
    /\ irr' = irr \ {line} /\ isr' = isr \cup {line}
    /\ Deliver(IrqBase + line)
    /\ UNCHANGED raised

(* A line of the PIC falls before the processor asks for the vector. *)
AcceptSpurious ==
  /\ Running /\ interrupt_flag /\ isr = {}
  /\ Deliver(IrqBase + SpuriousLine)
  /\ UNCHANGED <<irr, isr, raised>>

(* The mainline or a handler before it has finished raises an exception.   *)
Raise ==
  \E vector \in Exceptions :
    /\ Running /\ (frames # <<>> => ~Innermost.handled)
    /\ raised' = TRUE
    /\ Deliver(vector)
    /\ UNCHANGED <<irr, isr>>

(* handle_exception: the frame is logged, then panic halts. *)
Panic ==
  /\ Running /\ frames # <<>> /\ ~IsIrq(Innermost.vector)
  /\ mode' = "panic" /\ interrupt_flag' = FALSE
  /\ UNCHANGED <<irr, isr, esp, frames, pic_counter, exception_counter, raised>>

(* Faulty variant: end of interrupt is sent to the slave only. *)
DispatchWithoutEoi ==
  /\ Running /\ frames # <<>> /\ IsIrq(Innermost.vector) /\ ~Innermost.handled
  /\ isr' = isr
  /\ frames' = [frames EXCEPT ![Len(frames)].handled = TRUE]
  /\ UNCHANGED <<irr, interrupt_flag, mode, esp, pic_counter,
                 exception_counter, raised>>

(* interrupt_dispatcher: the handler of an interrupt returns, then send_eoi*)
(* ends the highest line in service.                                       *)
Dispatch ==
  /\ Running /\ frames # <<>> /\ IsIrq(Innermost.vector) /\ ~Innermost.handled
  /\ isr' = {line \in isr : \E other \in isr : other < line}
  /\ frames' = [frames EXCEPT ![Len(frames)].handled = TRUE]
  /\ UNCHANGED <<irr, interrupt_flag, mode, esp, pic_counter,
                 exception_counter, raised>>

(* The rest of the common entry: popl %esp, the counter, popa, iret. *)
Return ==
  /\ Running /\ frames # <<>> /\ Innermost.handled
  /\ Counted(Innermost.vector, -1)
  /\ esp' = Innermost.esp /\ interrupt_flag' = Innermost.flag
  /\ frames' = Front(frames)
  /\ UNCHANGED <<irr, isr, mode, raised>>

Next ==
  \/ Request \/ Mainline \/ Accept \/ AcceptSpurious \/ Raise
  \/ Panic \/ Dispatch \/ Return

Spec == Init /\ [][Next]_vars

(* The processor executes its handlers, and takes a request that it can    *)
(* take before the next instruction.                                       *)
FairSpec ==
  Spec /\ WF_vars(Panic \/ Dispatch \/ Return)
       /\ \A line \in IrqLines : SF_vars(Accept /\ line \in irr /\ line \notin irr')

-----------------------------------------------------------------------------
(* Types; the stack pointer stays within the two stacks and only vectors   *)
(* that have a gate are in progress.                                       *)
TypeOK ==
  /\ irr \subseteq IrqLines /\ isr \subseteq IrqLines
  /\ interrupt_flag \in BOOLEAN /\ raised \in BOOLEAN
  /\ mode \in {"running", "panic", "nesting_overflow", "reset"}
  /\ esp \in KernelStackBottom .. InterruptStackTop
  /\ pic_counter \in 0 .. PicMax /\ exception_counter \in 0 .. ExceptionMax
  /\ \A i \in DOMAIN frames : frames[i].vector \in Gates

FramesOf(irqs) == {i \in DOMAIN frames : IsIrq(frames[i].vector) = irqs}

(* The counters are the numbers of interrupts and exceptions in progress:  *)
(* they do not drift, so that a machine that never nests is never halted   *)
(* by them, however many interrupts it has served.                         *)
CountersMatch ==
  /\ pic_counter = Cardinality(FramesOf(TRUE))
  /\ exception_counter = Cardinality(FramesOf(FALSE))

(* The words of memory that an interrupt in progress still needs: its      *)
(* frame on the stack it came from, and all below the stack pointer that   *)
(* the common entry loaded.                                                *)
FrameWords(i) == frames[i].esp - Preamble .. frames[i].esp - 1
HandlerWords(i) == HandlerStack(frames[i].from) .. frames[i].from - 1
Words(i) == FrameWords(i) \cup HandlerWords(i)

(* No frame and no handler's stack is overwritten by a nested interrupt,   *)
(* and none leaves the interrupt stack, although neither the size of the   *)
(* stack nor the calculator counts what the entry itself pushes.           *)
FramesDisjoint ==
  /\ \A i, j \in DOMAIN frames : i # j => Words(i) \cap Words(j) = {}
  /\ \A i \in DOMAIN frames :
       HandlerWords(i) \subseteq InterruptStackBottom .. InterruptStackTop - 1

(* At most one interrupt request is in service, and it is the outermost:   *)
(* exceptions nest, interrupts do not.                                     *)
OneInterrupt ==
  /\ Cardinality(isr) <= 1
  /\ \A i \in DOMAIN frames : IsIrq(frames[i].vector) => i = 1

(* The machine stops in the stubs only while an exception in the handler   *)
(* of an exception in the handler of an exception is in progress.          *)
OverflowOnlyNested ==
  mode = "nesting_overflow" => Cardinality(FramesOf(FALSE)) = ExceptionMax

(* Every request is served, unless the machine stops. *)
Served == \A line \in IrqLines : line \in irr ~> (line \notin irr \/ ~Running)

(* What the documentation claims (kernel_exceptions.md): an interrupt      *)
(* request without a handler of its own is logged and returns.             *)
UnhandledIrqReturns == mode = "panic" => raised
=============================================================================
