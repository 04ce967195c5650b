# Verification of the bare-metal x86 kernel

TLA+ modules for the parts of the kernel whose correctness depends on
interleavings, on long sequences of calls or on arithmetic at boundaries; TLC
configurations that check them on small instances; and TLAPS proofs of the
properties that matter most. Paths are relative to the repository root (`src/`).

## 1. The system and its parts

One processor, one thread of control (`kernel_main`, then `shell::run`, called
*the mainline* here) and two interrupts: IRQ0 from the PIT and IRQ1 from the
PS/2 keyboard. There is no allocator client, scheduler or second core yet. A
host tool sizes the stacks while the kernel is built.

| Component | State | Operations | Interacts with |
|---|---|---|---|
| Keyboard driver (`drivers/keyboard`) | `g_extended_pending`, `g_modifier_state`, the event queue (`entries`, `head`, `tail`, `count`) | `initialize_keyboard`, `handle_keyboard_interrupt`, `has_pending_keyboard_event`, `poll_keyboard_event` | ports 0x60/0x64 of the i8042; called by the dispatcher and by the input loop |
| Interrupt guard (`kernel/internal`) | `was_enabled` on the stack, IF | constructor (`cli`), destructor (`sti` if IF was set) | every critical section of the mainline |
| Input loop and line editor (`terminal/input.cpp`) | `cursor`, `data_end`, `input_buffer`, `input_ready` | `start_data_receiving`, `add_character`, `add_string`, `delete_character`, the control and navigation handlers | polls the driver, echoes through terminal output, is read by the shell |
| Terminal output (`terminal/output`) | `integer_base` | `operator<<`, the digit loops | VGA text buffer |
| VGA text buffer, hardware cursor (`io`) | `base_row`, `row`, `column`, video memory, two CRTC registers | put, scroll, `reset`, cursor movements | terminal output |
| Shell (`apps/shell`) | `m_is_running`, the bounds of the bisection | `run`, `command_exists`, the commands | line editor, terminal output |
| Physical memory manager (`kernel/pmm.cpp`) | bitmap, `g_used_frames`, `g_total_frames`, `search_begin`, `g_reserved` | `pmm_initialize`, two allocations, two frees, the lane-wise search | E820 map at boot; no caller in the kernel except the shell's `pmm` command |
| Timer, stopwatch (`kernel/timer.cpp`, `tools`) | `g_timer_ticks`, `g_timer_frequency` | tick interrupt, `sleep_ticks`, `sleep_ms`, the stopwatch | IRQ0; a tick also ends the `hlt` of the input loop |
| Interrupt entry, IDT, PIC, dispatcher | nesting counters, interrupt stack, gates, request latches | stubs, `common_interrupt_entry`, `interrupt_dispatcher`, `send_eoi`, `panic` | every handler |
| Stack calculator (`diagnostic_tools`) | call graph, colours, distances, two results | search, relaxation, three passes | its results are the sizes of the two stacks |
| Boot, GDT, CPU features, PIT, logger, helpers | - | straight-line code, tables, formatting | - |

What is hard in it, and the properties that follow:

* **Keyboard.** The handler runs between any two instructions of the mainline
  while IF is set. The queue must be a FIFO whatever the interleaving; events
  must be the user's strokes; the input loop neither sleeps on an event for ever
  nor handles one twice; the processor never halts with interrupts off; a late
  answer to the initialisation does no harm.
* **Memory manager.** Sequential, but its redundant state (count, bitmap, hint)
  must agree after every sequence of calls, and its search is an intricate scan
  over lanes of up to five widths at arbitrary alignments.
* **Timer.** Wrapping tick arithmetic, a saturated conversion, ticks between any
  two instructions of the sleep.
* **Interrupt entry.** Nesting counters, the switch of stacks, vectors without
  gate, end of interrupt.
* **Terminal.** The screen and the line buffer are two copies of one text, kept
  in step by relative cursor movements over a window that itself moves.
* **Shell.** Two parallel tables, bisected with unsigned bounds; it compares the
  editor's own buffer in place.
* **Stack calculator.** A three-colour search that goes on after a loop, and two
  sizes on which every handler's stack rests.

Every hazard, with its line, is listed in `PROJECT.json`.

## 2. Modules

| Module | Models |
|---|---|
| `ScancodeSet1` | the key tables and `update_modifier_state`, as pure operators |
| `EventFifo` | abstract: the bounded FIFO that the event queue promises |
| `Keyboard` | driver, interrupt guard, input loop, i8042, PIT, user |
| `FrameSearch` | abstract: what the search for contiguous frames promises |
| `Pmm` | the memory manager on top of that search |
| `PmmScan` | the search as the code does it, lane by lane |
| `PmmContiguous` | `Pmm` and `PmmScan` together: contiguous requests with the search they run |
| `EditedText` | abstract: a text with an insertion point |
| `LineEditor` | the editor's buffer with its shifting copies |
| `VgaText` | `vga_text_buffer` and `hardware_cursor`, as operators on a screen |
| `TextGrid` | abstract: a grid of characters that shifts up |
| `VgaScreen` | the screen under any client of `output` |
| `Terminal` | `LineEditor` and `VgaText` together: every key with its redrawing, what commands print |
| `Shell` | the run loop, the bisection, the dispatch |
| `Console` | `Terminal` and `Shell` together |
| `Timer` | the tick, `sleep_ticks`, `sleep_ms`, the stopwatch |
| `NumberFormat` | how `output` prints integers and pointers |
| `Interrupts` | gates, stubs, common entry, dispatcher, PIC |
| `StackCalculator` | the host tool |
| `KeyboardProofs`, `PmmProofs`, `ConsoleProofs`, `VgaProofs`, `TimerProofs`, `NumberFormatProofs`, `InterruptsProofs`, `StackCalculatorProofs` | theorems |
| `MCKeyboard`, `MCPmm`, `MCPmmScan`, `MCConsole`, `MCNumberFormat`, `MCStackCalculator` | values of the constants for TLC |

An operator marked as a faulty variant is not part of any specification: it
stands for a plausible mistake, and each property is known to fail when the
definition that follows is replaced by one of them.

### Keyboard

*State.* The driver's globals keep their names. `modifiers` is the set of the
bits of `g_modifier_state`. `pc` is where the mainline is; `was_enabled` and
`loaded_count` are the guard's member and the register that holds `count`;
`event` is the local variable of `start_data_receiving`. `irq0` and `irq1` are
the request latches of the PIC, `out_buffer` and `in_buffer` the two buffers of
the i8042, `wire` the bytes the keyboard has still to send. The history
variables `held`, `caps_on`, `outstanding`, `after_prefix`, `lost_at_init` and
`dropped` record what the user did and what was lost; no driver action reads
them.

*Steps.* `handle_keyboard_interrupt` is one step with four cases (`HandleNoData`,
`HandlePrefix`, `HandleQueueFull`, `HandleKey`): its interrupt gate keeps IF
clear up to `iret`, and the mainline cannot run during it. The mainline, on the
other hand, is cut at every load and store of the shared variables, and every
step leaves room for an interrupt when IF is set. The guard is two steps
(`GuardEnter`, `GuardLeave`) that change IF, so the atomicity of
`poll_keyboard_event` is a consequence of the guard and not of the model.
`PollCount` stores the value the test has loaded minus one, as a compiler may do.

*Initialisation.* `initialize_keyboard` runs with IF clear and polls. A bounded
wait may give up whenever its flag is unset (the constant `keyboard_timeout`
is abstracted to that choice), and the answer can then come later: it reaches
the handler as a release of an unknown key. A read during polling may or may not
clear the latched request, so a request with an empty buffer (`HandleNoData`)
occurs.

*Environment.* The PIT, the i8042 and the keyboard are not in the repository;
they are modelled from how the driver uses them. The user presses, holds (which
repeats the press) and releases keys of `PhysicalKeys`, at most `MaxStrokes`
times, and the next stroke waits until the previous one is sent.

### Pmm, PmmScan and PmmContiguous

`used` is the set of bits that are 1, numbered across bytes, so bit *f* is frame
*f*. `Init` is the bitmap when `pmm_initialize` has filled it; `InitializeEntry`
frees one entry of the map, cut around the two reserved ranges. Each call of the
interface is one step: nothing in the kernel calls it from an interrupt. A failed
call is an action of its own or a result of `FreeResult`, which lists the tests
in the order of the code. Clients free any frame, also ones they never held
(`FreeAny`). The history variables are `owned` (handed out and not given back),
`donated` (freed, though nobody had been handed it: a hole of the map, for
example) and `refused` (what the last call could not serve).

`PmmScan` does the search. One core loop iteration is one step: `FreeLane`,
`UsedLane`, `MixedWord`, or `MixedVector`, which enters the narrower core within
the lane (`loops` is the stack of the loops that run). `NextPhase` goes from one
core call of the sweep to the next with the alignment arithmetic of the code;
`SecondPass` starts the second pass. `Widths` selects the code path:
`<<1,2,4>>` is `sweep_32`, `<<1,2,4,16>>` `sweep_sse_2`, `<<1,2,4,16,32>>`
`sweep_avx_2`, all with `ScalarTiers = 3`. `Space` is `array_of_shifts`, on sets
of bit positions.

`PmmContiguous` joins the two. A contiguous request is a call (`CallSearch`), the
steps of `PmmScan` on the bitmap and the hint that the operations before it have
left (`Search`), and a return that marks the run (`ReturnRun`) or yields null
(`ReturnNull`); between the call and the return nothing else runs, since nothing
calls the allocator from an interrupt. All other operations are those of `Pmm`.
The bitmap lies where the kernel image ends: `origin` is that address as the
widest lane sees it. `BitmapAssumption` says that `Bytes` is the size of the
bitmap of the machine, which `Pmm` computes from its memory map.

### Terminal, shell and console

`LineEditor` has one action per key, with `cursor` and `data_end` as indices.
The shifting copies are functions of the buffer before the copy, since their
loops run from the far end; the faulty variants are the ones that do not. The
code never stores a length: it reads `*cursor` and the terminator, and so does
the model.

`VgaText` keeps the three bytes of the class as bytes: decrementing `base_row` at
0 wraps. The video memory covers the rows that some window shows. Fills and
copies for the three CPU levels are one definition each, of what they write.
`VgaScreen` calls the operations in any order, except two that the code does not
support: stepping back from the window's origin, and a move over a row boundary,
after which `base_row` no longer is the displayed row. What the editor then does
is in `Terminal`, which excludes neither and has the history variable `displaced`
for it.

`Terminal` gives each key's handler as a whole: buffer, reprint, steps back.
`Shell` has one step per pass of the bisection. Names and functions are two tables,
as in the code: `Commands` is searched and `CommandFunctions` is called, where a
function stands as the line that it is named after; the instance lists both. `Console` joins them: the line
that the shell searches is the editor's buffer up to its terminator, and the
output of commands goes to the same screen. A command is a member of `Outputs`,
the last line it prints; `clear` and `exit` are modelled in full.

### Timer

A second counter, `waited`, counts the ticks since the sleep began without
wrapping (up to `Horizon`); the properties compare the two. `shadow` is the
instruction after `sti` that still runs before an interrupt: it is what makes
`sti; hlt` safe when IF was clear, and it does not exist when IF was set. `Tick`
assumes what the PIT's period (at least 10 ms) guarantees: no second tick
before the mainline has looked at the counter or waits in `hlt`; a tick that
finds one pending is lost.

### Interrupts

A frame records the stack pointer it was pushed at, the stack that the common
entry chose, IF and whether its handler has returned. Addresses are counted in
words, and `Overhead` is what the common entry pushes and no size accounts for.
A vector without gate turns into a general protection fault, or a reset, as the
processor does it. `Raise` lets the mainline and unfinished handlers raise any
exception.

### NumberFormat and StackCalculator

`NumberFormat` prints one digit per step with the promotions of C++: a negation
of a type narrower than `int` is an `int`. Division truncates.
`StackCalculator` follows one edge per step of the search, in any order of nodes
and children (the code's order is that of hash maps); a pass over a call cycle
never returns and is the phase `crashed`.

## 3. Runs

| Run | Checks | Bounds |
|---|---|---|
| `keyboard` | types, ring consistency, poll after check, halting with IF, faithful events, refinement of `EventFifo`; deadlock | 2 slots, right control (prefixed) and caps lock, 4 strokes: the queue fills, drops, wraps and is used again; presses repeat; 1.2 million states |
| `keyboard_live` | `EventTaken`, `ByteRead` under fairness | 2 slots, one extended key, 3 strokes |
| `pmm_any` | on `PmmContiguous`: accounting (with types), kernel, exhaustion, missed runs, conservation, sharing, freed runs, and the refinement of `Pmm` | two machines of 11 and 12 frames, a bitmap of 3 bytes of 4 bits at an odd address: several bytes, a tail, an unaligned hole below the kernel, one above, memory beyond the limit; words of 1 byte and vectors of 2; requests for 2 and 4 frames, single frames, frees of up to 4 frames, any of them; 320,000 states |
| `pmm_scan` | aligned lanes, carried run (with types), leftmost result | every content, hint and alignment of 5 bytes of 2 bits, with words of 1 and 2 bytes and a vector of 4, requests 1, 2, 3, 5, 9; 1.7 million states |
| `vga_screen` | display start follows the base row, refinement of `TextGrid` | 2 columns, 3 rows, 2 scrolls until the copy back to the top |
| `console` | types, the screen shows the line, the command that runs, the text it was found by, refinement of `EditedText`, every entered line is answered | lines of up to 5 cells from a letter and the space, tabs of 2, a screen of 3 rows of 4 columns (a line needs two rows), one scroll until the copy back, 7 commands |
| `timer` | no early end, at most one tick late, stopwatch, IF restored, every sleep ends | a counter that wraps at 13, 4 ms per second, frequencies 0, 1, 2, every start value and argument |
| `number_format` | the digits read back as the value and fit the array | all values of 8 bits; of 16 bits those around the powers of two and ten; arrays |
| `interrupts` | counters, disjoint frames, one interrupt, every request served | 2 lines and a spurious one, 5 exceptions with and without gate, 3 nested exceptions, small stacks with the slack used up as far as the assumption allows |
| `stack_calculator` | loops found, distances, sizes suffice | 72 call graphs of 5 methods and the indirect call, acyclic, cyclic and with indirect calls; two assignments of frame sizes |
| `keyboard_prefix` | violated: `ExtendedFollowsPrefix` | 1 slot, a plain and an extended key, 3 strokes |
| `console_wrap` | violated: `LineAlwaysShown` | the instance of `console` |

*Why the bounds are enough.* The ring's arithmetic depends on the indices modulo
the size, and two slots already fill, wrap and drop while an event is being
copied; the theorems hold for every size. The bitmaps have several bytes, a tail,
runs that span bytes and lanes of every tier. The console's lines wrap, its
screen scrolls, and the window goes back to the top. The timer's counter wraps
during a sleep, and the stopwatch's clamp is reached; the saturation of `sleep_ms`
is not, neither here nor in the source, whose `UINT32_MAX` ms are fewer ticks than
that at 20 to 100 Hz.

`PmmScanWords.cfg` (module `MCPmmScan`, `FindsLeftmost`) is a second geometry for
the search: 3 bytes of 4 bits with words of 1 and 2 bytes and requests up to 11,
so that each sequence of shifts of a word of 8 bits occurs; 1.6 million states.

`PmmSearchReturns.cfg` (module `MCPmm`, `SearchReturns`) checks under fairness that
every search returns, on a machine of 11 frames with requests for 2 and 5; 50,000
states.

*Constraint.* `console` has the state constraint `InWindow`: what is drawn after
the window has been displaced (finding 2) is not explored further. The
properties hold of what is drawn up to that point, and `LineShown` names the
condition; all the invariants of the run and `ImplementsText` are proved without
the constraint. `EnteredLineAnswered` is checked over behaviours that stay in it.

*Deadlock* is checked except where the system stops: `console` after `exit`,
`interrupts` after a panic, and `stack_calculator`, which terminates.

*Fairness.* In each case of what the processor or a device does, never of the
user.

* `Keyboard`: weak for the mainline (the processor executes), `Tick` and
  `Transmit` (the PIT is periodic, the i8042 moves a byte when its buffer is
  empty). Strong for the two handlers: a pending request is taken at an
  instruction boundary with IF set, and the mainline clears IF again and again,
  so they are enabled repeatedly but not continuously; the mainline's open
  sections always contain such boundaries. IRQ0 has priority, and `Tick` waits
  for the previous request to be taken.
* `Console`: weak for the shell's steps once a line is ready.
* `PmmContiguous`: weak for the steps of a search and its return, the loops of
  one thread that waits for nothing.
* `Timer`: weak for the mainline's steps in a sleep, the tick and its interrupt,
  which `Taken` puts before the next instruction.
* `Interrupts`: weak for the handlers; strong, for each line, for its
  acceptance: a line of lower priority waits while others are served.

`EventTaken` is worth reading: `has_pending` enables interrupts before `hlt`,
so an event that arrives in between is not seen until the next interrupt. It is
the next tick that repairs it; without the timer the property fails.

### Disagreements between code and documentation

Two runs expect a violation; `PROJECT.json` lists them under `findings`.

1. `keyboard_prefix`: a byte dropped at a full queue leaves `g_extended_pending`
   set (`keyboard.cpp:295` returns before line 302), and the next plain key is
   decoded as an extended one. The same return precedes
   `update_modifier_state` (line 301), so that the driver then believes a
   released modifier held, or the reverse (`KeyboardModifiers.cfg`,
   `ModifiersMatchHeld`).
2. `console_wrap`: `move_cursor_left_n`, `move_cursor_right_n` and
   `move_backwards` change `base_row` by the rows the cursor crosses, without
   scrolling. What the editor reprints in the middle of a line that wraps then
   goes to rows that are not shown there.

Further ones have a configuration of their own, each of one property that does
not hold. The properties of the passing runs do not catch these cases: `Served`
admits a machine that panicked, and `LineShown` leaves open what a displaced window
shows.

| Configuration | Module | What it shows |
|---|---|---|
| `ConsoleEnter.cfg` | `MCConsole` | Enter with the cursor on the first of two rows: the next output and prompt overwrite the second row, whose rest stays on the screen behind the new line (`NothingAfterLine`) |
| `InterruptsSpurious.cfg` | `Interrupts` | a spurious IRQ 7 finds no gate; the general protection fault panics, although no code has raised an exception (`UnhandledIrqReturns`) |
| `NumberSigned.cfg` | `MCNumberFormat` | negative 8 and 16 bit integers: the negation is an `int`, and the digits come from negative remainders (`SignedPrinted`) |
| `NumberPointer.cfg` | `MCNumberFormat` | the null pointer has no leading one for `__builtin_clz` (`PointerPrinted`) |
| `StackFirstPass.cfg` | `MCStackCalculator` | `undepended_interrupt_methods_size` is smaller than the list, so the first pass does not see its end; the sizes suffice all the same while a handler is deeper (`FirstPassCoversList`, against `StacksSuffice`) |
| `TimerLongest.cfg` | `Timer` | `sleep_ticks(UINT32_MAX)` ends at one value of the difference only; a second tick before the comparison makes the difference start again (`DistanceCorrect`) |

Two more follow from the model without a run. `pmm_free_frame` accepts a frame of a hole
of the memory map, whose bit has been 1 since initialisation, and the hole is then
allocated: `Conservation` counts it as `donated`, and so holds with it; no
property here is against it. And the runs of free frames
that `MissedRunsCrossHint` names are really missed: a contiguous request can
fail though a run that crosses `search_begin` is free.

## 4. Theorems

All hold for every value of the constants that the named assumptions allow.

`KeyboardProofs` (`QueueSizeAssumption`: a power of two up to 128, so that the
byte `count` holds it; `KeyBytesAssumption`: no key of the set has the code 0x60
or 0x7A, whose release byte would be the prefix or the acknowledge):
`TypeCorrect`, `RingAlwaysConsistent`,
`PollAlwaysFindsEvent`, `AlwaysHaltsInterruptible`. Their inductive invariant
`IInv` is the types, the ring relation, and `Control`, which says of each place of
the mainline what IF, `was_enabled` and `loaded_count` are. The properties are not inductive without it: the ring relation survives
`PollCount` only because no handler ran since the load.

`Refinement`: the ring buffer implements `EventFifo`. The
mapping takes an event out of the abstract queue when it is copied (`PollCopy`),
before `head` and `count` change. `HandleKey` is an `Offer`, `PollCopy` a `Take`,
all others stutter; the proof rests on `IInv`.

`EventsAlwaysFaithful`: unless bytes were lost, the events that wait are the
user's strokes, in order, with key, state and modifiers. What a stroke becomes is
spread over the queue, the buffer of the i8042 and the wire, and the flag and the
modifiers of the driver lie between them. The invariant `Faithful` says that there
is a trace: a numbering of the events in the queue and one of the bytes in flight,
which counts on from the last event (`Numbers`, `Counts`), such that every prefix,
read or in flight, is followed in flight by the byte of its key
(`PrefixesComplete`), each byte decodes to the stroke that it numbers, and each
stroke's modifiers are the update of those of the stroke before, from the driver's
own to those of the keys held (`ModifiersFollow`). Each action keeps a trace:
`TypeKey` appends to it, `HandlePrefix` drops a byte that no stroke numbers,
`HandleKey` moves a number from the bytes to the queue and `PollCopy` takes the
first one. That a release clears the bit which the press set rests on each bit
belonging to one physical key. `ModifiersMatchUnlessDropped` draws the conclusion
for the driver's modifiers: only the full queue of finding 1 leaves one behind.

`PmmProofs`: `PmmTypeCorrect`, `UsedFramesCounted`, `TailAlwaysUsed`,
`KernelAlwaysProtected`, `NullAlwaysMeansExhausted`, `OnlyRunsAcrossHintMissed`,
`FreedRunAlwaysFits`, `FramesNeverShared`, `AlwaysConserved`. The invariant `PInv`
adds to the properties: every reserved frame is used, the frames of entries not reached yet
are used (so that the count may be decremented by their number; this is where
`DisjointAssumption`, usable entries of one map do not overlap, is needed),
clients hold only used frames, and nobody holds a frame before the loop ends.
`AlwaysConserved` adds `Conservation` itself (`CInv`). `FreedRunAlwaysFits` shows that
the freed run fits from the new hint on, and takes the least position that does.

On the search (`WidthsAssumption`, each width divides the next and the first is
a byte; `ScanAssumption`; `WordsAssumption`, a machine word has a power of two of
bits): `ScanInvAlways`, `LanesAlwaysAligned`, `RunAlwaysTracked`,
`LeftmostAlwaysFound`, for every bitmap, hint, request, alignment and list of
widths. `ScanInv` holds `RunTracked` (the run carried so far ends where the scan is, and
nothing before it fits), and where the loops are: `LoopsNested`,
`PlaceAligned`, `PhaseEnds`, `InPass`, `FirstPassDone`. The alignment argument is
in `PhaseEnds`: a phase on the way up ends where the next width is aligned, and one
on the way down where no full lane of it is left. Within a mixed word `Space` is
shown to find a run of the asked length by doubling shifts, with the
powers of two counted as numbers of subsets.

And on both together (`BitmapAssumption`, `RequestsAssumption`):
`SearchImplementsPmm`, the allocator that sweeps the bitmap by lanes implements
the one that finds a run in one step. The mapping is the identity on the
variables of `Pmm`. A step of the search stutters (`StepSearches`);
the return of a run is `pmm_allocate_contiguous_frames` and the return of null
`AllocateContiguousFails` (`ReturnRunIsNext`, `ReturnNullIsNext`), because the
invariant `ContiguousInv` carries both sides: `PInv` at all times and, while a call searches, `ScanInv`. `PInv` gives the
call what the search takes for granted of its begin (`CallScans`: the bitmap is as
large as the search thinks and the hint lies in it), and `ScanInv` gives the return
what `FindContiguous` asks. So the theorems about `Pmm`
hold of the allocator with the search of the code, on every path that the CPU
features select: `ContiguousSafe` states them of it.

`ConsoleProofs`, on the editor: `EditorTypeCorrect`, `AlwaysTerminated` (the text ends in a
terminator and holds none before it), `AlwaysTrimmed`, and `EditorRefinement`,
the buffer implements `EditedText`. The invariant `LInv` is the conjunction of
the first three: `*cursor` tells the middle of the line only because of them.

On the shell (`CompareAssumption`, `str_compare` is a strict order;
`CommandsAssumption`, the table of names is sorted and has less than 128 entries):
`ShellTypeCorrect`, `AlwaysRuledOut` (no name outside the bounds is the line),
`AlwaysFindsLine` (the bisection finds the name that is the line, or there is none).
The invariant `SInv` is these three; the bisection's result rests on `RuledOut` and
on the order. `AlwaysExecutesLine` and `AlwaysStopsOnlyOnExit` have the hypothesis
`TablesAgree`: the function is taken from a second table by the index of the name, and
only a list that is kept in the order of the first calls the right one. The two lists
of `internal/shell_commands_list.h` are.

And on both together: `ConsoleEdits` and `ConsoleAnswers` show that each
behaviour of the console is one of the editor and one of the shell, so that the
theorems above hold in it; with both invariants `ConsoleExecutesText` shows that
the line executed is the text edited.

On the screen (`GeometryAssumption`, `PromptAssumption`, `OutputsAssumption`;
`LineFitsAssumption`, the prompt and a full line leave a row of the window free:
136 cells of 1920 in the source): `AlwaysShowsLine`, while a line is edited the
window shows the prompt and the text, and the hardware cursor blinks at the
insertion point. An address is taken apart into the origin of the window
(`Origin`) and a place in it (`Place`, `Look`), in which the operations are simple:
a character goes to the place of the cursor and, when the window scrolls, every
place moves up by a row (`PutLooks`, `Shifted`), whether the window moves down or
its rows are copied to the top of the memory. The invariant `ScreenInv` says that the prompt and the text begin
`PromptLength + cursor` places before the cursor and end inside the window
(`Draws`), and that the window is displayed from `base_row` unless it was
displaced. The handlers print the rest of the line from the cursor on, which may
scroll the begin of the line up (`PutFollows`, `PrintFollows`), and go back by a
distance (`MoveDraws`). That move is exact in places, but changes `base_row` by the
rows it crosses: if the display still starts at `base_row` after it, it has
crossed none; otherwise `displaced` is set. The invariant holds on both paths,
since the place, unlike the window, does not depend on `base_row`: this is what
`StepsBackInWindow` rests on, also after the window has been displaced.

`VgaProofs` (`GeometryAssumption`, `CharsAssumption`): `DisplayAlwaysFollowsBase`,
and `ScreenImplementsGrid`, the refinement of `TextGrid`. The invariant `Fits` adds
to the types that `base_row` does not pass `base_row_max` and that the display
starts there; with it every cell of the window lies in the memory, two places of
the window are one cell only if they are the same (`Products` for the arithmetic),
and each operation maps to a step of the grid: a scroll shows the same rows one
further up, whether the window moves or the rows are copied back to the top. The
lemmas that take the operators of `VgaText` apart (`Screen`, `Updates`,
`ScrolledUnfolds`) stand in `VgaProofs` and in `ConsoleProofs`: the two are about
specifications that share names, so neither can extend the other.

`TimerProofs` (`FrequenciesAssumption`: one second of ticks times
`ms_per_sec` does not wrap, as 20 to 100 Hz and 32 bits satisfy):
`TimerTypeCorrect`, `TimerHaltsInterruptible`, `FlagAlwaysRestored`,
`SleepsNeverEarly`, `StopwatchMeasuresSleep`, `SleepsAtMostOneLate`. `TInv` relates the counters:
the wrapping difference is at most `waited`, and what was asked for is in
`ticks`, then in `waited`, then in `watched`. For the last theorem `LInv` adds that
the difference is exact until it wraps and bounds the ticks that are pending or
may still come at each place of the loop; `Latched` says where a request can be
pending untaken.

`NumberFormatProofs` (`WidthsAssumption`; `ArraysAssumption`, an array has an
element; `DigitsAssumption`, the array `digits` of a width holds its largest
value): `ValueAlwaysPrinted`, for every pattern and array, not only the sampled
ones. The invariant `NumberInv` says of each digit what has been done
of the whole: in decimal the value that is left, times the power of the digits
written, and the number that these show make up the magnitude (`DecimalSplit`),
and the value that is left fits the rest of the array (`HasRoom`); in hexadecimal
the nibbles written show the magnitude above the next four bits (`HexSplit`).
A digit written in front adds its multiple of the power (`NumeralPrepend`) and
one behind shifts the number (`NumeralAppend`); both come from the recursive
definition of `Numeral`, whose values `Computable` provides by induction over a
set of lengths. The two cases that `PrintsValue` excepts, negative values of the narrow
types in decimal and the null pointer, are the ones the code prints wrongly; of
them only the number of digits is proved.

`InterruptsProofs` (`StackAssumption`, `VectorAssumption`, `SlackAssumption`: the
room for `PicMax` interrupts that never nest pays for what the entry pushes
uncounted): `InterruptsTypeCorrect`, `CountersAlwaysMatch`, `InterruptsDoNotNest`,
`OverflowMeansNested`, `StacksDoNotOverlap`. `NInv` has four parts: `Simple`
(types), `Nesting` (only the outermost frame can be an interrupt's, IF is set
outside all frames only), `Counters`, and `StackPosition`, which gives the place of
each frame on the interrupt stack by its depth.

`StackCalculatorProofs` (`NodesAssumption`): `CInvAlways`, `LoopReported` (a loop
is reported exactly when the graph has one), `DistancesAreDeepest`. While the
search runs, `CInv` says that the calls that have not returned follow edges from
gray node to gray node (`PathOfEdges`), that the black nodes are those listed, each
once (`ListsBlack`), and, without a loop so far, that a followed edge leads to a
black node or down the path (`Explored`) and a node is listed after those it calls
(`CalleesListed`). A gray node that is met again closes a loop along the path; and
without one the first listed node of an endless set of nodes would have a callee
in it listed before. In the relaxation `DeepestSoFar` relates each distance to the callers
handled so far, all of which come before (`CallersFirst`).

On the passes, `CoveredStacksSuffice`: `[](ListCovered => StacksSuffice)`. The two
results do not suffice for every list, size and frames: the first pass sees the
list up to `undepended_interrupt_methods_size` only. `ListCovered` is what that size has to
leave in front: every method that an exception handler may run indirectly, and no
deeper method behind it than the result. `StackCovered.cfg`
checks that it holds at the end of every run of the instance that `StacksSuffice` is
about. The source has a
size of 13 beside a list of 18. Without a cycle the recursion of `get_subtree_depth` has exactly one
solution (`DepthsExist`, by the largest closed set of nodes on which it is solved,
and `OneSolution`), so that the depth of a node is its frame on top of the deepest
that it calls (`AreDepths`); a bound that each node hands on to its callers
holds for all (`NoDeeper`). The invariant `PassInv` remembers with which
frame of an indirect call each pass was made: the second pass with the result of the
first, `kernel_main`'s with that of the second. Listed methods make no indirect call
(`ListedAlike`), hence their depth is the same in every pass, and a frame that is
enough for whatever an indirect call runs makes the depths of the graph enough for
the true calls (`IndirectFits`).

*Only model-checked.* Liveness (`EventTaken`, `ByteRead`, `SearchReturns`,
`SleepEnds`, `Served`, `EnteredLineAnswered`) is out of the prover's reach.

## 5. Not modelled

* Boot, GDT, CPU features and PIT: straight-line code on one processor, constant
  tables, one-off port writes. The search that CPU features select is `Widths` of
  `PmmScan`; the PIT's period is the fairness of `Tick`.
* Logger and assertions: formatting and output only.
* Kernel heap: documented, the repository holds no source for it.
* Key-code dispatch of the input loop: a switch over a table.
* Colours, the text of a bool, the registers that enable the cursor: no other
  state depends on them.
* `.ci` files and the report of relations in the stack calculator: file I/O.
* `test::allocate_8_frames`, the shell's `pmm` command: it overwrites two bytes
  of the bitmap and does not restore them. It is marked as a test; every property
  of `Pmm` is about an allocator on which it was not run.
* Overlapping usable entries of a memory map: the count would be decremented
  twice for a frame. The code trusts the firmware, the theorems name the
  assumption.
* Bulk fills and copies by vector instructions appear as what they write.

What further work could add: a `pmm` command in `Console` once it restores what
it writes.
