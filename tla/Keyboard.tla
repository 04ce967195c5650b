------------------------------ MODULE Keyboard ------------------------------
(***************************************************************************)
(* The PS/2 keyboard driver (src/drivers/keyboard/keyboard.cpp) between    *)
(* the i8042 controller and the loop that polls for key events             *)
(* (input::start_data_receiving, src/terminal/input.cpp).                  *)
(*                                                                         *)
(* Two activities share the event queue: the IRQ1 handler, which is one    *)
(* step because its interrupt gate keeps IF clear until iret, and the      *)
(* mainline, which is interrupted between any two of its steps while IF is *)
(* set.  The mainline's critical sections are cut into their loads and     *)
(* stores, so that their atomicity is a result of the guard and not an     *)
(* assumption of the model.                                                *)
(***************************************************************************)
EXTENDS ScancodeSet1, Sequences, FiniteSets

CONSTANTS
  QueueSize,        \* keyboard_event_queue_size, 64 in the source
  PhysicalKeys,     \* the keys the user presses: [code, extended] records
  MaxStrokes        \* bound on the presses and releases of a behaviour

ASSUME QueueSizeAssumption == QueueSize \in {1, 2, 4, 8, 16, 32, 64, 128}
ASSUME PhysicalKeysAssumption ==
  PhysicalKeys \subseteq [code : Code, extended : BOOLEAN]
ASSUME MaxStrokesAssumption == MaxStrokes \in Nat
(* No key of scancode set 1 has the code 0x60 or 0x7A, whose release bytes *)
(* would be those of the prefix and of the acknowledge.                    *)
ASSUME KeyBytesAssumption ==
  \A k \in PhysicalKeys :
    k.code \notin {KeyCode(extended_prefix), KeyCode(keyboard_ack)}

VARIABLES
  \* the driver's globals
  extended_pending, modifiers, entries, head, tail, count,
  \* the mainline: where it is, IF, the guard's was_enabled, the value of
  \* count it has loaded, and the event variable of start_data_receiving
  pc, interrupt_flag, was_enabled, loaded_count, event,
  \* requests latched in the interrupt controller: PIT and keyboard
  irq0, irq1,
  \* i8042 and keyboard: output buffer, command waiting in the input buffer,
  \* bytes the keyboard has still to send
  out_buffer, in_buffer, wire,
  \* history: keys held, whether caps lock is on for the user, strokes made,
  \* strokes whose event was not taken yet, whether the byte the handler read
  \* last was the prefix, and whether bytes were lost to the initialisation
  \* or to a full queue
  held, caps_on, strokes, outstanding, after_prefix, lost_at_init, dropped

driverVars == <<extended_pending, modifiers, entries, head, tail, count>>
queueVars  == <<entries, head, tail, count>>
cpuVars    == <<pc, interrupt_flag, was_enabled, loaded_count, event>>
deviceVars == <<out_buffer, in_buffer, wire>>
userVars   == <<held, caps_on, strokes>>
lossVars   == <<after_prefix, lost_at_init, dropped>>

vars == <<extended_pending, modifiers, entries, head, tail, count,
          pc, interrupt_flag, was_enabled, loaded_count, event,
          irq0, irq1, out_buffer, in_buffer, wire,
          held, caps_on, strokes, outstanding, after_prefix, lost_at_init,
          dropped>>

-----------------------------------------------------------------------------
NoByte == -1

Index == 0 .. QueueSize - 1
next_keyboard_event(index) == (index + 1) % QueueSize

State == {"pressed", "released"}
KeyOf(k) == map_scancode_set_1_key(k.code, k.extended)

(* The bytes the keyboard sends for a stroke of key k. *)
Bytes(k, state) ==
  (IF k.extended THEN <<extended_prefix>> ELSE <<>>)
    \o <<IF state = "pressed" THEN k.code ELSE k.code + 128>>

(* The modifier bits a user who holds keys ks, with caps lock on, expects. *)
HeldModifiers(ks, caps) ==
  ({DownBit(KeyOf(k)) : k \in ks} \cap DownBits)
    \cup (IF caps THEN {"caps_lock_on"} ELSE {})

Stroke == [key : Key, state : State, modifiers : SUBSET ModifierBits]
StrokeOf(e) == [key |-> e.key, state |-> e.state, modifiers |-> e.modifiers]
IsAck(e) == e.key_code = KeyCode(keyboard_ack)

-----------------------------------------------------------------------------
(* The kernel reaches initialize_keyboard with interrupts off.  The queue  *)
(* and the modifiers are zero; the controller may hold a byte, with or     *)
(* without a latched request.                                              *)

Init ==
  /\ extended_pending = FALSE /\ modifiers = {}
  /\ entries = [i \in Index |-> EmptyEvent]
  /\ head = 0 /\ tail = 0 /\ count = 0
  /\ pc = "flush" /\ interrupt_flag = FALSE /\ was_enabled = FALSE
  /\ loaded_count = 0 /\ event = EmptyEvent
  /\ irq0 \in BOOLEAN /\ irq1 \in BOOLEAN
  /\ out_buffer \in {NoByte, keyboard_ack} /\ in_buffer = FALSE /\ wire = <<>>
  /\ held = {} /\ caps_on = FALSE /\ strokes = 0 /\ outstanding = <<>>
  /\ after_prefix = FALSE /\ lost_at_init = FALSE /\ dropped = FALSE

-----------------------------------------------------------------------------
(* initialize_keyboard: the polled part, before the kernel executes sti.   *)
(* A bounded wait may give up at any attempt that finds its flag unset.    *)

Goto(label) == pc' = label

(* Reading the data port empties the output buffer; the interrupt request  *)
(* latched for that byte may or may not survive the read.                  *)
PolledRead ==
  /\ out_buffer # NoByte
  /\ out_buffer' = NoByte
  /\ irq1' \in {irq1, FALSE}
  /\ lost_at_init' = (lost_at_init \/ out_buffer # keyboard_ack)

InitUnchanged ==
  /\ UNCHANGED <<driverVars, interrupt_flag, was_enabled, loaded_count, event>>
  /\ UNCHANGED <<irq0, wire, userVars, outstanding, after_prefix, dropped>>

FlushDone ==
  /\ pc = "flush" /\ out_buffer = NoByte /\ Goto("send_leds")
  /\ UNCHANGED <<irq1, out_buffer, in_buffer, lost_at_init>>
  /\ InitUnchanged

FlushByte ==
  /\ pc = "flush" /\ PolledRead /\ pc' \in {"flush", "send_leds"}
  /\ UNCHANGED in_buffer
  /\ InitUnchanged

SendByte(here, next) ==
  /\ pc = here
  /\ IF in_buffer THEN Goto("sti") /\ in_buffer' = in_buffer
                  ELSE Goto(next) /\ in_buffer' = TRUE
  /\ UNCHANGED <<irq1, out_buffer, lost_at_init>>
  /\ InitUnchanged

ReadAck(here, next) ==
  /\ pc = here
  /\ \/ /\ PolledRead
        /\ Goto(IF out_buffer = keyboard_ack THEN next ELSE "sti")
     \/ /\ out_buffer = NoByte /\ Goto("sti")
        /\ UNCHANGED <<irq1, out_buffer, lost_at_init>>
  /\ UNCHANGED in_buffer
  /\ InitUnchanged

EnableInterrupts ==
  /\ pc = "sti" /\ Goto("check_enter") /\ interrupt_flag' = TRUE
  /\ UNCHANGED <<driverVars, was_enabled, loaded_count, event, irq0, irq1>>
  /\ UNCHANGED <<deviceVars, userVars, outstanding, lossVars>>

Initialize == \/ FlushDone \/ FlushByte
              \/ SendByte("send_leds", "ack_leds")
              \/ ReadAck("ack_leds", "send_off")
              \/ SendByte("send_off", "ack_off")
              \/ ReadAck("ack_off", "sti")
              \/ EnableInterrupts

-----------------------------------------------------------------------------
(* handle_keyboard_interrupt: runs when IF is set and no timer request,    *)
(* which has the higher priority, is pending.  It ends a hlt.              *)

(* Faulty variants: has_pending tested once and not again after hlt, and   *)
(* its first result tested again and again.                                *)
ResumeUntested == pc' = IF pc = "halted" THEN "poll_enter" ELSE pc
ResumeStaleTest == pc' = IF pc = "halted" THEN "hlt" ELSE pc

Resume == pc' = IF pc = "halted" THEN "check_enter" ELSE pc

KeyboardInterruptEntry ==
  /\ interrupt_flag /\ irq1 /\ ~irq0
  /\ irq1' = FALSE
  /\ Resume
  /\ UNCHANGED <<interrupt_flag, was_enabled, loaded_count, event, irq0>>
  /\ UNCHANGED <<in_buffer, wire, userVars, outstanding, lost_at_init>>

HandleNoData ==
  /\ KeyboardInterruptEntry
  /\ out_buffer = NoByte
  /\ UNCHANGED <<driverVars, out_buffer, after_prefix, dropped>>

HandlePrefix ==
  /\ KeyboardInterruptEntry
  /\ out_buffer = extended_prefix /\ out_buffer' = NoByte
  /\ extended_pending' = TRUE
  /\ after_prefix' = TRUE
  /\ UNCHANGED <<modifiers, queueVars, dropped>>

ReadKey == /\ out_buffer \notin {NoByte, extended_prefix}
           /\ out_buffer' = NoByte
           /\ after_prefix' = FALSE

HandleQueueFull ==
  /\ KeyboardInterruptEntry
  /\ ReadKey
  /\ count >= QueueSize
  /\ dropped' = TRUE
  /\ UNCHANGED driverVars

NewEvent(scancode) ==
  LET code  == KeyCode(scancode)
      key   == map_scancode_set_1_key(code, extended_pending)
      state == KeyState(scancode)
  IN  [key |-> key, key_code |-> code, state |-> state,
       extended |-> extended_pending,
       modifiers |-> update_modifier_state(modifiers, key, state)]

(* Faulty variant: the queue's limit is not tested. *)
HandleKeyUnchecked ==
  /\ KeyboardInterruptEntry
  /\ ReadKey
  /\ modifiers' = NewEvent(out_buffer).modifiers
  /\ extended_pending' = FALSE
  /\ entries' = [entries EXCEPT ![tail] = NewEvent(out_buffer)]
  /\ tail' = next_keyboard_event(tail)
  /\ count' = count + 1
  /\ UNCHANGED <<head, dropped>>

HandleKey ==
  /\ KeyboardInterruptEntry
  /\ ReadKey
  /\ count < QueueSize
  /\ modifiers' = NewEvent(out_buffer).modifiers
  /\ extended_pending' = FALSE
  /\ entries' = [entries EXCEPT ![tail] = NewEvent(out_buffer)]
  /\ tail' = next_keyboard_event(tail)
  /\ count' = count + 1
  /\ UNCHANGED <<head, dropped>>

KeyboardInterrupt ==
  HandleNoData \/ HandlePrefix \/ HandleQueueFull \/ HandleKey

(* Faulty variant: the request is never acknowledged to the PIC. *)
TimerInterruptNoEoi ==
  /\ interrupt_flag /\ irq0
  /\ Resume
  /\ UNCHANGED <<driverVars, interrupt_flag, was_enabled, loaded_count, event>>
  /\ UNCHANGED <<irq0, irq1, deviceVars, userVars, outstanding, lossVars>>

TimerInterrupt ==
  /\ interrupt_flag /\ irq0
  /\ irq0' = FALSE
  /\ Resume
  /\ UNCHANGED <<driverVars, interrupt_flag, was_enabled, loaded_count, event>>
  /\ UNCHANGED <<irq1, deviceVars, userVars, outstanding, lossVars>>

-----------------------------------------------------------------------------
(* The mainline: has_pending_keyboard_event, hlt, poll_keyboard_event.     *)

MainUnchanged ==
  /\ UNCHANGED <<extended_pending, modifiers, entries, tail, irq0, irq1>>
  /\ UNCHANGED <<deviceVars, userVars, lossVars>>

(* Faulty variants: a constructor without cli, a destructor without sti. *)
GuardEnterNoCli(here, next) ==
  /\ pc = here /\ Goto(next)
  /\ was_enabled' = interrupt_flag
  /\ UNCHANGED <<head, count, interrupt_flag, loaded_count, event, outstanding>>
  /\ MainUnchanged
GuardLeaveNoSti(here, next) ==
  /\ pc = here /\ Goto(next)
  /\ UNCHANGED <<head, count, interrupt_flag, was_enabled, loaded_count>>
  /\ UNCHANGED <<event, outstanding>>
  /\ MainUnchanged

(* interrupt_guard's constructor and destructor. *)
GuardEnter(here, next) ==
  /\ pc = here /\ Goto(next)
  /\ was_enabled' = interrupt_flag
  /\ interrupt_flag' = FALSE
  /\ UNCHANGED <<head, count, loaded_count, event, outstanding>>
  /\ MainUnchanged

GuardLeave(here, next) ==
  /\ pc = here /\ Goto(next)
  /\ interrupt_flag' = (interrupt_flag \/ was_enabled)
  /\ UNCHANGED <<head, count, was_enabled, loaded_count, event, outstanding>>
  /\ MainUnchanged

LoadCount(here, next) ==
  /\ pc = here /\ Goto(next)
  /\ loaded_count' = count
  /\ UNCHANGED <<head, count, interrupt_flag, was_enabled, event, outstanding>>
  /\ MainUnchanged

HasPending ==
  \/ GuardEnter("check_enter", "check_count")
  \/ LoadCount("check_count", "check_leave")
  \/ GuardLeave("check_leave", IF loaded_count = 0 THEN "hlt" ELSE "poll_enter")

Halt ==
  /\ pc = "hlt" /\ Goto("halted")
  /\ UNCHANGED <<head, count, interrupt_flag, was_enabled, loaded_count>>
  /\ UNCHANGED <<event, outstanding>>
  /\ MainUnchanged

(* Faulty variant: head is advanced before the copy. *)
PollCopyNext ==
  /\ pc = "poll_copy" /\ Goto("poll_head")
  /\ event' = entries[next_keyboard_event(head)]
  /\ outstanding' = IF outstanding = <<>> \/ IsAck(entries[head])
                      THEN outstanding ELSE Tail(outstanding)
  /\ UNCHANGED <<head, count, interrupt_flag, was_enabled, loaded_count>>
  /\ MainUnchanged

PollCopy ==
  /\ pc = "poll_copy" /\ Goto("poll_head")
  /\ event' = entries[head]
  /\ outstanding' = IF outstanding = <<>> \/ IsAck(entries[head])
                      THEN outstanding ELSE Tail(outstanding)
  /\ UNCHANGED <<head, count, interrupt_flag, was_enabled, loaded_count>>
  /\ MainUnchanged

PollHead ==
  /\ pc = "poll_head" /\ Goto("poll_count")
  /\ head' = next_keyboard_event(head)
  /\ UNCHANGED <<count, interrupt_flag, was_enabled, loaded_count, event>>
  /\ UNCHANGED outstanding
  /\ MainUnchanged

(* --count, stored from the value the test has loaded, as the compiler may. *)
PollCount ==
  /\ pc = "poll_count" /\ Goto("poll_leave")
  /\ count' = (loaded_count - 1) % 256
  /\ UNCHANGED <<head, interrupt_flag, was_enabled, loaded_count, event>>
  /\ UNCHANGED outstanding
  /\ MainUnchanged

Poll ==
  \/ GuardEnter("poll_enter", "poll_test")
  \/ LoadCount("poll_test", IF count = 0 THEN "poll_leave" ELSE "poll_copy")
  \/ PollCopy \/ PollHead \/ PollCount
  \/ GuardLeave("poll_leave", "dispatch")

(* start_data_receiving handles the event with interrupts on and loops. *)
Dispatch ==
  /\ pc = "dispatch" /\ Goto("check_enter")
  /\ UNCHANGED <<head, count, interrupt_flag, was_enabled, loaded_count>>
  /\ UNCHANGED <<event, outstanding>>
  /\ MainUnchanged

Mainline == Initialize \/ HasPending \/ Halt \/ Poll \/ Dispatch

-----------------------------------------------------------------------------
(* The devices: the PIT, the keyboard and the user who types on it.        *)

Tick ==
  /\ ~irq0 /\ irq0' = TRUE
  /\ UNCHANGED <<driverVars, cpuVars, irq1, deviceVars, userVars>>
  /\ UNCHANGED <<outstanding, lossVars>>

(* A byte moves into the empty output buffer, which raises IRQ1. *)
Transmit ==
  /\ wire # <<>> /\ out_buffer = NoByte
  /\ out_buffer' = Head(wire) /\ wire' = Tail(wire)
  /\ irq1' = TRUE
  /\ UNCHANGED <<driverVars, cpuVars, irq0, in_buffer, userVars, outstanding>>
  /\ UNCHANGED lossVars

(* The keyboard takes a command byte and answers after what it is sending. *)
Acknowledge ==
  /\ in_buffer /\ in_buffer' = FALSE
  /\ wire' = Append(wire, keyboard_ack)
  /\ UNCHANGED <<driverVars, cpuVars, irq0, irq1, out_buffer, userVars>>
  /\ UNCHANGED <<outstanding, lossVars>>

TypeKey(k, state) ==
  /\ strokes < MaxStrokes /\ strokes' = strokes + 1
  /\ wire = <<>> /\ wire' = Bytes(k, state)
  /\ outstanding' = Append(outstanding,
       [key |-> KeyOf(k), state |-> state,
        modifiers |-> HeldModifiers(held', caps_on')])
  /\ UNCHANGED <<driverVars, cpuVars, irq0, irq1, out_buffer, in_buffer>>
  /\ UNCHANGED lossVars

(* A key that is held repeats its press: the typematic function. *)
Press(k) ==
  /\ held' = held \cup {k}
  /\ caps_on' = IF KeyOf(k) = caps_lock /\ k \notin held
                  THEN ~caps_on ELSE caps_on
  /\ TypeKey(k, "pressed")

Release(k) ==
  /\ k \in held
  /\ held' = held \ {k} /\ caps_on' = caps_on
  /\ TypeKey(k, "released")

Device == \/ Tick \/ Transmit \/ Acknowledge
          \/ \E k \in PhysicalKeys : Press(k) \/ Release(k)

-----------------------------------------------------------------------------
Next == Mainline \/ KeyboardInterrupt \/ TimerInterrupt \/ Device

Spec == Init /\ [][Next]_vars

(* The processor runs, the PIT ticks, a byte is moved on.  A request that  *)
(* stays pending is taken once IF is set at an instruction boundary, which *)
(* happens again and again and not continuously: strong fairness.          *)
FairSpec ==
  /\ Spec
  /\ WF_vars(Mainline) /\ WF_vars(Tick) /\ WF_vars(Transmit)
  /\ SF_vars(TimerInterrupt) /\ SF_vars(KeyboardInterrupt)

-----------------------------------------------------------------------------
(* Properties.                                                             *)

InitLabels == {"flush", "send_leds", "ack_leds", "send_off", "ack_off", "sti"}
GuardedLabels == {"check_count", "check_leave", "poll_test", "poll_copy",
                  "poll_head", "poll_count", "poll_leave"}
OpenLabels == {"check_enter", "hlt", "halted", "poll_enter", "dispatch"}

(* Every variable of the driver, the mainline and the devices has its type. *)
TypeOK ==
  /\ extended_pending \in BOOLEAN /\ modifiers \in SUBSET ModifierBits
  /\ entries \in [Index -> Event]
  /\ head \in Index /\ tail \in Index /\ count \in 0 .. QueueSize
  /\ pc \in InitLabels \cup GuardedLabels \cup OpenLabels
  /\ interrupt_flag \in BOOLEAN /\ was_enabled \in BOOLEAN
  /\ loaded_count \in 0 .. QueueSize /\ event \in Event
  /\ irq0 \in BOOLEAN /\ irq1 \in BOOLEAN
  /\ out_buffer \in Scancode \cup {NoByte} /\ in_buffer \in BOOLEAN
  /\ wire \in Seq(Scancode)
  /\ held \in SUBSET PhysicalKeys /\ caps_on \in BOOLEAN
  /\ strokes \in 0 .. MaxStrokes /\ outstanding \in Seq(Stroke)
  /\ after_prefix \in BOOLEAN /\ lost_at_init \in BOOLEAN
  /\ dropped \in BOOLEAN

(* The queue as its users see it.  An event leaves it when it is copied,   *)
(* before head and count say so.                                           *)
QueueHead == IF pc = "poll_head" THEN next_keyboard_event(head) ELSE head
QueueLength == IF pc \in {"poll_head", "poll_count"} THEN count - 1 ELSE count
Queue == [i \in 1 .. QueueLength |-> entries[(QueueHead + i - 1) % QueueSize]]

(* head, tail and count, which the handler and poll_keyboard_event update  *)
(* separately, always describe the same run of slots: no interleaving of   *)
(* the two loses an increment or a decrement of count.                     *)
RingConsistent == tail = (QueueHead + QueueLength) % QueueSize

Fifo == INSTANCE EventFifo WITH Capacity <- QueueSize, Item <- Event,
                                queue <- Queue, taken <- event

(* The ring buffer, interrupted anywhere, implements a bounded FIFO: no    *)
(* event is overwritten, repeated, torn or taken out of order.             *)
ImplementsFifo == Fifo!FifoSpec

(* start_data_receiving ignores the result of poll_keyboard_event and uses *)
(* the event variable as if it had been filled: the queue must not have    *)
(* become empty since has_pending_keyboard_event saw it was not.           *)
PollFindsEvent == pc = "poll_test" => count > 0

(* A processor that halts with IF clear never runs again: hlt is only      *)
(* reached with the state the guards restored being enabled.               *)
HaltsInterruptible == pc = "halted" => interrupt_flag

Quiet == wire = <<>> /\ out_buffer = NoByte
StrokesAmong(n) == Cardinality({i \in 1 .. n : ~IsAck(Queue[i])})

(* Unless bytes were lost, the events that wait in the queue are exactly   *)
(* the strokes the user made, in order, each with its logical key and with *)
(* the modifiers held when it was made: releases, repeats, prefixes and a  *)
(* late acknowledge byte included.                                         *)
EventsFaithful ==
  ~lost_at_init /\ ~dropped =>
    /\ \A i \in 1 .. QueueLength : ~IsAck(Queue[i]) =>
         /\ StrokesAmong(i) <= Len(outstanding)
         /\ StrokeOf(Queue[i]) = outstanding[StrokesAmong(i)]
    /\ Quiet => StrokesAmong(QueueLength) = Len(outstanding)

(* Unless bytes were lost during initialisation, the driver's modifiers    *)
(* are those of the keys the user holds whenever no byte is on its way.    *)
ModifiersMatchHeld ==
  ~lost_at_init /\ Quiet => modifiers = HeldModifiers(held, caps_on)

(* An event is decoded with the extended table exactly when the byte the   *)
(* handler read before its scancode was the prefix.                        *)
ExtendedFollowsPrefix ==
  [][HandleKey => entries'[tail].extended = after_prefix]_vars

(* A queued event is taken in the end: the check that precedes hlt can     *)
(* miss it, and the timer's interrupt then brings the loop back to it.     *)
EventTaken == count > 0 ~> pc = "poll_count"

(* A byte never stays in the output buffer, where it would silence the     *)
(* keyboard for good: one left over by the initialisation included.        *)
ByteRead == out_buffer # NoByte ~> out_buffer = NoByte
=============================================================================
