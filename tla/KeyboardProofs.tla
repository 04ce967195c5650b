--------------------------- MODULE KeyboardProofs ---------------------------
(***************************************************************************)
(* Proofs about the keyboard driver, for every queue size, key set and     *)
(* number of strokes.                                                      *)
(***************************************************************************)
EXTENDS Keyboard, SequenceTheorems, FiniteSetTheorems, WellFoundedInduction,
        TLAPS

(* A scancode below 256 has a code and a state of the event's types. *)
LEMMA ScancodeParts ==
  ASSUME NEW s \in Scancode
  PROVE  KeyCode(s) \in Code /\ KeyState(s) \in State
  BY DEF Scancode, KeyCode, Code, KeyState, State

(* The tables map every code to a key. *)
LEMMA MapInKey ==
  ASSUME NEW c \in Code, NEW x \in BOOLEAN
  PROVE  map_scancode_set_1_key(c, x) \in Key
  BY DEF map_scancode_set_1_key, Key

(* The bit of a key is one of the seven, or none. *)
LEMMA DownBitType ==
  ASSUME NEW key
  PROVE  DownBit(key) \in DownBits \cup {"none"}
  BY DEF DownBit, DownBits

(* Updating the modifiers yields modifiers. *)
LEMMA UpdateInModifiers ==
  ASSUME NEW m \in SUBSET ModifierBits, NEW key, NEW state
  PROVE  update_modifier_state(m, key, state) \in SUBSET ModifierBits
  BY DownBitType DEF update_modifier_state, Toggle, ModifierBits, DownBits

(* What the handler stores in the queue is an event. *)
LEMMA NewEventType ==
  ASSUME modifiers \in SUBSET ModifierBits, extended_pending \in BOOLEAN,
         NEW s \in Scancode
  PROVE  NewEvent(s) \in Event
  BY ScancodeParts, MapInKey, UpdateInModifiers DEF NewEvent, Event, State

-----------------------------------------------------------------------------
(* The arithmetic of the ring, one power of two at a time. *)
LEMMA ModIndex ==
  ASSUME NEW a \in Nat
  PROVE  a % QueueSize \in Index
  BY QueueSizeAssumption DEF Index

(* Advancing a reduced index by one more is advancing the sum by one. *)
LEMMA ModNext ==
  ASSUME NEW a \in Nat
  PROVE  next_keyboard_event(a % QueueSize) = (a + 1) % QueueSize
  BY QueueSizeAssumption DEF next_keyboard_event

(* The remainder of an index of the ring is the index itself. *)
LEMMA ModSmall ==
  ASSUME NEW a \in Index
  PROVE  a % QueueSize = a
  BY QueueSizeAssumption DEF Index

(* Two positions less than a ring apart are different slots. *)
LEMMA ModDistinct ==
  ASSUME NEW a \in Nat, NEW b \in Nat, a < b, b < a + QueueSize
  PROVE  a % QueueSize # b % QueueSize
  BY QueueSizeAssumption

(* Moving the start of a position does not change its slot. *)
LEMMA ModShift ==
  ASSUME NEW a \in Nat, NEW b \in Nat
  PROVE  ((a % QueueSize) + b) % QueueSize = (a + b) % QueueSize
  BY QueueSizeAssumption

-----------------------------------------------------------------------------
(* What the guards establish: IF is clear in the initialisation and inside *)
(* a critical section, so that nothing moves count between the mainline's  *)
(* load of it and its use.                                                 *)
Control ==
  /\ pc \in InitLabels \cup GuardedLabels => ~interrupt_flag
  /\ pc \in OpenLabels => interrupt_flag
  /\ pc \in GuardedLabels => was_enabled
  /\ pc = "check_leave" => loaded_count = count
  /\ pc \in {"poll_enter", "poll_test"} => count > 0
  /\ pc \in {"poll_copy", "poll_head", "poll_count"} =>
       loaded_count = count /\ count > 0

IInv == TypeOK /\ Control /\ RingConsistent

(* The inductive invariant holds when initialize_keyboard is entered. *)
LEMMA InitInvariant == Init => IInv
<1> SUFFICES ASSUME Init PROVE IInv
  OBVIOUS
<1>1. EmptyEvent \in Event
  BY DEF EmptyEvent, Event, Key, Code, ModifierBits
<1>2. TypeOK
  BY <1>1, QueueSizeAssumption, MaxStrokesAssumption
  DEF Init, TypeOK, Index, InitLabels, Scancode, keyboard_ack
<1>3. Control /\ RingConsistent
  BY QueueSizeAssumption
  DEF Init, Control, RingConsistent, QueueHead, QueueLength, InitLabels,
      GuardedLabels, OpenLabels
<1> QED
  BY <1>2, <1>3 DEF IInv

(* A step of the polled initialisation. *)
LEMMA InitializeStep == IInv /\ Initialize => IInv'
<1> SUFFICES ASSUME IInv, Initialize PROVE IInv'
  OBVIOUS
<1> USE DEF IInv, Goto, InitUnchanged, driverVars, userVars, lossVars,
            deviceVars, TypeOK, Control, RingConsistent, QueueHead,
            QueueLength, InitLabels, GuardedLabels, OpenLabels
<1>1. CASE FlushDone
  BY <1>1 DEF FlushDone
<1>2. CASE FlushByte
  <2>1. /\ pc' \in {"flush", "send_leds"} /\ in_buffer' = in_buffer
        /\ irq1' \in BOOLEAN /\ lost_at_init' \in BOOLEAN
        /\ out_buffer' \in Scancode \cup {NoByte}
    BY <1>2 DEF FlushByte, PolledRead
  <2> QED
    BY <1>2, <2>1 DEF FlushByte
<1>3. ASSUME NEW here, NEW next \in InitLabels,
             here \in InitLabels, SendByte(here, next)
      PROVE  IInv'
  <2>1. pc' \in InitLabels /\ in_buffer' \in BOOLEAN
    BY <1>3 DEF SendByte
  <2> QED
    BY <1>3, <2>1 DEF SendByte
<1>4. ASSUME NEW here, NEW next \in InitLabels,
             here \in InitLabels, ReadAck(here, next)
      PROVE  IInv'
  <2>1. pc' \in InitLabels
    BY <1>4 DEF ReadAck
  <2>2. /\ irq1' \in BOOLEAN /\ lost_at_init' \in BOOLEAN
        /\ out_buffer' \in Scancode \cup {NoByte}
    BY <1>4 DEF ReadAck, PolledRead
  <2> QED
    BY <1>4, <2>1, <2>2 DEF ReadAck
<1>5. CASE EnableInterrupts
  BY <1>5 DEF EnableInterrupts
<1> QED
  BY <1>1, <1>2, <1>3, <1>4, <1>5 DEF Initialize

-----------------------------------------------------------------------------
(* Interrupts: they find IF set, so the mainline is outside its critical   *)
(* sections and the queue is whole.                                        *)
LEMMA KeyboardInterruptStep == IInv /\ KeyboardInterrupt => IInv'
<1> SUFFICES ASSUME IInv, KeyboardInterrupt PROVE IInv'
  OBVIOUS
<1> USE DEF IInv, TypeOK, driverVars, queueVars, userVars
<1>1. KeyboardInterruptEntry
  BY DEF KeyboardInterrupt, HandleNoData, HandlePrefix, HandleQueueFull,
         HandleKey
<1>2. pc \in OpenLabels /\ interrupt_flag
  BY <1>1 DEF KeyboardInterruptEntry, Control
<1>3. /\ pc' = IF pc = "halted" THEN "check_enter" ELSE pc
      /\ pc' \in OpenLabels /\ pc' # "halted" /\ interrupt_flag'
  BY <1>1, <1>2 DEF KeyboardInterruptEntry, Resume, OpenLabels
<1>4. CASE HandleNoData
  <2>1. TypeOK'
    BY <1>3, <1>4 DEF HandleNoData, KeyboardInterruptEntry
  <2>2. Control' /\ RingConsistent'
    BY <1>2, <1>3, <1>4
    DEF HandleNoData, KeyboardInterruptEntry, Control, RingConsistent,
        QueueHead, QueueLength, OpenLabels, InitLabels, GuardedLabels
  <2> QED
    BY <2>1, <2>2
<1>5. CASE HandlePrefix
  BY <1>2, <1>3, <1>5
  DEF HandlePrefix, KeyboardInterruptEntry, Control, RingConsistent,
      QueueHead, QueueLength, OpenLabels, InitLabels, GuardedLabels
<1>6. CASE HandleQueueFull
  BY <1>2, <1>3, <1>6
  DEF HandleQueueFull, ReadKey, KeyboardInterruptEntry, Control,
      RingConsistent, QueueHead, QueueLength, OpenLabels, InitLabels,
      GuardedLabels
<1>7. CASE HandleKey
  <2>1. out_buffer \in Scancode
    BY <1>7 DEF HandleKey, ReadKey
  <2>2. NewEvent(out_buffer) \in Event
    BY <2>1, NewEventType
  <2>3. /\ modifiers' \in SUBSET ModifierBits
        /\ entries' \in [Index -> Event]
    BY <1>7, <2>2 DEF HandleKey, Event
  <2>4. tail = (head + count) % QueueSize /\ count < QueueSize
    BY <1>2, <1>7
    DEF HandleKey, RingConsistent, QueueHead, QueueLength, OpenLabels
  <2>5. /\ head + count \in Nat /\ count \in 0 .. QueueSize - 1
        /\ head + count + 1 = head + (count + 1)
    BY <2>4, QueueSizeAssumption DEF Index
  <2>6. tail' = (head + count + 1) % QueueSize /\ count' = count + 1
    BY <1>7, <2>4, <2>5, ModNext DEF HandleKey
  <2>7. tail' = (head + count') % QueueSize /\ tail' \in Index
    BY <2>5, <2>6, ModIndex
  <2>8. TypeOK'
    <3>1. count' \in 0 .. QueueSize
      BY <2>5, <2>6, QueueSizeAssumption
    <3>2. /\ extended_pending' \in BOOLEAN /\ irq1' \in BOOLEAN
          /\ after_prefix' \in BOOLEAN
          /\ out_buffer' \in Scancode \cup {NoByte}
      BY <1>1, <1>7 DEF HandleKey, ReadKey, KeyboardInterruptEntry
    <3> QED
      BY <1>1, <1>3, <1>7, <2>3, <2>7, <3>1, <3>2
      DEF HandleKey, KeyboardInterruptEntry
  <2>9. RingConsistent'
    BY <1>1, <1>3, <1>7, <2>7
    DEF HandleKey, RingConsistent, QueueHead, QueueLength, OpenLabels
  <2>10. Control'
    BY <1>1, <1>2, <1>3, <1>7
    DEF HandleKey, KeyboardInterruptEntry, Control, OpenLabels, InitLabels,
        GuardedLabels
  <2> QED
    BY <2>8, <2>9, <2>10
<1> QED
  BY <1>4, <1>5, <1>6, <1>7 DEF KeyboardInterrupt

(* The timer handler preserves the invariant: it only resumes a hlt. *)
LEMMA TimerInterruptStep == IInv /\ TimerInterrupt => IInv'
<1> SUFFICES ASSUME IInv, TimerInterrupt PROVE IInv'
  OBVIOUS
<1>1. pc \in OpenLabels /\ pc' \in OpenLabels
  BY DEF IInv, TypeOK, TimerInterrupt, Resume, Control, OpenLabels
<1>2. TypeOK'
  BY <1>1
  DEF IInv, TypeOK, TimerInterrupt, driverVars, deviceVars, userVars, lossVars
<1>3. Control' /\ RingConsistent'
  BY <1>1
  DEF IInv, TypeOK, TimerInterrupt, Resume, Control, RingConsistent, QueueHead,
      QueueLength, OpenLabels, InitLabels, GuardedLabels, driverVars
<1> QED
  BY <1>2, <1>3 DEF IInv

-----------------------------------------------------------------------------
(* The mainline. *)
LEMMA HasPendingStep == IInv /\ HasPending => IInv'
<1> SUFFICES ASSUME IInv, HasPending PROVE IInv'
  OBVIOUS
<1> USE DEF IInv, Goto, MainUnchanged, deviceVars, userVars, lossVars
<1>1. CASE GuardEnter("check_enter", "check_count")
  <2>1. TypeOK'
    BY <1>1 DEF GuardEnter, TypeOK, GuardedLabels
  <2>2. Control'
    <3>1. pc \in OpenLabels /\ (pc = "poll_enter" => count > 0) /\ interrupt_flag
      BY <1>1 DEF GuardEnter, Control, OpenLabels
    <3>2. /\ pc' \in {"check_count", "poll_test"} /\ (pc' = "poll_test" => pc = "poll_enter")
          /\ ~interrupt_flag' /\ was_enabled' /\ count' = count
      BY <1>1, <3>1 DEF GuardEnter
    <3>3. pc' \in GuardedLabels /\ pc' \notin OpenLabels
      BY <3>2 DEF GuardedLabels, OpenLabels
    <3> QED
      BY <3>1, <3>2, <3>3 DEF Control
  <2>3. RingConsistent'
    BY <1>1 DEF GuardEnter, RingConsistent, QueueHead, QueueLength
  <2> QED
    BY <2>1, <2>2, <2>3
<1>2. CASE LoadCount("check_count", "check_leave")
  <2>1. TypeOK'
    BY <1>2 DEF LoadCount, TypeOK, GuardedLabels
  <2>2. Control' /\ RingConsistent'
    BY <1>2
    DEF LoadCount, Control, RingConsistent, QueueHead, QueueLength,
        InitLabels, GuardedLabels, OpenLabels
  <2> QED
    BY <2>1, <2>2
<1>3. CASE GuardLeave("check_leave",
                      IF loaded_count = 0 THEN "hlt" ELSE "poll_enter")
  <2>1. interrupt_flag' = TRUE /\ pc' \in {"hlt", "poll_enter"}
    BY <1>3 DEF GuardLeave, Control, GuardedLabels
  <2>2. TypeOK'
    BY <1>3, <2>1 DEF GuardLeave, TypeOK, OpenLabels
  <2>3. pc' = "poll_enter" => count' > 0
    BY <1>3 DEF GuardLeave, Control, TypeOK
  <2>4. Control' /\ RingConsistent'
    BY <1>3, <2>1, <2>3
    DEF GuardLeave, Control, RingConsistent, QueueHead, QueueLength,
        InitLabels, GuardedLabels, OpenLabels
  <2> QED
    BY <2>2, <2>4
<1> QED
  BY <1>1, <1>2, <1>3 DEF HasPending

(* The two steps of the loop outside the guards preserve the invariant. *)
LEMMA HaltDispatchStep == IInv /\ (Halt \/ Dispatch) => IInv'
<1> SUFFICES ASSUME IInv, Halt \/ Dispatch PROVE IInv'
  OBVIOUS
<1> USE DEF IInv, Goto, MainUnchanged, deviceVars, userVars, lossVars
<1>1. pc' \in {"halted", "check_enter"} /\ pc \in {"hlt", "dispatch"}
  BY DEF Halt, Dispatch
<1>2. TypeOK'
  BY <1>1 DEF Halt, Dispatch, TypeOK, OpenLabels
<1>3. Control' /\ RingConsistent'
  BY <1>1
  DEF Halt, Dispatch, Control, RingConsistent, QueueHead, QueueLength,
      InitLabels, GuardedLabels, OpenLabels
<1> QED
  BY <1>2, <1>3

(* Each load and store of poll_keyboard_event preserves the invariant. *)
LEMMA PollStep == IInv /\ Poll => IInv'
<1> SUFFICES ASSUME IInv, Poll PROVE IInv'
  OBVIOUS
<1> USE DEF IInv, Goto, MainUnchanged, deviceVars, userVars, lossVars
<1>1. CASE GuardEnter("poll_enter", "poll_test")
  <2>1. TypeOK'
    BY <1>1 DEF GuardEnter, TypeOK, GuardedLabels
  <2>2. Control'
    <3>1. pc \in OpenLabels /\ (pc = "poll_enter" => count > 0) /\ interrupt_flag
      BY <1>1 DEF GuardEnter, Control, OpenLabels
    <3>2. /\ pc' \in {"check_count", "poll_test"} /\ (pc' = "poll_test" => pc = "poll_enter")
          /\ ~interrupt_flag' /\ was_enabled' /\ count' = count
      BY <1>1, <3>1 DEF GuardEnter
    <3>3. pc' \in GuardedLabels /\ pc' \notin OpenLabels
      BY <3>2 DEF GuardedLabels, OpenLabels
    <3> QED
      BY <3>1, <3>2, <3>3 DEF Control
  <2>3. RingConsistent'
    BY <1>1 DEF GuardEnter, RingConsistent, QueueHead, QueueLength
  <2> QED
    BY <2>1, <2>2, <2>3
<1>2. CASE LoadCount("poll_test",
                     IF count = 0 THEN "poll_leave" ELSE "poll_copy")
  <2>1. count > 0 /\ pc' = "poll_copy" /\ loaded_count' = count
    BY <1>2 DEF LoadCount, Control, TypeOK
  <2>2. TypeOK'
    BY <1>2, <2>1 DEF LoadCount, TypeOK, GuardedLabels
  <2>3. Control' /\ RingConsistent'
    BY <1>2, <2>1
    DEF LoadCount, Control, RingConsistent, QueueHead, QueueLength,
        InitLabels, GuardedLabels, OpenLabels
  <2> QED
    BY <2>2, <2>3
<1>3. CASE PollCopy
  <2>1. event' \in Event /\ outstanding' \in Seq(Stroke)
    BY <1>3 DEF PollCopy, TypeOK
  <2>2. TypeOK'
    BY <1>3, <2>1 DEF PollCopy, TypeOK, GuardedLabels
  <2>3. Control'
    BY <1>3
    DEF PollCopy, Control, InitLabels, GuardedLabels, OpenLabels
  <2>4. /\ count \in Nat \ {0} /\ head \in Index /\ head \in Nat
        /\ tail = (head + count) % QueueSize
        /\ (head + 1) + (count - 1) = head + count
    BY <1>3, QueueSizeAssumption
    DEF PollCopy, Control, TypeOK, RingConsistent, QueueHead, QueueLength,
        Index
  <2>5. tail = (next_keyboard_event(head) + (count - 1)) % QueueSize
    BY <2>4, ModShift DEF next_keyboard_event
  <2>6. RingConsistent'
    BY <1>3, <2>5 DEF PollCopy, RingConsistent, QueueHead, QueueLength
  <2> QED
    BY <2>2, <2>3, <2>6
<1>4. CASE PollHead
  <2>1. head' \in Index
    BY <1>4, QueueSizeAssumption
    DEF PollHead, next_keyboard_event, Index, TypeOK
  <2>2. TypeOK'
    BY <1>4, <2>1 DEF PollHead, TypeOK, GuardedLabels
  <2>3. Control' /\ RingConsistent'
    BY <1>4
    DEF PollHead, Control, RingConsistent, QueueHead, QueueLength,
        InitLabels, GuardedLabels, OpenLabels
  <2> QED
    BY <2>2, <2>3
<1>5. CASE PollCount
  <2>1. count' = count - 1 /\ count' \in 0 .. QueueSize
    BY <1>5, QueueSizeAssumption DEF PollCount, Control, TypeOK
  <2>2. TypeOK'
    BY <1>5, <2>1 DEF PollCount, TypeOK, GuardedLabels
  <2>3. Control' /\ RingConsistent'
    BY <1>5, <2>1
    DEF PollCount, Control, RingConsistent, QueueHead, QueueLength,
        InitLabels, GuardedLabels, OpenLabels
  <2> QED
    BY <2>2, <2>3
<1>6. CASE GuardLeave("poll_leave", "dispatch")
  <2>1. interrupt_flag' = TRUE
    BY <1>6 DEF GuardLeave, Control, GuardedLabels
  <2>2. TypeOK'
    BY <1>6, <2>1 DEF GuardLeave, TypeOK, OpenLabels
  <2>3. Control' /\ RingConsistent'
    BY <1>6, <2>1
    DEF GuardLeave, Control, RingConsistent, QueueHead, QueueLength,
        InitLabels, GuardedLabels, OpenLabels
  <2> QED
    BY <2>2, <2>3
<1> QED
  BY <1>1, <1>2, <1>3, <1>4, <1>5, <1>6 DEF Poll

-----------------------------------------------------------------------------
(* The devices leave the driver and the mainline alone. *)
LEMMA BytesType ==
  ASSUME NEW k \in PhysicalKeys, NEW state \in State
  PROVE  Bytes(k, state) \in Seq(Scancode)
<1>1. k.code \in Code /\ k.extended \in BOOLEAN
  BY PhysicalKeysAssumption
<1>2. /\ k.code \in Scancode /\ k.code + 128 \in Scancode
      /\ extended_prefix \in Scancode
  BY <1>1 DEF Code, Scancode, extended_prefix
<1> QED
  BY <1>2 DEF Bytes

(* The modifiers a user expects are modifier bits of the driver. *)
LEMMA HeldModifiersType ==
  ASSUME NEW ks, NEW caps
  PROVE  HeldModifiers(ks, caps) \in SUBSET ModifierBits
  BY DEF HeldModifiers, ModifierBits

(* The decoding tables map every physical key to a logical key. *)
LEMMA KeyOfType ==
  ASSUME NEW k \in PhysicalKeys
  PROVE  KeyOf(k) \in Key
  BY PhysicalKeysAssumption, MapInKey DEF KeyOf

(* A stroke of the user preserves the invariant. *)
LEMMA TypeKeyStep ==
  ASSUME IInv, NEW k \in PhysicalKeys, NEW state \in State,
         TypeKey(k, state), held' \in SUBSET PhysicalKeys, caps_on' \in BOOLEAN
  PROVE  IInv'
<1> USE DEF IInv, driverVars, cpuVars, lossVars
<1>1. wire' \in Seq(Scancode) /\ strokes' \in 0 .. MaxStrokes
  BY BytesType, MaxStrokesAssumption DEF TypeKey, TypeOK
<1>2. outstanding' \in Seq(Stroke)
  <2>1. [key |-> KeyOf(k), state |-> state,
         modifiers |-> HeldModifiers(held', caps_on')] \in Stroke
    BY KeyOfType, HeldModifiersType DEF Stroke
  <2> QED
    BY <2>1 DEF TypeKey, TypeOK
<1>3. TypeOK'
  BY <1>1, <1>2 DEF TypeKey, TypeOK
<1>4. Control' /\ RingConsistent'
  BY DEF TypeKey, Control, RingConsistent, QueueHead, QueueLength
<1> QED
  BY <1>3, <1>4

(* Every step of the PIT, the keyboard and the user preserves the invariant. *)
LEMMA DeviceStep == IInv /\ Device => IInv'
<1> SUFFICES ASSUME IInv, Device PROVE IInv'
  OBVIOUS
<1> USE DEF IInv, driverVars, cpuVars, deviceVars, userVars, lossVars
<1>1. CASE Tick
  BY <1>1
  DEF Tick, TypeOK, Control, RingConsistent, QueueHead, QueueLength
<1>2. CASE Transmit
  <2>1. /\ out_buffer' \in Scancode \cup {NoByte}
        /\ wire' \in Seq(Scancode)
    BY <1>2 DEF Transmit, TypeOK
  <2>2. TypeOK'
    BY <1>2, <2>1 DEF Transmit, TypeOK
  <2>3. Control' /\ RingConsistent'
    BY <1>2 DEF Transmit, Control, RingConsistent, QueueHead, QueueLength
  <2> QED
    BY <2>2, <2>3
<1>3. CASE Acknowledge
  <2>1. wire' \in Seq(Scancode)
    BY <1>3 DEF Acknowledge, TypeOK, keyboard_ack, Scancode
  <2>2. in_buffer' \in BOOLEAN
    BY <1>3 DEF Acknowledge
  <2>3. TypeOK'
    BY <1>3, <2>1, <2>2 DEF Acknowledge, TypeOK
  <2>4. Control' /\ RingConsistent'
    BY <1>3 DEF Acknowledge, Control, RingConsistent, QueueHead, QueueLength
  <2> QED
    BY <2>3, <2>4
<1>4. ASSUME NEW k \in PhysicalKeys, Press(k)
      PROVE  IInv'
  <2>1. held' \in SUBSET PhysicalKeys /\ caps_on' \in BOOLEAN
    BY <1>4 DEF Press, TypeOK
  <2> QED
    BY <1>4, <2>1, TypeKeyStep DEF Press, State
<1>5. ASSUME NEW k \in PhysicalKeys, Release(k)
      PROVE  IInv'
  <2>1. held' \in SUBSET PhysicalKeys /\ caps_on' \in BOOLEAN
    BY <1>5 DEF Release, TypeOK
  <2> QED
    BY <1>5, <2>1, TypeKeyStep DEF Release, State
<1> QED
  BY <1>1, <1>2, <1>3, <1>4, <1>5 DEF Device

-----------------------------------------------------------------------------
(* The invariant is inductive: every step of the system preserves it. *)
LEMMA NextInvariant == IInv /\ [Next]_vars => IInv'
<1> SUFFICES ASSUME IInv, [Next]_vars PROVE IInv'
  OBVIOUS
<1>1. CASE UNCHANGED vars
  BY <1>1
  DEF vars, IInv, TypeOK, Control, RingConsistent, QueueHead, QueueLength
<1> QED
  BY <1>1, InitializeStep, KeyboardInterruptStep, TimerInterruptStep,
     HasPendingStep, HaltDispatchStep, PollStep, DeviceStep
  DEF Next, Mainline

(* The invariant holds in every state of every behaviour. *)
LEMMA Invariance == Spec => []IInv
  BY InitInvariant, NextInvariant, PTL DEF Spec

(* Type correctness of the driver, the mainline and the devices. *)
THEOREM TypeCorrect == Spec => []TypeOK
<1>1. IInv => TypeOK
  BY DEF IInv
<1> QED
  BY <1>1, Invariance, PTL

(* head, tail and count describe one run of slots in every interleaving of *)
(* the handler and poll_keyboard_event.                                    *)
THEOREM RingAlwaysConsistent == Spec => []RingConsistent
<1>1. IInv => RingConsistent
  BY DEF IInv
<1> QED
  BY <1>1, Invariance, PTL

(* The poll whose result start_data_receiving ignores never fails. *)
THEOREM PollAlwaysFindsEvent == Spec => []PollFindsEvent
<1>1. IInv => PollFindsEvent
  BY DEF IInv, Control, PollFindsEvent
<1> QED
  BY <1>1, Invariance, PTL

(* hlt is never executed with interrupts off. *)
THEOREM AlwaysHaltsInterruptible == Spec => []HaltsInterruptible
<1>1. IInv => HaltsInterruptible
  BY DEF IInv, Control, HaltsInterruptible, OpenLabels
<1> QED
  BY <1>1, Invariance, PTL

-----------------------------------------------------------------------------
(* The ring buffer implements a bounded FIFO: the mapping to EventFifo's   *)
(* queue, under which an event leaves when poll_keyboard_event copies it,  *)
(* is a refinement.                                                        *)

(* The part of the invariant that is about the queue. *)
LEMMA QueueShape ==
  ASSUME IInv
  PROVE  /\ QueueHead \in Index /\ QueueHead \in Nat
         /\ QueueLength \in 0 .. QueueSize
         /\ \A i \in 1 .. QueueSize :
              /\ QueueHead + i - 1 \in Nat
              /\ entries[(QueueHead + i - 1) % QueueSize] \in Event
         /\ Queue \in Seq(Event)
         /\ Len(Queue) = QueueLength
<1>1. QueueHead \in Index
  BY QueueSizeAssumption
  DEF IInv, TypeOK, QueueHead, next_keyboard_event, Index
<1>2. QueueLength \in 0 .. QueueSize
  BY QueueSizeAssumption DEF IInv, TypeOK, Control, QueueLength
<1>3. QueueHead \in Nat /\ QueueSize \in Nat
  BY <1>1, QueueSizeAssumption DEF Index
<1>4. ASSUME NEW i \in 1 .. QueueSize
      PROVE  /\ QueueHead + i - 1 \in Nat
             /\ entries[(QueueHead + i - 1) % QueueSize] \in Event
  <2>1. QueueHead + i - 1 \in Nat
    BY <1>3
  <2>2. (QueueHead + i - 1) % QueueSize \in Index
    BY <2>1, ModIndex
  <2> QED
    BY <2>1, <2>2 DEF IInv, TypeOK
<1>5. Queue \in [1 .. QueueLength -> Event] /\ QueueLength \in Nat
  <2>1. \A i \in 1 .. QueueLength : i \in 1 .. QueueSize
    BY <1>2, <1>3
  <2>2. \A i \in 1 .. QueueLength :
          entries[(QueueHead + i - 1) % QueueSize] \in Event
    BY <1>4, <2>1
  <2> QED
    BY <1>2, <2>2 DEF Queue
<1>6. Queue \in Seq(Event) /\ Len(Queue) = QueueLength
  BY <1>5, SeqDef
<1> QED
  BY <1>1, <1>2, <1>3, <1>4, <1>6

(* A step that moves neither end of the queue is a stuttering step. *)
LEMMA QueueKept ==
  ASSUME entries' = entries, QueueHead' = QueueHead, QueueLength' = QueueLength
  PROVE  Queue' = Queue
  BY DEF Queue

(* The handler appends the event it has decoded to the queue. *)
LEMMA HandleKeyAppends ==
  ASSUME IInv, HandleKey
  PROVE  /\ NewEvent(out_buffer) \in Event
         /\ Queue' = Append(Queue, NewEvent(out_buffer))
         /\ Len(Queue) < QueueSize
<1> DEFINE e == NewEvent(out_buffer)
<1>1. pc \in OpenLabels /\ pc' \in OpenLabels
  BY DEF HandleKey, KeyboardInterruptEntry, IInv, TypeOK, Control, Resume,
         OpenLabels
<1>2. QueueHead = head /\ QueueLength = count
  BY <1>1 DEF QueueHead, QueueLength, OpenLabels
<1>3. QueueHead' = head /\ QueueLength' = count + 1
  BY <1>1 DEF QueueHead, QueueLength, OpenLabels, HandleKey
<1>4. tail = (head + count) % QueueSize /\ count < QueueSize /\ tail \in Index
  BY <1>2 DEF IInv, TypeOK, RingConsistent, HandleKey
<1>5. entries \in [Index -> Event] /\ entries' = [entries EXCEPT ![tail] = e]
  BY DEF IInv, TypeOK, HandleKey
<1>6. e \in Event
  BY NewEventType DEF IInv, TypeOK, HandleKey, ReadKey
<1>7. QueueSize \in Nat /\ count \in Nat /\ head \in Nat
  BY QueueSizeAssumption DEF IInv, TypeOK, Index
<1>8. ASSUME NEW i \in 1 .. count
      PROVE  Queue'[i] = Queue[i]
  <2>1. /\ head + i - 1 \in Nat /\ head + count \in Nat
        /\ head + i - 1 < head + count
        /\ head + count < (head + i - 1) + QueueSize
    BY <1>4, <1>7
  <2>2. (head + i - 1) % QueueSize # tail
    BY <1>4, <2>1, ModDistinct
  <2>3. (head + i - 1) % QueueSize \in Index
    BY <2>1, ModIndex
  <2>4. Queue[i] = entries[(head + i - 1) % QueueSize]
    BY <1>2 DEF Queue
  <2>5. Queue'[i] = entries'[(head + i - 1) % QueueSize]
    BY <1>3, <1>7 DEF Queue
  <2> QED
    BY <1>5, <2>2, <2>3, <2>4, <2>5
<1>9. Queue'[count + 1] = e
  <2>1. Queue'[count + 1] = entries'[(head + (count + 1) - 1) % QueueSize]
    BY <1>3, <1>7 DEF Queue
  <2>2. head + (count + 1) - 1 = head + count
    BY <1>7
  <2> QED
    BY <1>4, <1>5, <2>1, <2>2
<1>10. /\ Queue \in Seq(Event) /\ Len(Queue) = count
       /\ Queue' \in Seq(Event) /\ Len(Queue') = count + 1
  <2>1. Queue \in Seq(Event) /\ Len(Queue) = count
    BY <1>2, QueueShape
  <2>2. Queue' \in [1 .. count + 1 -> Event]
    <3>1. ASSUME NEW i \in 1 .. count + 1
          PROVE  Queue'[i] \in Event
      BY <1>6, <1>7, <1>8, <1>9, <2>1, ElementOfSeq
    <3>2. Queue' = [i \in 1 .. count + 1 |-> Queue'[i]]
      BY <1>3 DEF Queue
    <3> QED
      BY <3>1, <3>2
  <2>3. count + 1 \in Nat
    BY <1>7
  <2> QED
    BY <2>1, <2>2, <2>3, SeqDef
<1>11. Queue' = Append(Queue, e)
  <2>1. /\ Append(Queue, e) \in Seq(Event)
        /\ Len(Append(Queue, e)) = count + 1
        /\ \A i \in 1 .. count : Append(Queue, e)[i] = Queue[i]
        /\ Append(Queue, e)[count + 1] = e
    BY <1>6, <1>10
  <2>2. \A i \in 1 .. count + 1 : Queue'[i] = Append(Queue, e)[i]
    BY <1>7, <1>8, <1>9, <2>1
  <2> QED
    BY <1>10, <2>1, <2>2, SeqEqual
<1> QED
  BY <1>4, <1>6, <1>10, <1>11

(* Accepting an event is an Offer. *)
LEMMA HandleKeyOffers ==
  ASSUME IInv, HandleKey
  PROVE  Fifo!Offer
<1> DEFINE e == NewEvent(out_buffer)
<1>1. e \in Event /\ Queue' = Append(Queue, e) /\ Len(Queue) < QueueSize
  BY HandleKeyAppends
<1>2. Queue \in Seq(Event)
  BY QueueShape
<1>3. event' = event
  BY DEF HandleKey, KeyboardInterruptEntry
<1> HIDE DEF e
<1>4. Queue'[Len(Queue')] = e /\ Len(Queue') = Len(Queue) + 1
  BY <1>1, <1>2
<1> QED
  BY <1>1, <1>2, <1>3, <1>4 DEF Fifo!Offer, Fifo!Last

(* Copying an event out of the ring is a Take. *)
LEMMA PollCopyTakes ==
  ASSUME IInv, PollCopy
  PROVE  Fifo!Take
<1>1. /\ QueueHead = head /\ QueueLength = count /\ count > 0
      /\ QueueHead' = next_keyboard_event(head) /\ QueueLength' = count - 1
      /\ entries' = entries
  BY DEF IInv, Control, PollCopy, Goto, MainUnchanged, QueueHead, QueueLength
<1>2. /\ Queue \in Seq(Event) /\ Len(Queue) = count
      /\ head \in Nat /\ count \in 1 .. QueueSize /\ QueueSize \in Nat
      /\ head \in Index
  BY <1>1, QueueShape, QueueSizeAssumption
<1>3. Queue # <<>> /\ Head(Queue) = event'
  <2>1. Queue[1] = entries[(head + 1 - 1) % QueueSize]
    BY <1>1, <1>2 DEF Queue
  <2>2. (head + 1 - 1) % QueueSize = head
    BY <1>2, ModSmall
  <2>3. event' = entries[head]
    BY DEF PollCopy
  <2> QED
    BY <1>2, <2>1, <2>2, <2>3
<1>4. /\ Tail(Queue) \in Seq(Event) /\ Len(Tail(Queue)) = count - 1
      /\ \A i \in 1 .. count - 1 : Tail(Queue)[i] = Queue[i + 1]
  BY <1>2, <1>3, HeadTailProperties
<1>5. ASSUME NEW i \in 1 .. count - 1
      PROVE  Queue'[i] = Tail(Queue)[i]
  <2>1. Queue'[i] = entries[(next_keyboard_event(head) + i - 1) % QueueSize]
    BY <1>1 DEF Queue
  <2>2. Queue[i + 1] = entries[(head + (i + 1) - 1) % QueueSize]
    BY <1>1, <1>2 DEF Queue
  <2>3. /\ head + 1 \in Nat /\ i - 1 \in Nat
        /\ (head + 1) + (i - 1) = head + (i + 1) - 1
    BY <1>2
  <2>4. next_keyboard_event(head) \in Nat
    BY <2>3, ModIndex, <1>2 DEF next_keyboard_event, Index
  <2>5. next_keyboard_event(head) + i - 1 = next_keyboard_event(head) + (i - 1)
    BY <1>2, <2>4
  <2>6. (next_keyboard_event(head) + i - 1) % QueueSize
          = (head + (i + 1) - 1) % QueueSize
    BY <2>3, <2>5, ModShift DEF next_keyboard_event
  <2> QED
    BY <1>4, <2>1, <2>2, <2>6
<1>6. Queue' \in Seq(Event) /\ Len(Queue') = count - 1
  <2>1. Queue' = [i \in 1 .. count - 1 |-> Queue'[i]]
    BY <1>1 DEF Queue
  <2>2. ASSUME NEW i \in 1 .. count - 1
        PROVE  Queue'[i] \in Event
    BY <1>4, <1>5, ElementOfSeq
  <2>3. Queue' \in [1 .. count - 1 -> Event] /\ count - 1 \in Nat
    BY <1>2, <2>1, <2>2
  <2> QED
    BY <2>3, SeqDef
<1>7. Queue' = Tail(Queue)
  BY <1>4, <1>5, <1>6, SeqEqual
<1> QED
  BY <1>3, <1>7 DEF Fifo!Take

(* Every other step leaves the queue and the event taken last alone. *)
LEMMA OtherStepsStutter ==
  ASSUME IInv, [Next]_vars, ~HandleKey, ~PollCopy
  PROVE  UNCHANGED <<Queue, event>>
<1> USE DEF Goto, driverVars, queueVars, cpuVars, MainUnchanged, InitUnchanged
<1>1. CASE Initialize
  BY <1>1, QueueKept
  DEF Initialize, FlushDone, FlushByte, SendByte, ReadAck, EnableInterrupts,
      QueueHead, QueueLength
<1>2. CASE KeyboardInterrupt \/ TimerInterrupt
  <2>1. pc \in OpenLabels /\ pc' \in OpenLabels
    BY <1>2
    DEF IInv, TypeOK, Control, KeyboardInterrupt, HandleNoData, HandlePrefix,
        HandleQueueFull, HandleKey, KeyboardInterruptEntry, TimerInterrupt,
        Resume, OpenLabels
  <2> QED
    BY <1>2, <2>1, QueueKept
    DEF KeyboardInterrupt, HandleNoData, HandlePrefix, HandleQueueFull,
        KeyboardInterruptEntry, TimerInterrupt, QueueHead, QueueLength,
        OpenLabels
<1>3. CASE HasPending \/ Halt \/ Dispatch
  BY <1>3, QueueKept
  DEF HasPending, GuardEnter, LoadCount, GuardLeave, Halt, Dispatch,
      QueueHead, QueueLength
<1>4. CASE Poll
  <2>1. CASE \/ GuardEnter("poll_enter", "poll_test")
             \/ GuardLeave("poll_leave", "dispatch")
             \/ LoadCount("poll_test",
                          IF count = 0 THEN "poll_leave" ELSE "poll_copy")
    BY <2>1, QueueKept
    DEF GuardEnter, GuardLeave, LoadCount, QueueHead, QueueLength
  <2>2. CASE PollHead
    BY <2>2, QueueKept DEF PollHead, QueueHead, QueueLength
  <2>3. CASE PollCount
    <3>1. count' = count - 1
      BY <2>3, QueueSizeAssumption DEF PollCount, IInv, TypeOK, Control
    <3> QED
      BY <2>3, <3>1, QueueKept DEF PollCount, QueueHead, QueueLength
  <2> QED
    BY <1>4, <2>1, <2>2, <2>3 DEF Poll
<1>5. CASE Device
  BY <1>5, QueueKept
  DEF Device, Tick, Transmit, Acknowledge, Press, Release, TypeKey, QueueHead,
      QueueLength
<1>6. CASE UNCHANGED vars
  BY <1>6, QueueKept DEF vars, QueueHead, QueueLength
<1> QED
  BY <1>1, <1>2, <1>3, <1>4, <1>5, <1>6 DEF Next, Mainline

(* The ring buffer that the IRQ1 handler fills and poll_keyboard_event     *)
(* drains, interrupted anywhere, implements a bounded FIFO.                *)
THEOREM Refinement == Spec => ImplementsFifo
<1>1. Init => Fifo!FifoInit
  <2> SUFFICES ASSUME Init PROVE Fifo!FifoInit
    OBVIOUS
  <2>1. IInv
    BY InitInvariant
  <2>2. QueueLength = 0
    BY DEF Init, QueueLength
  <2>3. Queue \in Seq(Event) /\ Len(Queue) = 0
    BY <2>1, <2>2, QueueShape
  <2>4. Queue = <<>>
    BY <2>3, EmptySeq
  <2> QED
    BY <2>1, <2>4 DEF Fifo!FifoInit, IInv, TypeOK
<1>2. IInv /\ IInv' /\ [Next]_vars => [Fifo!FifoNext]_(Fifo!fifoVars)
  BY HandleKeyOffers, PollCopyTakes, OtherStepsStutter
  DEF Fifo!FifoNext, Fifo!fifoVars
<1> QED
  BY <1>1, <1>2, Invariance, PTL DEF Spec, ImplementsFifo, Fifo!FifoSpec

-----------------------------------------------------------------------------
(* Every waiting event is the stroke it was made of.  The invariant follows *)
(* the strokes through the bytes that are still on their way: n[i] strokes *)
(* are among the first i events, m[j] among those and the first j bytes in *)
(* flight, and the strokes after the last event are what the driver will   *)
(* decode from these bytes with the modifiers it has now.                  *)

InFlight == (IF out_buffer = NoByte THEN <<>> ELSE <<out_buffer>>) \o wire
IsKeyByte(b) == b \notin {extended_prefix, keyboard_ack}

(* Functions of positions, when the first position or d strokes are gone,  *)
(* and what is left of strokes o without the first d.                      *)
Behind(f) == [i \in Nat |-> f[i + 1]]
Less(f, d) == [i \in Nat |-> f[i] - d]
Left(o2, o, d) ==
  /\ Len(o2) = Len(o) - d
  /\ \A k \in Int : k > d /\ k <= Len(o) => o2[k - d] = o[k]

Rising(f, last) == \A i, j \in 0 .. last : i <= j => f[i] <= f[j]

(* n numbers the events of the queue, and each is the stroke it numbers. *)
Numbers(n, q, o) ==
  /\ n \in [Nat -> Int] /\ n[0] = 0 /\ Rising(n, Len(q))
  /\ \A i \in 1 .. Len(q) :
       IF IsAck(q[i]) THEN n[i] = n[i - 1]
                      ELSE /\ n[i] = n[i - 1] + 1
                           /\ n[i] <= Len(o)
                           /\ StrokeOf(q[i]) = o[n[i]]

(* Whether the driver will have extended_pending set when it reads byte j. *)
AfterPrefix(b, ext, j) == IF j = 1 THEN ext ELSE b[j - 1] = extended_prefix

DecodesTo(b, ext, j, s) ==
  /\ KeyCode(b[j]) # KeyCode(keyboard_ack)
  /\ s.key = map_scancode_set_1_key(KeyCode(b[j]), AfterPrefix(b, ext, j))
  /\ s.state = KeyState(b[j])

(* A prefix is followed by the byte of its key, in flight with it. *)
PrefixesComplete(b, ext) ==
  /\ ext => Len(b) > 0 /\ IsKeyByte(b[1])
  /\ \A j \in 1 .. Len(b) :
       b[j] = extended_prefix => j < Len(b) /\ IsKeyByte(b[j + 1])

(* m numbers the bytes in flight, up to the last stroke, and each byte of  *)
(* a key decodes to the stroke it numbers.                                 *)
Counts(m, b, ext, o) ==
  /\ m \in [Nat -> Int] /\ m[Len(b)] = Len(o) /\ Rising(m, Len(b))
  /\ \A j \in 1 .. Len(b) :
       IF IsKeyByte(b[j]) THEN /\ m[j] = m[j - 1] + 1
                               /\ m[j] <= Len(o)
                               /\ DecodesTo(b, ext, j, o[m[j]])
                          ELSE m[j] = m[j - 1]

Decodes(m, b, ext, o) == Counts(m, b, ext, o) /\ PrefixesComplete(b, ext)

(* The driver's modifiers now are those after stroke c; each stroke that   *)
(* follows updates those before it, and the last ones are the expected.    *)
ModifiersAfter(k, c, mods, o) == IF k = c THEN mods ELSE o[k].modifiers

ModifiersFollow(c, mods, o, expected) ==
  /\ \A k \in 1 .. Len(o) : k > c =>
       o[k].modifiers = update_modifier_state(
         ModifiersAfter(k - 1, c, mods, o), o[k].key, o[k].state)
  /\ ModifiersAfter(Len(o), c, mods, o) = expected

Traces(n, m, q, b, ext, mods, o, expected) ==
  /\ Numbers(n, q, o)
  /\ Decodes(m, b, ext, o)
  /\ m[0] = n[Len(q)]
  /\ ModifiersFollow(m[0], mods, o, expected)

Traced(q, b, ext, mods, o, expected) ==
  \E n, m : Traces(n, m, q, b, ext, mods, o, expected)

(* The invariant: unless bytes were lost, there is a trace. *)
Faithful ==
  ~lost_at_init /\ ~dropped =>
    Traced(Queue, InFlight, extended_pending, modifiers, outstanding,
           HeldModifiers(held, caps_on))

-----------------------------------------------------------------------------
(* An event appended to the queue takes the next number. *)
LEMMA NumbersAppend ==
  ASSUME NEW q \in Seq(Event), NEW o \in Seq(Stroke), NEW n,
         Numbers(n, q, o), NEW e \in Event, NEW c \in Int,
         IF IsAck(e) THEN c = n[Len(q)]
                     ELSE /\ c = n[Len(q)] + 1
                          /\ c <= Len(o)
                          /\ StrokeOf(e) = o[c]
  PROVE  Numbers([n EXCEPT ![Len(q) + 1] = c], Append(q, e), o)
<1> DEFINE p == [n EXCEPT ![Len(q) + 1] = c]
           r == Append(q, e)
<1>1. /\ Len(q) \in Nat /\ Len(r) = Len(q) + 1
      /\ r[Len(q) + 1] = e /\ \A i \in 1 .. Len(q) : r[i] = q[i]
  OBVIOUS
<1>2. /\ n \in [Nat -> Int] /\ n[0] = 0 /\ Rising(n, Len(q))
      /\ \A i \in 1 .. Len(q) :
           IF IsAck(q[i]) THEN n[i] = n[i - 1]
                          ELSE /\ n[i] = n[i - 1] + 1
                               /\ n[i] <= Len(o)
                               /\ StrokeOf(q[i]) = o[n[i]]
  BY DEF Numbers
<1>3. /\ p \in [Nat -> Int] /\ p[Len(q) + 1] = c
      /\ \A i \in 0 .. Len(q) : p[i] = n[i]
  BY <1>1, <1>2
<1> HIDE DEF p, r
<1>4. p[0] = 0
  BY <1>1, <1>2, <1>3
<1>5. Rising(p, Len(r))
  <2>0. 0 .. Len(r) = 0 .. Len(q) + 1
    BY <1>1
  <2> SUFFICES ASSUME NEW i \in 0 .. Len(q) + 1, NEW j \in 0 .. Len(q) + 1,
                      i <= j
               PROVE  p[i] <= p[j]
    BY <2>0 DEF Rising
  <2>1. c >= n[Len(q)] /\ \A k \in 0 .. Len(q) : n[k] <= n[Len(q)]
    <3>1. n[Len(q)] \in Int /\ Len(q) \in 0 .. Len(q)
      BY <1>1, <1>2
    <3>2. \A k \in 0 .. Len(q) : k <= Len(q)
      BY <1>1
    <3>3. c >= n[Len(q)]
      BY <3>1
    <3>. QED BY <1>2, <3>1, <3>2, <3>3 DEF Rising
  <2>2. CASE j \in 0 .. Len(q)
    <3>1. i \in 0 .. Len(q)
      BY <1>1, <2>2
    <3> QED
      BY <1>2, <1>3, <2>2, <3>1 DEF Rising
  <2>3. CASE j = Len(q) + 1 /\ i \in 0 .. Len(q)
    <3>1. n[i] \in Int /\ n[Len(q)] \in Int
      BY <1>1, <1>2, <2>3
    <3> QED
      BY <1>3, <2>1, <2>3, <3>1
  <2> QED
    BY <1>1, <1>3, <2>2, <2>3
<1>6. ASSUME NEW i \in 1 .. Len(r)
      PROVE  IF IsAck(r[i]) THEN p[i] = p[i - 1]
                            ELSE /\ p[i] = p[i - 1] + 1
                                 /\ p[i] <= Len(o)
                                 /\ StrokeOf(r[i]) = o[p[i]]
  <2>1. CASE i \in 1 .. Len(q)
    <3>1. p[i] = n[i] /\ p[i - 1] = n[i - 1] /\ r[i] = q[i]
      BY <1>1, <1>3, <2>1
    <3> QED
      BY <1>2, <2>1, <3>1
  <2>2. CASE i = Len(q) + 1
    <3>1. p[i] = c /\ p[i - 1] = n[Len(q)] /\ r[i] = e
      BY <1>1, <1>3, <2>2
    <3> QED
      BY <3>1
  <2> QED
    BY <1>1, <2>1, <2>2
<1>7. Numbers(p, r, o)
  BY <1>3, <1>4, <1>5, <1>6 DEF Numbers
<1> QED
  BY <1>7 DEF p, r

(* The oldest event counts for one stroke or for none, which leaves with   *)
(* it.                                                                     *)
LEMMA StrokesTail ==
  ASSUME NEW q \in Seq(Event), q # <<>>, NEW o \in Seq(Stroke), NEW n,
         Numbers(n, q, o), NEW o2 \in Seq(Stroke),
         o2 = IF o = <<>> \/ IsAck(q[1]) THEN o ELSE Tail(o)
  PROVE  n[1] \in Nat /\ Left(o2, o, n[1])
<1>1. Len(q) \in Nat /\ Len(q) >= 1 /\ Len(o) \in Nat
  BY EmptySeq
<1>2. /\ n \in [Nat -> Int] /\ n[0] = 0
      /\ \A i \in 1 .. Len(q) :
           IF IsAck(q[i]) THEN n[i] = n[i - 1]
                          ELSE /\ n[i] = n[i - 1] + 1
                               /\ n[i] <= Len(o)
                               /\ StrokeOf(q[i]) = o[n[i]]
  BY DEF Numbers
<1>3. IF IsAck(q[1]) THEN n[1] = 0 ELSE n[1] = 1 /\ Len(o) >= 1
  <2>1. IF IsAck(q[1]) THEN n[1] = n[1 - 1]
                       ELSE n[1] = n[1 - 1] + 1 /\ n[1] <= Len(o)
    BY <1>1, <1>2
  <2>2. n[1 - 1] = 0
    BY <1>2
  <2> QED
    BY <2>1, <2>2
<1>4. /\ Len(o2) = Len(o) - n[1]
      /\ \A k \in Int : k > n[1] /\ k <= Len(o) => o2[k - n[1]] = o[k]
  <2>1. CASE IsAck(q[1])
    BY <1>1, <1>3, <2>1
  <2>2. CASE ~IsAck(q[1])
    <3>1. o # <<>> /\ o2 = Tail(o) /\ n[1] = 1
      BY <1>1, <1>3, <2>2, EmptySeq
    <3>2. /\ Len(Tail(o)) = Len(o) - 1
          /\ \A k \in 1 .. Len(o) - 1 : Tail(o)[k] = o[k + 1]
      BY <3>1, HeadTailProperties
    <3>3. ASSUME NEW k \in Int, k > 1, k <= Len(o)
          PROVE  o2[k - 1] = o[k]
      <4>1. k - 1 \in 1 .. Len(o) - 1 /\ (k - 1) + 1 = k
        BY <1>1, <3>3
      <4> QED
        BY <3>1, <3>2, <4>1
    <3> QED
      BY <3>1, <3>2, <3>3
  <2> QED
    BY <2>1, <2>2
<1> QED
  BY <1>3, <1>4 DEF Left

(* Taking the oldest event, and its stroke, starts the numbers anew. *)
LEMMA NumbersTail ==
  ASSUME NEW q \in Seq(Event), q # <<>>, NEW o \in Seq(Stroke), NEW n,
         Numbers(n, q, o), NEW o2 \in Seq(Stroke),
         o2 = IF o = <<>> \/ IsAck(q[1]) THEN o ELSE Tail(o)
  PROVE  Numbers(Less(Behind(n), n[1]), Tail(q), o2)
<1> DEFINE p == Less(Behind(n), n[1])
           r == Tail(q)
<1>1. /\ Len(q) \in Nat /\ Len(q) >= 1 /\ Len(r) = Len(q) - 1
      /\ \A i \in 1 .. Len(q) - 1 : r[i] = q[i + 1]
      /\ Len(o) \in Nat
  BY HeadTailProperties, EmptySeq
<1>2. /\ n \in [Nat -> Int] /\ n[0] = 0 /\ Rising(n, Len(q))
      /\ \A i \in 1 .. Len(q) :
           IF IsAck(q[i]) THEN n[i] = n[i - 1]
                          ELSE /\ n[i] = n[i - 1] + 1
                               /\ n[i] <= Len(o)
                               /\ StrokeOf(q[i]) = o[n[i]]
  BY DEF Numbers
<1>4. /\ Len(o2) = Len(o) - n[1]
      /\ \A k \in Int : k > n[1] /\ k <= Len(o) => o2[k - n[1]] = o[k]
  <2>1. Left(o2, o, n[1])
    BY StrokesTail
  <2> QED
    BY <2>1 DEF Left
<1>5. p \in [Nat -> Int] /\ \A i \in Nat : p[i] = n[i + 1] - n[1]
  BY <1>2 DEF Less, Behind
<1> HIDE DEF p, r
<1>6. p[0] = 0
  BY <1>2, <1>5
<1>7. Rising(p, Len(r))
  <2> SUFFICES ASSUME NEW i \in 0 .. Len(q) - 1, NEW j \in 0 .. Len(q) - 1,
                      i <= j
               PROVE  p[i] <= p[j]
    BY <1>1 DEF Rising
  <2>1. /\ i + 1 \in 0 .. Len(q) /\ j + 1 \in 0 .. Len(q) /\ i + 1 <= j + 1
        /\ i \in Nat /\ j \in Nat /\ i + 1 \in Nat /\ j + 1 \in Nat
    BY <1>1
  <2>2. n[i + 1] <= n[j + 1]
    BY <1>2, <2>1 DEF Rising
  <2>3. n[i + 1] \in Int /\ n[j + 1] \in Int /\ n[1] \in Int
    BY <1>2, <2>1
  <2>4. p[i] = n[i + 1] - n[1] /\ p[j] = n[j + 1] - n[1]
    BY <1>5, <2>1
  <2> QED
    BY <2>2, <2>3, <2>4
<1>8. ASSUME NEW i \in 1 .. Len(r)
      PROVE  IF IsAck(r[i]) THEN p[i] = p[i - 1]
                            ELSE /\ p[i] = p[i - 1] + 1
                                 /\ p[i] <= Len(o2)
                                 /\ StrokeOf(r[i]) = o2[p[i]]
  <2>1. /\ i + 1 \in 1 .. Len(q) /\ i \in Nat /\ i - 1 \in Nat
        /\ (i + 1) - 1 = i /\ (i - 1) + 1 = i /\ i + 1 \in Nat
        /\ i \in 0 .. Len(q) /\ 1 \in 0 .. Len(q) /\ 1 <= i
    BY <1>1
  <2>2. n[i] \in Int /\ n[i + 1] \in Int /\ n[1] \in Int /\ n[1] <= n[i]
    BY <1>2, <2>1 DEF Rising
  <2>3. p[i] = n[i + 1] - n[1] /\ p[i - 1] = n[i] - n[1] /\ r[i] = q[i + 1]
    BY <1>1, <1>5, <2>1
  <2>4. IF IsAck(q[i + 1]) THEN n[i + 1] = n[i]
                           ELSE /\ n[i + 1] = n[i] + 1
                                /\ n[i + 1] <= Len(o)
                                /\ StrokeOf(q[i + 1]) = o[n[i + 1]]
    BY <1>2, <2>1
  <2>5. CASE IsAck(q[i + 1])
    BY <2>2, <2>3, <2>4, <2>5
  <2>6. CASE ~IsAck(q[i + 1])
    <3>1. n[i + 1] > n[1] /\ n[i + 1] <= Len(o) /\ n[i + 1] = n[i] + 1
      BY <2>2, <2>4, <2>6
    <3>2. o2[n[i + 1] - n[1]] = o[n[i + 1]]
      BY <1>4, <2>2, <3>1
    <3>3. p[i] = p[i - 1] + 1 /\ p[i] <= Len(o2)
      <4>1. \A x, y, z \in Int, l \in Nat : y = x + 1 /\ y <= l =>
              y - z = (x - z) + 1 /\ y - z <= l - z
        OBVIOUS
      <4>2. /\ n[i + 1] - n[1] = (n[i] - n[1]) + 1
            /\ n[i + 1] - n[1] <= Len(o) - n[1]
        BY <1>1, <2>2, <3>1, <4>1
      <4> QED
        BY <1>4, <2>3, <4>2
    <3> QED
      BY <2>3, <2>4, <2>6, <3>2, <3>3
  <2> QED
    BY <2>5, <2>6
<1>9. Numbers(p, r, o2)
  BY <1>5, <1>6, <1>7, <1>8 DEF Numbers
<1> QED
  BY <1>9 DEF p, r

-----------------------------------------------------------------------------
(* The byte in front is read: the bytes behind it decode as before. *)
LEMMA DecodesTail ==
  ASSUME NEW b \in Seq(Scancode), b # <<>>, NEW ext, NEW o \in Seq(Stroke),
         NEW m, Decodes(m, b, ext, o)
  PROVE  Decodes(Behind(m), Tail(b), b[1] = extended_prefix, o)
<1> DEFINE p == Behind(m)
           r == Tail(b)
           next == b[1] = extended_prefix
<1>1. /\ Len(b) \in Nat /\ Len(b) >= 1 /\ Len(r) = Len(b) - 1
      /\ \A i \in 1 .. Len(b) - 1 : r[i] = b[i + 1]
  BY HeadTailProperties, EmptySeq
<1>2. /\ m \in [Nat -> Int] /\ m[Len(b)] = Len(o) /\ Rising(m, Len(b))
      /\ \A j \in 1 .. Len(b) :
           IF IsKeyByte(b[j]) THEN /\ m[j] = m[j - 1] + 1
                                   /\ m[j] <= Len(o)
                                   /\ DecodesTo(b, ext, j, o[m[j]])
                              ELSE m[j] = m[j - 1]
      /\ PrefixesComplete(b, ext)
  BY DEF Decodes, Counts
<1>3. p \in [Nat -> Int] /\ \A j \in Nat : p[j] = m[j + 1]
  BY <1>2 DEF Behind
<1>4. (next <=> b[1] = extended_prefix) /\ next \in BOOLEAN
  OBVIOUS
<1> HIDE DEF p, r, next
<1>5. p[Len(r)] = Len(o)
  <2>1. Len(r) \in Nat /\ Len(r) + 1 = Len(b)
    BY <1>1
  <2> QED
    BY <1>2, <1>3, <2>1
<1>6. Rising(p, Len(r))
  <2> SUFFICES ASSUME NEW i \in 0 .. Len(b) - 1, NEW j \in 0 .. Len(b) - 1,
                      i <= j
               PROVE  p[i] <= p[j]
    BY <1>1 DEF Rising
  <2>1. /\ i + 1 \in 0 .. Len(b) /\ j + 1 \in 0 .. Len(b) /\ i + 1 <= j + 1
        /\ i \in Nat /\ j \in Nat
    BY <1>1
  <2> QED
    BY <1>2, <1>3, <2>1 DEF Rising
<1>7. ASSUME NEW j \in 1 .. Len(r)
      PROVE  IF IsKeyByte(r[j]) THEN /\ p[j] = p[j - 1] + 1
                                     /\ p[j] <= Len(o)
                                     /\ DecodesTo(r, next, j, o[p[j]])
                                ELSE p[j] = p[j - 1]
  <2>1. /\ j + 1 \in 1 .. Len(b) /\ j \in Nat /\ j - 1 \in Nat
        /\ (j + 1) - 1 = j /\ (j - 1) + 1 = j /\ j + 1 # 1
        /\ j \in 1 .. Len(b) - 1
    BY <1>1
  <2>2. p[j] = m[j + 1] /\ p[j - 1] = m[j] /\ r[j] = b[j + 1]
    BY <1>1, <1>3, <2>1
  <2>3. AfterPrefix(r, next, j) = AfterPrefix(b, ext, j + 1)
    <3>1. AfterPrefix(b, ext, j + 1) = (b[j] = extended_prefix)
      BY <2>1 DEF AfterPrefix
    <3>2. CASE j = 1
      BY <1>4, <3>1, <3>2 DEF AfterPrefix
    <3>3. CASE j # 1
      <4>1. j - 1 \in 1 .. Len(b) - 1 /\ (j - 1) + 1 = j
        BY <2>1, <3>3
      <4>2. r[j - 1] = b[j]
        BY <1>1, <4>1
      <4> QED
        BY <3>1, <3>3, <4>2 DEF AfterPrefix
    <3> QED
      BY <3>2, <3>3
  <2>4. IF IsKeyByte(b[j + 1]) THEN /\ m[j + 1] = m[j] + 1
                                    /\ m[j + 1] <= Len(o)
                                    /\ DecodesTo(b, ext, j + 1, o[m[j + 1]])
                               ELSE m[j + 1] = m[j]
    BY <1>2, <2>1
  <2> QED
    BY <2>2, <2>3, <2>4 DEF DecodesTo
<1>8. PrefixesComplete(r, next)
  <2>1. next => Len(r) > 0 /\ IsKeyByte(r[1])
    <3> SUFFICES ASSUME next PROVE Len(r) > 0 /\ IsKeyByte(r[1])
      OBVIOUS
    <3>1. 1 < Len(b) /\ IsKeyByte(b[1 + 1])
      <4>1. 1 \in 1 .. Len(b) /\ b[1] = extended_prefix
        BY <1>1, <1>4
      <4> QED
        BY <1>2, <4>1 DEF PrefixesComplete
    <3>2. 1 \in 1 .. Len(b) - 1
      BY <1>1, <3>1
    <3> QED
      BY <1>1, <3>1, <3>2
  <2>2. ASSUME NEW j \in 1 .. Len(r), r[j] = extended_prefix
        PROVE  j < Len(r) /\ IsKeyByte(r[j + 1])
    <3>1. j + 1 \in 1 .. Len(b) /\ b[j + 1] = extended_prefix
      BY <1>1, <2>2
    <3>2. j + 1 < Len(b) /\ IsKeyByte(b[(j + 1) + 1])
      BY <1>2, <3>1 DEF PrefixesComplete
    <3>3. j + 1 \in 1 .. Len(b) - 1
      BY <1>1, <3>2
    <3> QED
      BY <1>1, <3>2, <3>3
  <2> QED
    BY <2>1, <2>2 DEF PrefixesComplete
<1>9. Decodes(p, r, next, o)
  BY <1>3, <1>5, <1>6, <1>7, <1>8 DEF Decodes, Counts
<1> QED
  BY <1>9 DEF p, r, next

(* A byte sent after those in flight counts for one stroke or for none. *)
LEMMA CountsAppend ==
  ASSUME NEW b \in Seq(Scancode), NEW ext, NEW o \in Seq(Stroke),
         NEW m, Counts(m, b, ext, o), 0 <= m[0],
         NEW x \in Scancode, NEW o2 \in Seq(Stroke), Len(o) <= Len(o2),
         \A i \in 1 .. Len(o) : o2[i] = o[i],
         IF IsKeyByte(x)
           THEN /\ Len(o2) = Len(o) + 1
                /\ DecodesTo(Append(b, x), ext, Len(b) + 1, o2[Len(o2)])
           ELSE Len(o2) = Len(o)
  PROVE  Counts([m EXCEPT ![Len(b) + 1] = Len(o2)], Append(b, x), ext, o2)
<1> DEFINE p == [m EXCEPT ![Len(b) + 1] = Len(o2)]
           r == Append(b, x)
<1>1. /\ Len(b) \in Nat /\ Len(r) = Len(b) + 1
      /\ r[Len(b) + 1] = x /\ \A i \in 1 .. Len(b) : r[i] = b[i]
      /\ Len(o) \in Nat /\ Len(o2) \in Nat
  OBVIOUS
<1>2. /\ m \in [Nat -> Int] /\ m[Len(b)] = Len(o) /\ Rising(m, Len(b))
      /\ \A j \in 1 .. Len(b) :
           IF IsKeyByte(b[j]) THEN /\ m[j] = m[j - 1] + 1
                                   /\ m[j] <= Len(o)
                                   /\ DecodesTo(b, ext, j, o[m[j]])
                              ELSE m[j] = m[j - 1]
  BY DEF Counts
<1>3. /\ p \in [Nat -> Int] /\ p[Len(b) + 1] = Len(o2)
      /\ \A i \in 0 .. Len(b) : p[i] = m[i]
  BY <1>1, <1>2
<1>4. IF IsKeyByte(x) THEN /\ Len(o2) = Len(o) + 1
                           /\ DecodesTo(r, ext, Len(b) + 1, o2[Len(o2)])
                      ELSE Len(o2) = Len(o)
  OBVIOUS
<1> HIDE DEF p, r
<1>5. Rising(p, Len(r))
  <2> SUFFICES ASSUME NEW i \in 0 .. Len(b) + 1, NEW j \in 0 .. Len(b) + 1,
                      i <= j
               PROVE  p[i] <= p[j]
    BY <1>1 DEF Rising
  <2>1. \A k \in 0 .. Len(b) : m[k] <= Len(o)
    <3>1. Len(b) \in 0 .. Len(b) /\ \A k \in 0 .. Len(b) : k <= Len(b)
      BY <1>1
    <3> QED
      BY <1>2, <3>1 DEF Rising
  <2>2. CASE j \in 0 .. Len(b)
    <3>1. i \in 0 .. Len(b)
      BY <1>1, <2>2
    <3> QED
      BY <1>2, <1>3, <2>2, <3>1 DEF Rising
  <2>3. CASE j = Len(b) + 1 /\ i \in 0 .. Len(b)
    <3>1. m[i] \in Int /\ m[i] <= Len(o)
      BY <1>1, <1>2, <2>1, <2>3
    <3> QED
      BY <1>1, <1>3, <2>3, <3>1
  <2> QED
    BY <1>1, <1>3, <2>2, <2>3
<1>6. ASSUME NEW j \in 1 .. Len(r)
      PROVE  IF IsKeyByte(r[j]) THEN /\ p[j] = p[j - 1] + 1
                                     /\ p[j] <= Len(o2)
                                     /\ DecodesTo(r, ext, j, o2[p[j]])
                                ELSE p[j] = p[j - 1]
  <2>1. CASE j \in 1 .. Len(b)
    <3>0. /\ j \in 0 .. Len(b) /\ j - 1 \in 0 .. Len(b)
          /\ j # 1 => j - 1 \in 1 .. Len(b)
      BY <1>1, <2>1
    <3>1. p[j] = m[j] /\ p[j - 1] = m[j - 1] /\ r[j] = b[j]
      BY <1>1, <1>3, <2>1, <3>0
    <3>2. j # 1 => r[j - 1] = b[j - 1]
      BY <1>1, <3>0
    <3>3. AfterPrefix(r, ext, j) = AfterPrefix(b, ext, j)
      BY <3>2 DEF AfterPrefix
    <3>4. CASE ~IsKeyByte(b[j])
      BY <1>2, <2>1, <3>1, <3>4
    <3>5. CASE IsKeyByte(b[j])
      <4>1. m[j] = m[j - 1] + 1 /\ DecodesTo(b, ext, j, o[m[j]])
            /\ m[j] <= Len(o)
        BY <1>2, <2>1, <3>5
      <4>2. m[j] \in 1 .. Len(o)
        <5>1. /\ 0 \in 0 .. Len(b) /\ j - 1 \in 0 .. Len(b) /\ 0 <= j - 1
              /\ j - 1 \in Nat
          BY <1>1, <2>1
        <5>2. m[0] <= m[j - 1]
          BY <1>2, <5>1 DEF Rising
        <5>3. m[j - 1] \in Int /\ m[0] \in Int
          BY <1>2, <5>1
        <5> QED
          BY <1>1, <4>1, <5>2, <5>3
      <4>3. o2[m[j]] = o[m[j]] /\ m[j] <= Len(o2)
        BY <1>1, <4>2
      <4> QED
        BY <3>1, <3>3, <3>5, <4>1, <4>3 DEF DecodesTo
    <3> QED
      BY <3>4, <3>5
  <2>2. CASE j = Len(b) + 1
    <3>1. p[j] = Len(o2) /\ p[j - 1] = m[Len(b)] /\ r[j] = x
      BY <1>1, <1>3, <2>2
    <3> QED
      BY <1>1, <1>2, <1>4, <2>2, <3>1
  <2> QED
    BY <1>1, <2>1, <2>2
<1>7. p[Len(r)] = Len(o2)
  BY <1>1, <1>3
<1>8. Counts(p, r, ext, o2)
  BY <1>3, <1>5, <1>6, <1>7 DEF Counts
<1> QED
  BY <1>8 DEF p, r

(* A prefix in flight is never the last byte, nor is one awaited then. *)
LEMMA NothingPending ==
  ASSUME NEW b \in Seq(Scancode), NEW ext, PrefixesComplete(b, ext)
  PROVE  IF Len(b) = 0 THEN ~ext ELSE b[Len(b)] # extended_prefix
<1>1. Len(b) \in Nat
  OBVIOUS
<1>2. CASE Len(b) = 0
  BY <1>2 DEF PrefixesComplete
<1>3. CASE Len(b) # 0
  <2>1. Len(b) \in 1 .. Len(b) /\ ~(Len(b) < Len(b))
    BY <1>1, <1>3
  <2> QED
    BY <1>3, <2>1 DEF PrefixesComplete
<1> QED
  BY <1>2, <1>3

(* Nor is it after another byte that is not a prefix. *)
LEMMA CompleteAppend ==
  ASSUME NEW b \in Seq(Scancode), NEW ext, PrefixesComplete(b, ext),
         NEW x \in Scancode, x # extended_prefix
  PROVE  PrefixesComplete(Append(b, x), ext)
<1> DEFINE r == Append(b, x)
<1>1. /\ Len(b) \in Nat /\ Len(r) = Len(b) + 1
      /\ r[Len(b) + 1] = x /\ \A i \in 1 .. Len(b) : r[i] = b[i]
  OBVIOUS
<1> HIDE DEF r
<1>2. ext => Len(r) > 0 /\ IsKeyByte(r[1])
  <2> SUFFICES ASSUME ext PROVE Len(r) > 0 /\ IsKeyByte(r[1])
    OBVIOUS
  <2>1. Len(b) > 0 /\ IsKeyByte(b[1])
    BY DEF PrefixesComplete
  <2>2. 1 \in 1 .. Len(b)
    BY <1>1, <2>1
  <2> QED
    BY <1>1, <2>1, <2>2
<1>3. ASSUME NEW j \in 1 .. Len(r), r[j] = extended_prefix
      PROVE  j < Len(r) /\ IsKeyByte(r[j + 1])
  <2>1. j \in 1 .. Len(b) /\ b[j] = extended_prefix
    BY <1>1, <1>3
  <2>2. j < Len(b) /\ IsKeyByte(b[j + 1])
    BY <2>1 DEF PrefixesComplete
  <2>3. j + 1 \in 1 .. Len(b)
    BY <1>1, <2>1, <2>2
  <2> QED
    BY <1>1, <2>2, <2>3
<1>4. PrefixesComplete(r, ext)
  BY <1>2, <1>3 DEF PrefixesComplete
<1> QED
  BY <1>4 DEF r

(* Nor after a prefix and the byte of its key. *)
LEMMA CompleteAppendTwo ==
  ASSUME NEW b \in Seq(Scancode), NEW ext, PrefixesComplete(b, ext),
         NEW x \in Scancode, IsKeyByte(x)
  PROVE  PrefixesComplete(Append(Append(b, extended_prefix), x), ext)
<1> DEFINE r == Append(Append(b, extended_prefix), x)
<1>0. extended_prefix \in Scancode
  BY DEF extended_prefix, Scancode
<1>1. /\ Len(b) \in Nat /\ Len(r) = Len(b) + 2
      /\ r[Len(b) + 1] = extended_prefix /\ r[Len(b) + 2] = x
      /\ \A i \in 1 .. Len(b) : r[i] = b[i]
  BY <1>0
<1> HIDE DEF r
<1>2. ext => Len(r) > 0 /\ IsKeyByte(r[1])
  <2> SUFFICES ASSUME ext PROVE Len(r) > 0 /\ IsKeyByte(r[1])
    OBVIOUS
  <2>1. Len(b) > 0 /\ IsKeyByte(b[1])
    BY DEF PrefixesComplete
  <2>2. 1 \in 1 .. Len(b)
    BY <1>1, <2>1
  <2> QED
    BY <1>1, <2>1, <2>2
<1>3. ASSUME NEW j \in 1 .. Len(r), r[j] = extended_prefix
      PROVE  j < Len(r) /\ IsKeyByte(r[j + 1])
  <2>1. j # Len(b) + 2
    BY <1>1, <1>3 DEF IsKeyByte
  <2>2. CASE j = Len(b) + 1
    BY <1>1, <2>2
  <2>3. CASE j \in 1 .. Len(b)
    <3>1. j < Len(b) /\ IsKeyByte(b[j + 1])
      BY <1>1, <1>3, <2>3 DEF PrefixesComplete
    <3>2. j + 1 \in 1 .. Len(b)
      BY <1>1, <2>3, <3>1
    <3> QED
      BY <1>1, <3>1, <3>2
  <2> QED
    BY <1>1, <2>1, <2>2, <2>3
<1>4. PrefixesComplete(r, ext)
  BY <1>2, <1>3 DEF PrefixesComplete
<1> QED
  BY <1>4 DEF r

-----------------------------------------------------------------------------
(* A modifier bit belongs to one physical key. *)
LEMMA BitOfOneKey ==
  ASSUME NEW k1 \in PhysicalKeys, NEW k2 \in PhysicalKeys,
         DownBit(KeyOf(k1)) = DownBit(KeyOf(k2)), DownBit(KeyOf(k1)) # "none"
  PROVE  k1 = k2
<1>1. /\ k1 \in [code : Code, extended : BOOLEAN]
      /\ k2 \in [code : Code, extended : BOOLEAN]
  BY PhysicalKeysAssumption
<1>2. KeyOf(k1) = KeyOf(k2) /\ KeyOf(k1) # unknown
  BY DEF DownBit, ExtendedKey, caps_lock, unknown
<1>3. k1.code = k2.code /\ k1.extended = k2.extended
  BY <1>1, <1>2
  DEF KeyOf, map_scancode_set_1_key, ExtendedKey, ExtendedCodes, NormalCodes,
      unknown, Code
<1> QED
  BY <1>1, <1>3

(* The caps lock key is the key of the caps lock bit. *)
LEMMA CapsLockBit ==
  ASSUME NEW key
  PROVE  DownBit(key) = "caps_lock_down" <=> key = caps_lock
  BY DEF DownBit, ExtendedKey, caps_lock

(* The bits of the held keys are down bits, and their only ones. *)
LEMMA HeldBits ==
  ASSUME NEW ks, NEW caps \in BOOLEAN, NEW bit
  PROVE  bit \in HeldModifiers(ks, caps) <=>
           \/ bit \in DownBits /\ \E k \in ks : DownBit(KeyOf(k)) = bit
           \/ bit = "caps_lock_on" /\ caps
  BY DEF HeldModifiers

(* A press turns the modifiers the user expects before it into those       *)
(* expected after it.                                                      *)
LEMMA PressUpdates ==
  ASSUME NEW ks \in SUBSET PhysicalKeys, NEW caps \in BOOLEAN,
         NEW k \in PhysicalKeys, NEW caps2,
         caps2 = IF KeyOf(k) = caps_lock /\ k \notin ks THEN ~caps ELSE caps
  PROVE  HeldModifiers(ks \cup {k}, caps2)
           = update_modifier_state(HeldModifiers(ks, caps), KeyOf(k), "pressed")
<1> DEFINE old == HeldModifiers(ks, caps)
           new == HeldModifiers(ks \cup {k}, caps2)
           d == DownBit(KeyOf(k))
<1>1. caps2 \in BOOLEAN
  OBVIOUS
<1>2. "caps_lock_on" \notin DownBits /\ "none" \notin DownBits
  BY DEF DownBits
<1>3. d \in DownBits \cup {"none"}
  BY DownBitType
<1>4. \A bit \in DownBits :
        bit \in new <=> bit \in old \/ bit = d
  <2> SUFFICES ASSUME NEW bit \in DownBits
               PROVE  bit \in new <=> bit \in old \/ bit = d
    OBVIOUS
  <2>1. bit \in new <=> \E kk \in ks \cup {k} : DownBit(KeyOf(kk)) = bit
    BY <1>1, <1>2, HeldBits
  <2>2. bit \in old <=> \E kk \in ks : DownBit(KeyOf(kk)) = bit
    BY <1>2, HeldBits
  <2> QED
    BY <2>1, <2>2
<1>5. ("caps_lock_on" \in new <=> caps2) /\ ("caps_lock_on" \in old <=> caps)
  BY <1>1, <1>2, HeldBits
<1>6. new \subseteq ModifierBits /\ old \subseteq ModifierBits
  BY HeldModifiersType
<1>7. KeyOf(k) = caps_lock => d = "caps_lock_down"
  BY CapsLockBit
<1>8. KeyOf(k) = caps_lock => (k \in ks <=> "caps_lock_down" \in old)
  <2> SUFFICES ASSUME KeyOf(k) = caps_lock
               PROVE  k \in ks <=> "caps_lock_down" \in old
    OBVIOUS
  <2>1. "caps_lock_down" \in old <=>
          \E kk \in ks : DownBit(KeyOf(kk)) = "caps_lock_down"
    BY HeldBits DEF DownBits
  <2>2. \A kk \in ks : DownBit(KeyOf(kk)) = "caps_lock_down" => kk = k
    BY <1>7, BitOfOneKey
  <2> QED
    BY <1>7, <2>1, <2>2
<1> HIDE DEF old, new, d
<1>9. new = update_modifier_state(old, KeyOf(k), "pressed")
  <2>1. CASE KeyOf(k) = caps_lock /\ "caps_lock_down" \notin old
    <3>1. caps2 = ~caps /\ d = "caps_lock_down"
      BY <1>7, <1>8, <2>1
    <3>2. update_modifier_state(old, KeyOf(k), "pressed")
            = Toggle(old, "caps_lock_on") \cup {d}
      BY <2>1, <3>1 DEF update_modifier_state, d
    <3>3. new = Toggle(old, "caps_lock_on") \cup {d}
      BY <1>2, <1>3, <1>4, <1>5, <1>6, <3>1 DEF Toggle, ModifierBits
    <3> QED
      BY <3>2, <3>3
  <2>2. CASE ~(KeyOf(k) = caps_lock /\ "caps_lock_down" \notin old)
    <3>1. caps2 = caps
      BY <1>8, <2>2
    <3>2. update_modifier_state(old, KeyOf(k), "pressed")
            = IF d = "none" THEN old ELSE old \cup {d}
      BY <2>2 DEF update_modifier_state, d
    <3>3. new = IF d = "none" THEN old ELSE old \cup {d}
      BY <1>2, <1>3, <1>4, <1>5, <1>6, <3>1 DEF ModifierBits
    <3> QED
      BY <3>2, <3>3
  <2> QED
    BY <2>1, <2>2
<1> QED
  BY <1>9 DEF old, new

(* So does a release. *)
LEMMA ReleaseUpdates ==
  ASSUME NEW ks \in SUBSET PhysicalKeys, NEW caps \in BOOLEAN,
         NEW k \in ks
  PROVE  HeldModifiers(ks \ {k}, caps)
           = update_modifier_state(HeldModifiers(ks, caps), KeyOf(k),
                                   "released")
<1> DEFINE old == HeldModifiers(ks, caps)
           new == HeldModifiers(ks \ {k}, caps)
           d == DownBit(KeyOf(k))
<1>1. "caps_lock_on" \notin DownBits /\ "none" \notin DownBits
  BY DEF DownBits
<1>2. d \in DownBits \cup {"none"}
  BY DownBitType
<1>3. \A bit \in DownBits :
        bit \in new <=> bit \in old /\ bit # d
  <2> SUFFICES ASSUME NEW bit \in DownBits
               PROVE  bit \in new <=> bit \in old /\ bit # d
    OBVIOUS
  <2>1. bit \in new <=> \E kk \in ks \ {k} : DownBit(KeyOf(kk)) = bit
    BY <1>1, HeldBits
  <2>2. bit \in old <=> \E kk \in ks : DownBit(KeyOf(kk)) = bit
    BY <1>1, HeldBits
  <2>3. \A kk \in ks : DownBit(KeyOf(kk)) = d /\ d # "none" => kk = k
    BY BitOfOneKey
  <2> QED
    BY <1>1, <2>1, <2>2, <2>3
<1>4. ("caps_lock_on" \in new <=> caps) /\ ("caps_lock_on" \in old <=> caps)
  BY <1>1, HeldBits
<1>5. new \subseteq ModifierBits /\ old \subseteq ModifierBits
  BY HeldModifiersType
<1> HIDE DEF old, new, d
<1>6. new = IF d = "none" THEN old ELSE old \ {d}
  BY <1>1, <1>2, <1>3, <1>4, <1>5 DEF ModifierBits
<1>7. update_modifier_state(old, KeyOf(k), "released")
        = IF d = "none" THEN old ELSE old \ {d}
  BY DEF update_modifier_state, d
<1> QED
  BY <1>6, <1>7 DEF old, new

-----------------------------------------------------------------------------
(* The bounds of the numbers of a trace. *)
LEMMA TraceBounds ==
  ASSUME NEW q \in Seq(Event), NEW b \in Seq(Scancode), NEW o \in Seq(Stroke),
         NEW ext, NEW mods, NEW expected, NEW n, NEW m,
         Traces(n, m, q, b, ext, mods, o, expected)
  PROVE  /\ n \in [Nat -> Int] /\ n[Len(q)] >= 0
         /\ m \in [Nat -> Int] /\ m[0] = n[Len(q)]
         /\ \A j \in 0 .. Len(b) : m[0] <= m[j] /\ m[j] <= Len(o)
<1>1. /\ n \in [Nat -> Int] /\ n[0] = 0 /\ Rising(n, Len(q))
      /\ m \in [Nat -> Int] /\ m[Len(b)] = Len(o) /\ Rising(m, Len(b))
      /\ m[0] = n[Len(q)]
  BY DEF Traces, Numbers, Decodes, Counts
<1>2. /\ Len(q) \in Nat /\ 0 \in 0 .. Len(q) /\ Len(q) \in 0 .. Len(q)
      /\ Len(b) \in Nat /\ 0 \in 0 .. Len(b) /\ Len(b) \in 0 .. Len(b)
  OBVIOUS
<1>3. 0 <= n[Len(q)]
  BY <1>1, <1>2 DEF Rising
<1>4. \A j \in 0 .. Len(b) : m[0] <= m[j] /\ m[j] <= Len(o)
  BY <1>1, <1>2 DEF Rising
<1> QED
  BY <1>1, <1>2, <1>3, <1>4

(* A byte that makes no event is read. *)
LEMMA TracedRead ==
  ASSUME NEW q \in Seq(Event), NEW b \in Seq(Scancode), NEW o \in Seq(Stroke),
         NEW ext \in BOOLEAN, NEW mods, NEW expected,
         Traced(q, b, ext, mods, o, expected),
         b # <<>>, ~IsKeyByte(b[1])
  PROVE  /\ Traced(q, Tail(b), b[1] = extended_prefix, mods, o, expected)
         /\ ~ext
<1>1. PICK n, m : Traces(n, m, q, b, ext, mods, o, expected)
  BY DEF Traced
<1> DEFINE p == Behind(m)
<1>2. Decodes(m, b, ext, o)
  BY <1>1 DEF Traces
<1>3. Decodes(p, Tail(b), b[1] = extended_prefix, o)
  BY <1>2, DecodesTail
<1>4. ~ext
  BY <1>2 DEF Decodes, PrefixesComplete
<1>5. p[0] = m[0]
  <2>1. 1 \in 1 .. Len(b)
    BY EmptySeq
  <2>2. m[1] = m[1 - 1]
    BY <1>2, <2>1 DEF Decodes, Counts
  <2> QED
    BY <2>2 DEF Behind
<1> HIDE DEF p
<1>6. Traces(n, p, q, Tail(b), b[1] = extended_prefix, mods, o, expected)
  BY <1>1, <1>3, <1>5 DEF Traces
<1> QED
  BY <1>4, <1>6 DEF Traced

(* An acknowledge is sent. *)
LEMMA TracedAck ==
  ASSUME NEW q \in Seq(Event), NEW b \in Seq(Scancode), NEW o \in Seq(Stroke),
         NEW ext \in BOOLEAN, NEW mods, NEW expected,
         Traced(q, b, ext, mods, o, expected)
  PROVE  Traced(q, Append(b, keyboard_ack), ext, mods, o, expected)
<1>1. PICK n, m : Traces(n, m, q, b, ext, mods, o, expected)
  BY DEF Traced
<1> DEFINE p == [m EXCEPT ![Len(b) + 1] = Len(o)]
<1>2. Counts(m, b, ext, o) /\ PrefixesComplete(b, ext)
  BY <1>1 DEF Traces, Decodes
<1>3. /\ keyboard_ack \in Scancode /\ ~IsKeyByte(keyboard_ack)
      /\ keyboard_ack # extended_prefix
  BY DEF keyboard_ack, extended_prefix, Scancode, IsKeyByte
<1>4. 0 <= m[0] /\ m \in [Nat -> Int]
  <2>1. n[Len(q)] >= 0 /\ m \in [Nat -> Int] /\ m[0] = n[Len(q)]
    BY <1>1, TraceBounds
  <2> QED
    BY <2>1
<1>5. Len(o) <= Len(o)
  OBVIOUS
<1>6. Counts(p, Append(b, keyboard_ack), ext, o)
  BY <1>2, <1>3, <1>4, <1>5, CountsAppend
<1>7. PrefixesComplete(Append(b, keyboard_ack), ext)
  BY <1>2, <1>3, CompleteAppend
<1>8. p[0] = m[0]
  <2>1. Len(b) + 1 # 0
    OBVIOUS
  <2> QED
    BY <1>4, <2>1
<1> HIDE DEF p
<1>9. Traces(n, p, q, Append(b, keyboard_ack), ext, mods, o, expected)
  BY <1>1, <1>6, <1>7, <1>8 DEF Traces, Decodes
<1> QED
  BY <1>9 DEF Traced

(* A byte is read and its event is appended to the queue. *)
LEMMA TracedHandle ==
  ASSUME NEW q \in Seq(Event), NEW b \in Seq(Scancode), NEW o \in Seq(Stroke),
         NEW ext \in BOOLEAN, NEW mods, NEW expected,
         Traced(q, b, ext, mods, o, expected),
         b # <<>>, b[1] # extended_prefix, NEW e \in Event,
         e.key_code = KeyCode(b[1]), e.state = KeyState(b[1]),
         e.key = map_scancode_set_1_key(e.key_code, ext),
         e.modifiers = update_modifier_state(mods, e.key, e.state)
  PROVE  Traced(Append(q, e), Tail(b), FALSE, e.modifiers, o, expected)
<1>1. PICK n, m : Traces(n, m, q, b, ext, mods, o, expected)
  BY DEF Traced
<1> DEFINE p == Behind(m)
           l == [n EXCEPT ![Len(q) + 1] = m[1]]
           c == m[0]
<1>2. /\ Counts(m, b, ext, o) /\ PrefixesComplete(b, ext)
      /\ Decodes(m, b, ext, o) /\ Numbers(n, q, o) /\ m[0] = n[Len(q)]
      /\ ModifiersFollow(c, mods, o, expected)
  BY <1>1 DEF Traces, Decodes
<1>3. /\ n \in [Nat -> Int] /\ m \in [Nat -> Int]
      /\ c \in Int /\ 0 <= c /\ m[1] <= Len(o) /\ m[1] \in Int
      /\ Len(o) \in Nat /\ Len(q) \in Nat /\ 1 \in 1 .. Len(b)
  <2>1. 1 \in 1 .. Len(b) /\ 1 \in 0 .. Len(b)
    BY EmptySeq
  <2>2. /\ n \in [Nat -> Int] /\ n[Len(q)] >= 0
        /\ m \in [Nat -> Int] /\ m[0] = n[Len(q)]
        /\ \A j \in 0 .. Len(b) : m[0] <= m[j] /\ m[j] <= Len(o)
    BY <1>1, TraceBounds
  <2>3. m[0] \in Int /\ 0 <= m[0] /\ m[1] \in Int
    BY <2>2
  <2>4. m[1] <= Len(o)
    BY <2>1, <2>2
  <2>5. Len(o) \in Nat /\ Len(q) \in Nat
    OBVIOUS
  <2> QED
    BY <2>1, <2>2, <2>3, <2>4, <2>5
<1>4. Decodes(p, Tail(b), FALSE, o)
  <2>1. (b[1] = extended_prefix) = FALSE
    OBVIOUS
  <2>2. Decodes(p, Tail(b), b[1] = extended_prefix, o)
    BY <1>2, DecodesTail
  <2> QED
    BY <2>1, <2>2
<1>5. AfterPrefix(b, ext, 1) = ext
  BY DEF AfterPrefix
<1>6. /\ p[0] = m[1] /\ l[Len(q) + 1] = m[1]
      /\ Len(Append(q, e)) = Len(q) + 1
  BY <1>3 DEF Behind
<1>7. CASE ~IsKeyByte(b[1])
  <2>1. m[1] = c
    <3>1. m[1] = m[1 - 1]
      BY <1>2, <1>3, <1>7 DEF Counts
    <3> QED
      BY <3>1
  <2>2. b[1] = keyboard_ack /\ e.key_code = 122
    BY <1>7 DEF IsKeyByte, keyboard_ack, KeyCode
  <2>3. IsAck(e)
    BY <2>2 DEF IsAck, keyboard_ack, KeyCode
  <2>4. DownBit(e.key) = "none"
    BY <2>2
    DEF map_scancode_set_1_key, ExtendedCodes, NormalCodes, unknown, DownBit,
        ExtendedKey, caps_lock
  <2>5. e.modifiers = mods
    BY <2>4 DEF update_modifier_state
  <2>6. Numbers(l, Append(q, e), o)
    BY <1>2, <1>3, <2>1, <2>3, NumbersAppend
  <2> HIDE DEF p, l
  <2>7. Traces(l, p, Append(q, e), Tail(b), FALSE, e.modifiers, o, expected)
    BY <1>2, <1>4, <1>6, <2>1, <2>5, <2>6 DEF Traces
  <2> QED
    BY <2>7 DEF Traced
<1>8. CASE IsKeyByte(b[1])
  <2>1. m[1] = c + 1 /\ DecodesTo(b, ext, 1, o[m[1]])
    <3>1. m[1] = m[1 - 1] + 1 /\ DecodesTo(b, ext, 1, o[m[1]])
      BY <1>2, <1>3, <1>8 DEF Counts
    <3> QED
      BY <3>1
  <2>2. ~IsAck(e)
    BY <2>1 DEF IsAck, DecodesTo
  <2>3. o[m[1]].key = e.key /\ o[m[1]].state = e.state
    BY <1>5, <2>1 DEF DecodesTo
  <2>4. m[1] \in 1 .. Len(o) /\ m[1] > c /\ m[1] - 1 = c
    <3>1. \A x, y \in Int, last \in Nat :
            y = x + 1 /\ 0 <= x /\ y <= last =>
              y \in 1 .. last /\ y > x /\ y - 1 = x
      OBVIOUS
    <3> HIDE DEF c
    <3> QED
      BY <1>3, <2>1, <3>1
  <2>5. o[m[1]].modifiers = e.modifiers
    <3>1. o[m[1]].modifiers = update_modifier_state(
            ModifiersAfter(m[1] - 1, c, mods, o), o[m[1]].key, o[m[1]].state)
      BY <1>2, <2>4 DEF ModifiersFollow
    <3>2. ModifiersAfter(m[1] - 1, c, mods, o) = mods
      BY <2>4 DEF ModifiersAfter
    <3> QED
      BY <2>3, <3>1, <3>2
  <2>6. o[m[1]] \in Stroke
    BY <2>4
  <2>7. StrokeOf(e) = o[m[1]]
    BY <2>3, <2>5, <2>6 DEF StrokeOf, Stroke
  <2>8. Numbers(l, Append(q, e), o)
    BY <1>2, <1>3, <2>1, <2>2, <2>7, NumbersAppend
  <2>9. ModifiersFollow(m[1], e.modifiers, o, expected)
    <3>1. ASSUME NEW k \in 0 .. Len(o), k >= m[1]
          PROVE  ModifiersAfter(k, m[1], e.modifiers, o)
                   = ModifiersAfter(k, c, mods, o)
      <4>1. k # c
        BY <1>3, <2>4, <3>1
      <4> QED
        BY <2>5, <4>1 DEF ModifiersAfter
    <3>2. ASSUME NEW k \in 1 .. Len(o), k > m[1]
          PROVE  o[k].modifiers = update_modifier_state(
                   ModifiersAfter(k - 1, m[1], e.modifiers, o),
                   o[k].key, o[k].state)
      <4>1. k > c /\ k - 1 \in 0 .. Len(o) /\ k - 1 >= m[1]
        <5>1. \A x, y \in Int, last \in Nat : \A z \in 1 .. last :
                z > y /\ y > x => z > x /\ z - 1 \in 0 .. last /\ z - 1 >= y
          OBVIOUS
        <5> HIDE DEF c
        <5> QED
          BY <1>3, <2>4, <3>2, <5>1
      <4> QED
        BY <1>2, <3>1, <4>1 DEF ModifiersFollow
    <3>3. ModifiersAfter(Len(o), m[1], e.modifiers, o) = expected
      <4>1. Len(o) \in 0 .. Len(o) /\ Len(o) >= m[1]
        BY <1>3
      <4> QED
        BY <1>2, <3>1, <4>1 DEF ModifiersFollow
    <3> QED
      BY <3>2, <3>3 DEF ModifiersFollow
  <2> HIDE DEF p, l
  <2>10. Traces(l, p, Append(q, e), Tail(b), FALSE, e.modifiers, o, expected)
    BY <1>4, <1>6, <2>8, <2>9 DEF Traces
  <2> QED
    BY <2>10 DEF Traced
<1> QED
  BY <1>7, <1>8

(* The first d strokes are taken: the bytes in flight count on from there. *)
LEMMA CountsTake ==
  ASSUME NEW b \in Seq(Scancode), NEW ext, NEW o \in Seq(Stroke),
         NEW o2 \in Seq(Stroke), NEW d \in Nat, Left(o2, o, d),
         NEW total, total = Len(o),
         NEW m \in [Nat -> Int], Counts(m, b, ext, o),
         \A j \in 0 .. Len(b) : d <= m[j] /\ m[j] <= total
  PROVE  Counts(Less(m, d), b, ext, o2)
<1> DEFINE p == Less(m, d)
<1>1. /\ Len(b) \in Nat /\ total \in Nat /\ Len(o2) = total - d
      /\ \A k \in Int : k > d /\ k <= total => o2[k - d] = o[k]
  BY DEF Left
<1>2. p \in [Nat -> Int] /\ \A j \in Nat : p[j] = m[j] - d
  BY DEF Less
<1> HIDE DEF p
<1>3. ASSUME NEW j \in 0 .. Len(b)
      PROVE  j \in Nat /\ m[j] \in Int /\ p[j] = m[j] - d
  <2>1. j \in Nat
    BY <1>1
  <2> QED
    BY <1>2, <2>1
<1>4. p[Len(b)] = Len(o2)
  <2>1. m[Len(b)] = total /\ Len(b) \in 0 .. Len(b)
    BY <1>1 DEF Counts
  <2> QED
    BY <1>1, <1>3, <2>1
<1>5. Rising(p, Len(b))
  <2> SUFFICES ASSUME NEW i \in 0 .. Len(b), NEW j \in 0 .. Len(b), i <= j
               PROVE  p[i] <= p[j]
    BY DEF Rising
  <2>1. m[i] <= m[j]
    BY DEF Counts, Rising
  <2>2. \A x, y \in Int : x <= y => x - d <= y - d
    OBVIOUS
  <2> QED
    BY <1>3, <2>1, <2>2
<1>6. ASSUME NEW j \in 1 .. Len(b)
      PROVE  IF IsKeyByte(b[j]) THEN /\ p[j] = p[j - 1] + 1
                                     /\ p[j] <= Len(o2)
                                     /\ DecodesTo(b, ext, j, o2[p[j]])
                                ELSE p[j] = p[j - 1]
  <2>1. j \in 0 .. Len(b) /\ j - 1 \in 0 .. Len(b)
    BY <1>1
  <2>2. /\ m[j] \in Int /\ m[j - 1] \in Int
        /\ p[j] = m[j] - d /\ p[j - 1] = m[j - 1] - d
    BY <1>3, <2>1
  <2>3. m[j] <= total /\ d <= m[j - 1]
    BY <2>1
  <2>4. CASE ~IsKeyByte(b[j])
    BY <2>2, <2>4 DEF Counts
  <2>5. CASE IsKeyByte(b[j])
    <3>1. m[j] = m[j - 1] + 1 /\ DecodesTo(b, ext, j, o[m[j]])
      BY <2>5 DEF Counts
    <3>2. \A x, y \in Int : y = x + 1 /\ y <= total /\ d <= x =>
            y > d /\ y - d = (x - d) + 1 /\ y - d <= total - d
      BY <1>1
    <3>3. /\ m[j] > d /\ m[j] - d = (m[j - 1] - d) + 1
          /\ m[j] - d <= total - d
      BY <2>2, <2>3, <3>1, <3>2
    <3>4. o2[m[j] - d] = o[m[j]]
      BY <1>1, <2>2, <2>3, <3>3
    <3> QED
      BY <1>1, <2>2, <2>5, <3>1, <3>3, <3>4 DEF DecodesTo
  <2> QED
    BY <2>4, <2>5
<1>7. Counts(p, b, ext, o2)
  BY <1>2, <1>4, <1>5, <1>6 DEF Counts
<1> QED
  BY <1>7 DEF p

(* The modifiers that follow are those of the strokes that are left. *)
LEMMA FollowTake ==
  ASSUME NEW o \in Seq(Stroke), NEW o2 \in Seq(Stroke), NEW d \in Nat,
         Left(o2, o, d),
         NEW total, total = Len(o), NEW left, left = Len(o2),
         NEW c \in Int, d <= c, c <= total, NEW mods, NEW expected,
         ModifiersFollow(c, mods, o, expected)
  PROVE  ModifiersFollow(c - d, mods, o2, expected)
<1>1. /\ total \in Nat /\ left \in Nat /\ left = total - d
      /\ \A k \in Int : k > d /\ k <= total => o2[k - d] = o[k]
  BY DEF Left
<1>2. ASSUME NEW k \in 0 .. left, k >= c - d
      PROVE  ModifiersAfter(k, c - d, mods, o2)
               = ModifiersAfter(k + d, c, mods, o)
  <2>1. k + d \in Int /\ k + d <= total /\ (k + d) - d = k
    BY <1>1
  <2>2. k = c - d <=> k + d = c
    BY <1>1
  <2>3. CASE k = c - d
    BY <2>2, <2>3 DEF ModifiersAfter
  <2>4. CASE k # c - d
    <3>1. k + d > d
      BY <1>1, <1>2, <2>4
    <3>2. o2[(k + d) - d] = o[k + d]
      BY <1>1, <2>1, <3>1
    <3> QED
      BY <2>1, <2>2, <2>4, <3>2 DEF ModifiersAfter
  <2> QED
    BY <2>3, <2>4
<1>3. ASSUME NEW k \in 1 .. left, k > c - d
      PROVE  o2[k].modifiers = update_modifier_state(
               ModifiersAfter(k - 1, c - d, mods, o2), o2[k].key, o2[k].state)
  <2>1. /\ k + d \in 1 .. total /\ k + d > c /\ k + d > d
        /\ (k + d) - d = k /\ (k + d) - 1 = (k - 1) + d
        /\ k + d \in Int /\ k + d <= total
    BY <1>1, <1>3
  <2>2. k - 1 \in 0 .. left /\ k - 1 >= c - d
    BY <1>1, <1>3
  <2>3. o2[(k + d) - d] = o[k + d]
    BY <1>1, <2>1
  <2>4. o[k + d].modifiers = update_modifier_state(
          ModifiersAfter((k + d) - 1, c, mods, o), o[k + d].key,
          o[k + d].state)
    BY <2>1 DEF ModifiersFollow
  <2> QED
    BY <1>2, <2>1, <2>2, <2>3, <2>4
<1>4. ModifiersAfter(left, c - d, mods, o2) = expected
  <2>1. left + d = total /\ left \in 0 .. left /\ left >= c - d
    BY <1>1
  <2>2. ModifiersAfter(total, c, mods, o) = expected
    BY DEF ModifiersFollow
  <2> QED
    BY <1>2, <2>1, <2>2
<1> QED
  BY <1>3, <1>4 DEF ModifiersFollow

(* The oldest event is taken, and the stroke it was made of with it. *)
LEMMA TracedTake ==
  ASSUME NEW q \in Seq(Event), NEW b \in Seq(Scancode), NEW o \in Seq(Stroke),
         NEW ext \in BOOLEAN, NEW mods, NEW expected,
         Traced(q, b, ext, mods, o, expected), q # <<>>, NEW o2,
         o2 = IF o = <<>> \/ IsAck(q[1]) THEN o ELSE Tail(o)
  PROVE  Traced(Tail(q), b, ext, mods, o2, expected)
<1>1. PICK n, m : Traces(n, m, q, b, ext, mods, o, expected)
  BY DEF Traced
<1> DEFINE d == n[1]
           c == m[0]
           l == Less(Behind(n), n[1])
           p == Less(m, n[1])
           total == Len(o)
<1>2. /\ Counts(m, b, ext, o) /\ PrefixesComplete(b, ext)
      /\ Numbers(n, q, o) /\ m[0] = n[Len(q)]
      /\ ModifiersFollow(c, mods, o, expected)
  BY <1>1 DEF Traces, Decodes
<1>3. o2 \in Seq(Stroke)
  BY HeadTailProperties
<1>4. Numbers(l, Tail(q), o2) /\ d \in Nat /\ Left(o2, o, d)
  BY <1>2, <1>3, NumbersTail, StrokesTail
<1>5. /\ Len(q) \in Nat /\ Len(q) >= 1 /\ Len(Tail(q)) = Len(q) - 1
      /\ Len(b) \in Nat /\ total \in Nat /\ total = Len(o)
  BY HeadTailProperties, EmptySeq
<1>6. /\ n \in [Nat -> Int] /\ m \in [Nat -> Int]
      /\ \A j \in 0 .. Len(b) : c <= m[j] /\ m[j] <= total
  BY <1>1, TraceBounds
<1>7. d \in Nat
  BY <1>4
<1>8. c >= d /\ c \in Int
  <2>1. 1 \in 0 .. Len(q) /\ Len(q) \in 0 .. Len(q)
    BY <1>5
  <2>2. n[1] <= n[Len(q)]
    BY <1>2, <1>5, <2>1 DEF Numbers, Rising
  <2>3. n[Len(q)] \in Int
    BY <1>5, <1>6
  <2> QED
    BY <1>2, <2>2, <2>3
<1>9. /\ p[0] = c - d
      /\ l[Len(Tail(q))] = c - d
  <2>1. Len(Tail(q)) \in Nat /\ Len(Tail(q)) + 1 = Len(q)
    BY <1>5
  <2> QED
    BY <1>2, <2>1 DEF Less, Behind
<1>10. p = Less(m, d)
  OBVIOUS
<1> HIDE DEF d, c, l, p, total
<1>11. \A j \in 0 .. Len(b) : d <= m[j] /\ m[j] <= total
  <2> SUFFICES ASSUME NEW j \in 0 .. Len(b)
               PROVE  d <= m[j] /\ m[j] <= total
    OBVIOUS
  <2>1. c <= m[j] /\ m[j] <= total /\ m[j] \in Int
    BY <1>5, <1>6
  <2> QED
    BY <1>7, <1>8, <2>1
<1>12. Counts(p, b, ext, o2)
  <2>1. Counts(Less(m, d), b, ext, o2)
    BY <1>2, <1>3, <1>4, <1>5, <1>6, <1>7, <1>11, CountsTake
  <2> QED
    BY <1>10, <2>1
<1>13. ModifiersFollow(c - d, mods, o2, expected)
  <2>1. c <= total
    <3>1. 0 \in 0 .. Len(b)
      BY <1>5
    <3> QED
      BY <1>6, <3>1 DEF c
  <2> QED
    BY <1>2, <1>3, <1>4, <1>5, <1>7, <1>8, <2>1, FollowTake
<1>14. Traces(l, p, Tail(q), b, ext, mods, o2, expected)
  BY <1>2, <1>4, <1>9, <1>12, <1>13 DEF Traces, Decodes
<1> QED
  BY <1>14 DEF Traced

(* A stroke is made with the modifiers that follow the one before. *)
LEMMA FollowAppend ==
  ASSUME NEW o \in Seq(Stroke), NEW c \in Int, 0 <= c, c <= Len(o), NEW mods,
         NEW expected, ModifiersFollow(c, mods, o, expected),
         NEW s \in Stroke,
         s.modifiers = update_modifier_state(expected, s.key, s.state)
  PROVE  ModifiersFollow(c, mods, Append(o, s), s.modifiers)
<1> DEFINE o2 == Append(o, s)
           last == Len(o)
<1>1. /\ last \in Nat /\ Len(o2) = last + 1 /\ o2[last + 1] = s
      /\ \A k \in 1 .. last : o2[k] = o[k]
      /\ last = Len(o) /\ c <= last
  OBVIOUS
<1> HIDE DEF o2, last
<1>2. ASSUME NEW k \in 0 .. last, k >= c
      PROVE  ModifiersAfter(k, c, mods, o2) = ModifiersAfter(k, c, mods, o)
  <2>1. CASE k = c
    BY <2>1 DEF ModifiersAfter
  <2>2. CASE k # c
    <3>1. k \in 1 .. last
      BY <1>1, <1>2, <2>2
    <3> QED
      BY <1>1, <2>2, <3>1 DEF ModifiersAfter
  <2> QED
    BY <2>1, <2>2
<1>3. ModifiersAfter(last, c, mods, o2) = expected
  <2>1. last \in 0 .. last /\ last >= c
    BY <1>1
  <2> QED
    BY <1>2, <2>1, <1>1 DEF ModifiersFollow
<1>4. ASSUME NEW k \in 1 .. last + 1, k > c
      PROVE  o2[k].modifiers = update_modifier_state(
               ModifiersAfter(k - 1, c, mods, o2), o2[k].key, o2[k].state)
  <2>1. CASE k = last + 1
    <3>1. k - 1 = last
      BY <1>1, <2>1
    <3> QED
      BY <1>1, <1>3, <2>1, <3>1
  <2>2. CASE k \in 1 .. last
    <3>1. k - 1 \in 0 .. last /\ k - 1 >= c
      BY <1>1, <1>4, <2>2
    <3>2. o[k].modifiers = update_modifier_state(
            ModifiersAfter(k - 1, c, mods, o), o[k].key, o[k].state)
      BY <1>1, <1>4, <2>2 DEF ModifiersFollow
    <3> QED
      BY <1>1, <1>2, <2>2, <3>1, <3>2
  <2> QED
    BY <1>1, <2>1, <2>2
<1>5. ModifiersAfter(last + 1, c, mods, o2) = s.modifiers
  <2>1. last + 1 # c
    BY <1>1
  <2> QED
    BY <1>1, <2>1 DEF ModifiersAfter
<1>6. ModifiersFollow(c, mods, o2, s.modifiers)
  BY <1>1, <1>4, <1>5 DEF ModifiersFollow
<1> QED
  BY <1>6 DEF o2

(* The last byte of a key is neither a prefix nor an acknowledge, and      *)
(* holds the key's code and the stroke's state.                            *)
LEMMA LastByte ==
  ASSUME NEW k \in PhysicalKeys, NEW state \in State, NEW x,
         x = IF state = "pressed" THEN k.code ELSE k.code + 128
  PROVE  /\ x \in Scancode /\ IsKeyByte(x)
         /\ KeyCode(x) = k.code /\ KeyState(x) = state
         /\ KeyCode(x) # KeyCode(keyboard_ack)
<1>1. k.code \in Code
  BY PhysicalKeysAssumption
<1>2. k.code # 96 /\ k.code # 122
  BY KeyBytesAssumption DEF KeyCode, extended_prefix, keyboard_ack
<1>3. KeyCode(keyboard_ack) = 122
  BY DEF KeyCode, keyboard_ack
<1>4. CASE state = "pressed"
  BY <1>1, <1>2, <1>3, <1>4
  DEF Code, Scancode, IsKeyByte, KeyCode, KeyState, extended_prefix,
      keyboard_ack
<1>5. CASE state = "released"
  BY <1>1, <1>2, <1>3, <1>5
  DEF Code, Scancode, IsKeyByte, KeyCode, KeyState, extended_prefix,
      keyboard_ack
<1> QED
  BY <1>4, <1>5 DEF State

(* The bytes of an extended key, and those of a plain one. *)
LEMMA ShortConcat ==
  ASSUME NEW x \in Scancode, NEW y \in Scancode
  PROVE  <<y>> \o <<x>> = <<y, x>> /\ <<>> \o <<x>> = <<x>>
<1>1. <<x>> \in Seq(Scancode) /\ <<y>> \in Seq(Scancode)
  OBVIOUS
<1>2. <<>> \o <<x>> = <<x>>
  BY <1>1, ConcatEmptySeq
<1>3. <<y>> \o <<x>> = Append(<<y>>, x)
  BY <1>1, AppendIsConcat
<1>4. Append(<<y>>, x) = <<y, x>>
  <2> DEFINE s == Append(<<y>>, x)
             t == <<y, x>>
  <2>1. s \in Seq(Scancode) /\ Len(s) = 2 /\ s[1] = y /\ s[2] = x
    BY <1>1
  <2>2. t \in Seq(Scancode) /\ Len(t) = 2 /\ t[1] = y /\ t[2] = x
    OBVIOUS
  <2> HIDE DEF s, t
  <2>3. s = t
    BY <2>1, <2>2, SeqEqual
  <2> QED
    BY <2>3 DEF s, t
<1> QED
  BY <1>2, <1>3, <1>4

(* A stroke is made: its bytes are sent after those in flight. *)
LEMMA TracedType ==
  ASSUME NEW q \in Seq(Event), NEW b \in Seq(Scancode), NEW o \in Seq(Stroke),
         NEW ext \in BOOLEAN, NEW mods, NEW expected,
         Traced(q, b, ext, mods, o, expected),
         NEW k \in PhysicalKeys, NEW state \in State,
         NEW s \in Stroke, s.key = KeyOf(k), s.state = state,
         s.modifiers = update_modifier_state(expected, s.key, s.state)
  PROVE  Traced(q, b \o Bytes(k, state), ext, mods, Append(o, s), s.modifiers)
<1>1. PICK n, m : Traces(n, m, q, b, ext, mods, o, expected)
  BY DEF Traced
<1> DEFINE x == IF state = "pressed" THEN k.code ELSE k.code + 128
           o2 == Append(o, s)
<1>2. /\ Counts(m, b, ext, o) /\ PrefixesComplete(b, ext)
      /\ Numbers(n, q, o) /\ m[0] = n[Len(q)]
      /\ ModifiersFollow(m[0], mods, o, expected)
  BY <1>1 DEF Traces, Decodes
<1>3. /\ x \in Scancode /\ IsKeyByte(x)
      /\ KeyCode(x) = k.code /\ KeyState(x) = state
      /\ KeyCode(x) # KeyCode(keyboard_ack)
  BY LastByte
<1>4. k.code \in Code /\ k.extended \in BOOLEAN
  BY PhysicalKeysAssumption
<1>5. /\ Bytes(k, state) = IF k.extended THEN <<extended_prefix, x>> ELSE <<x>>
      /\ extended_prefix \in Scancode /\ ~IsKeyByte(extended_prefix)
  <2>1. extended_prefix \in Scancode /\ ~IsKeyByte(extended_prefix)
    BY DEF extended_prefix, Scancode, IsKeyByte
  <2>2. Bytes(k, state) = (IF k.extended THEN <<extended_prefix>> ELSE <<>>)
                            \o <<x>>
    BY DEF Bytes
  <2> HIDE DEF x
  <2>3. /\ <<extended_prefix>> \o <<x>> = <<extended_prefix, x>>
        /\ <<>> \o <<x>> = <<x>>
    BY <1>3, <2>1, ShortConcat
  <2> QED
    BY <2>1, <2>2, <2>3
<1> HIDE DEF x
<1>6. /\ m \in [Nat -> Int] /\ m[0] \in Int /\ 0 <= m[0] /\ m[0] <= Len(o)
      /\ n \in [Nat -> Int] /\ Len(b) \in Nat
  <2>1. 0 \in 0 .. Len(b) /\ Len(q) \in Nat
    OBVIOUS
  <2>2. /\ n \in [Nat -> Int] /\ n[Len(q)] >= 0
        /\ m \in [Nat -> Int] /\ m[0] = n[Len(q)]
        /\ \A j \in 0 .. Len(b) : m[0] <= m[j] /\ m[j] <= Len(o)
    BY <1>1, TraceBounds
  <2> QED
    BY <2>1, <2>2
<1>7. /\ o2 \in Seq(Stroke) /\ Len(o2) = Len(o) + 1 /\ o2[Len(o2)] = s
      /\ \A i \in 1 .. Len(o) : o2[i] = o[i]
      /\ Len(o) <= Len(o2) /\ Len(o) <= Len(o)
  OBVIOUS
<1>8. ModifiersFollow(m[0], mods, o2, s.modifiers)
  BY <1>2, <1>6, FollowAppend
<1> HIDE DEF o2
<1>9. Numbers(n, q, o2)
  <2>1. ASSUME NEW i \in 1 .. Len(q)
        PROVE  IF IsAck(q[i]) THEN n[i] = n[i - 1]
                              ELSE /\ n[i] = n[i - 1] + 1
                                   /\ n[i] <= Len(o2)
                                   /\ StrokeOf(q[i]) = o2[n[i]]
    <3>1. CASE IsAck(q[i])
      BY <1>2, <3>1 DEF Numbers
    <3>2. CASE ~IsAck(q[i])
      <4>1. n[i] = n[i - 1] + 1 /\ n[i] <= Len(o) /\ StrokeOf(q[i]) = o[n[i]]
        BY <1>2, <3>2 DEF Numbers
      <4>2. /\ i - 1 \in Nat /\ i - 1 \in 0 .. Len(q) /\ 0 \in 0 .. Len(q)
            /\ 0 <= i - 1 /\ i \in Nat
        OBVIOUS
      <4>3. n[i - 1] >= n[0] /\ n[0] = 0
        BY <1>2, <4>2 DEF Numbers, Rising
      <4>4. n[i] \in 1 .. Len(o)
        <5>1. n[i] \in Int /\ n[i - 1] \in Int
          BY <1>6, <4>2
        <5>2. Len(o) \in Nat
          OBVIOUS
        <5> QED
          BY <4>1, <4>3, <5>1, <5>2
      <4> QED
        BY <1>7, <3>2, <4>1, <4>4
    <3> QED
      BY <3>1, <3>2
  <2> QED
    BY <1>2, <2>1 DEF Numbers
<1>10. CASE ~k.extended
  <2> DEFINE p == [m EXCEPT ![Len(b) + 1] = Len(o2)]
             r == Append(b, x)
  <2>1. b \o Bytes(k, state) = r
    BY <1>3, <1>5, <1>10
  <2>2. DecodesTo(r, ext, Len(b) + 1, s)
    <3>1. r[Len(b) + 1] = x /\ \A i \in 1 .. Len(b) : r[i] = b[i]
      BY <1>3
    <3>2. AfterPrefix(r, ext, Len(b) + 1) = FALSE
      <4>1. CASE Len(b) = 0
        <5>1. ext = FALSE
          BY <1>2, <4>1, NothingPending
        <5> QED
          BY <4>1, <5>1 DEF AfterPrefix
      <4>2. CASE Len(b) # 0
        <5>1. b[Len(b)] # extended_prefix
          BY <1>2, <4>2, NothingPending
        <5>2. /\ Len(b) \in 1 .. Len(b) /\ Len(b) + 1 # 1
              /\ (Len(b) + 1) - 1 = Len(b)
          <6>1. \A l \in Nat : l # 0 =>
                  l \in 1 .. l /\ l + 1 # 1 /\ (l + 1) - 1 = l
            OBVIOUS
          <6> QED
            BY <1>6, <4>2, <6>1
        <5> QED
          BY <3>1, <5>1, <5>2 DEF AfterPrefix
      <4> QED
        BY <4>1, <4>2
    <3>3. s.key = map_scancode_set_1_key(k.code, FALSE)
      BY <1>4, <1>10 DEF KeyOf
    <3> QED
      BY <1>3, <3>1, <3>2, <3>3 DEF DecodesTo
  <2>3. Counts(p, r, ext, o2)
    BY <1>2, <1>3, <1>6, <1>7, <2>2, CountsAppend
  <2>4. PrefixesComplete(r, ext)
    BY <1>2, <1>3, CompleteAppend DEF IsKeyByte
  <2>5. p[0] = m[0]
    BY <1>6
  <2> HIDE DEF p, r
  <2>6. Traces(n, p, q, r, ext, mods, o2, s.modifiers)
    BY <1>2, <1>8, <1>9, <2>3, <2>4, <2>5 DEF Traces, Decodes
  <2> QED
    BY <2>1, <2>6 DEF Traced, o2
<1>11. CASE k.extended
  <2> DEFINE p1 == [m EXCEPT ![Len(b) + 1] = Len(o)]
             b1 == Append(b, extended_prefix)
             p == [p1 EXCEPT ![Len(b1) + 1] = Len(o2)]
             r == Append(b1, x)
  <2>1. b \o Bytes(k, state) = r
    BY <1>3, <1>5, <1>11
  <2>2. Counts(p1, b1, ext, o)
    BY <1>2, <1>5, <1>6, <1>7, CountsAppend
  <2>3. /\ b1 \in Seq(Scancode) /\ Len(b1) = Len(b) + 1
        /\ b1[Len(b1)] = extended_prefix
        /\ p1 \in [Nat -> Int] /\ p1[0] = m[0]
    <3>1. /\ b1 \in Seq(Scancode) /\ Len(b1) = Len(b) + 1
          /\ b1[Len(b) + 1] = extended_prefix
      BY <1>5
    <3>2. Len(b) + 1 # 0 /\ Len(o) \in Int
      BY <1>6, <1>7
    <3>3. p1 \in [Nat -> Int] /\ p1[0] = m[0]
      BY <1>6, <3>2
    <3> QED
      BY <3>1, <3>3
  <2>4. PrefixesComplete(r, ext)
    BY <1>2, <1>3, CompleteAppendTwo
  <2> HIDE DEF p1, b1
  <2>5. DecodesTo(r, ext, Len(b1) + 1, s)
    <3>1. /\ r[Len(b1) + 1] = x /\ \A i \in 1 .. Len(b1) : r[i] = b1[i]
          /\ Len(b1) \in 1 .. Len(b1) /\ Len(b1) + 1 # 1
          /\ (Len(b1) + 1) - 1 = Len(b1)
      <4>1. Len(b1) \in Nat /\ Len(b1) >= 1
        BY <1>6, <2>3
      <4>2. r[Len(b1) + 1] = x /\ \A i \in 1 .. Len(b1) : r[i] = b1[i]
        BY <1>3, <2>3
      <4>3. /\ Len(b1) \in 1 .. Len(b1) /\ Len(b1) + 1 # 1
            /\ (Len(b1) + 1) - 1 = Len(b1)
        BY <4>1
      <4> QED
        BY <4>2, <4>3
    <3>2. AfterPrefix(r, ext, Len(b1) + 1) = TRUE
      BY <2>3, <3>1 DEF AfterPrefix
    <3>3. s.key = map_scancode_set_1_key(k.code, TRUE)
      BY <1>4, <1>11 DEF KeyOf
    <3> QED
      BY <1>3, <3>1, <3>2, <3>3 DEF DecodesTo
  <2>6. Counts(p, r, ext, o2)
    BY <1>3, <1>6, <1>7, <2>2, <2>3, <2>5, CountsAppend
  <2>7. p[0] = m[0]
    BY <1>6, <2>3
  <2> HIDE DEF p, r
  <2>8. Traces(n, p, q, r, ext, mods, o2, s.modifiers)
    BY <1>2, <1>8, <1>9, <2>4, <2>6, <2>7 DEF Traces, Decodes
  <2> QED
    BY <2>1, <2>8 DEF Traced, o2
<1> QED
  BY <1>4, <1>10, <1>11

-----------------------------------------------------------------------------
(* The byte in front is the one in the output buffer. *)
LEMMA InFlightShape ==
  ASSUME IInv
  PROVE  /\ InFlight \in Seq(Scancode) /\ wire \in Seq(Scancode)
         /\ out_buffer = NoByte => InFlight = wire
         /\ out_buffer # NoByte =>
              /\ InFlight # <<>> /\ InFlight[1] = out_buffer
              /\ Tail(InFlight) = wire
<1>1. wire \in Seq(Scancode) /\ out_buffer \in Scancode \cup {NoByte}
  BY DEF IInv, TypeOK
<1>2. CASE out_buffer = NoByte
  BY <1>1, <1>2, ConcatEmptySeq DEF InFlight
<1>3. CASE out_buffer # NoByte
  <2>1. out_buffer \in Scancode /\ InFlight = <<out_buffer>> \o wire
    BY <1>1, <1>3 DEF InFlight
  <2>2. /\ InFlight \in Seq(Scancode) /\ Len(InFlight) = Len(wire) + 1
        /\ InFlight[1] = out_buffer
        /\ \A i \in 1 .. Len(wire) : InFlight[i + 1] = wire[i]
    BY <1>1, <2>1
  <2>3. InFlight # <<>>
    BY <1>1, <2>2
  <2>4. /\ Tail(InFlight) \in Seq(Scancode)
        /\ Len(Tail(InFlight)) = Len(wire)
        /\ \A i \in 1 .. Len(wire) : Tail(InFlight)[i] = InFlight[i + 1]
    BY <1>1, <2>2, <2>3, HeadTailProperties
  <2>5. Tail(InFlight) = wire
    BY <1>1, <2>2, <2>4, SeqEqual
  <2> QED
    BY <1>1, <1>3, <2>2, <2>3, <2>5
<1> QED
  BY <1>1, <1>2, <1>3

(* What the trace is about, in the types of the lemmas. *)
LEMMA TraceTypes ==
  ASSUME IInv
  PROVE  /\ Queue \in Seq(Event) /\ InFlight \in Seq(Scancode)
         /\ outstanding \in Seq(Stroke) /\ extended_pending \in BOOLEAN
         /\ held \in SUBSET PhysicalKeys /\ caps_on \in BOOLEAN
  BY QueueShape, InFlightShape DEF IInv, TypeOK

Trace == Traced(Queue, InFlight, extended_pending, modifiers, outstanding,
                HeldModifiers(held, caps_on))

(* In the first state there is at most an acknowledge, and no stroke. *)
LEMMA InitFaithful == Init => Faithful
<1> SUFFICES ASSUME Init PROVE Faithful
  OBVIOUS
<1> DEFINE zero == [i \in Nat |-> 0]
<1>1. IInv
  BY InitInvariant
<1>2. Len(Queue) = 0
  <2>1. QueueLength = 0
    BY DEF Init, QueueLength
  <2> QED
    BY <1>1, <2>1, QueueShape
<1>3. /\ outstanding = <<>> /\ Len(outstanding) = 0 /\ wire = <<>>
      /\ extended_pending = FALSE
      /\ out_buffer = NoByte \/ out_buffer = keyboard_ack
  BY DEF Init
<1>4. InFlight = <<>> \/ InFlight = <<keyboard_ack>>
  BY <1>1, <1>3, ConcatEmptySeq DEF InFlight, keyboard_ack, Scancode
<1>5. /\ zero \in [Nat -> Int] /\ \A i \in Nat : zero[i] = 0
  OBVIOUS
<1> HIDE DEF zero
<1>6. Numbers(zero, Queue, outstanding)
  BY <1>2, <1>5 DEF Numbers, Rising
<1>7. Decodes(zero, InFlight, extended_pending, outstanding)
  <2>1. ~IsKeyByte(keyboard_ack) /\ keyboard_ack # extended_prefix
    BY DEF IsKeyByte, keyboard_ack, extended_prefix
  <2>2. CASE InFlight = <<>>
    BY <1>3, <1>5, <2>2 DEF Decodes, Counts, PrefixesComplete, Rising
  <2>3. CASE InFlight = <<keyboard_ack>>
    <3>1. Len(InFlight) = 1 /\ InFlight[1] = keyboard_ack
      BY <2>3
    <3>2. Counts(zero, InFlight, extended_pending, outstanding)
      BY <1>3, <1>5, <2>1, <3>1 DEF Counts, Rising
    <3>3. PrefixesComplete(InFlight, extended_pending)
      BY <1>3, <2>1, <3>1 DEF PrefixesComplete
    <3> QED
      BY <3>2, <3>3 DEF Decodes
  <2> QED
    BY <1>4, <2>2, <2>3
<1>8. ModifiersFollow(0, modifiers, outstanding, HeldModifiers(held, caps_on))
  <2>1. modifiers = {} /\ held = {} /\ caps_on = FALSE
    BY DEF Init
  <2>2. HeldModifiers(held, caps_on) = {}
    BY <2>1 DEF HeldModifiers
  <2> QED
    BY <1>3, <2>1, <2>2 DEF ModifiersFollow, ModifiersAfter
<1>9. zero[0] = zero[Len(Queue)] /\ zero[0] = 0
  BY <1>2, <1>5
<1>10. Traces(zero, zero, Queue, InFlight, extended_pending, modifiers,
              outstanding, HeldModifiers(held, caps_on))
  BY <1>6, <1>7, <1>8, <1>9 DEF Traces
<1> QED
  BY <1>10 DEF Faithful, Traced

(* A step that moves no stroke keeps the trace. *)
LEMMA TraceKept ==
  ASSUME Faithful, lost_at_init => lost_at_init', dropped => dropped',
         UNCHANGED <<Queue, InFlight, extended_pending, modifiers, outstanding,
                     held, caps_on>>
  PROVE  Faithful'
  BY DEF Faithful

(* So does the polled read of an acknowledge; another byte is lost. *)
LEMMA PolledReadTraced ==
  ASSUME IInv, Faithful, PolledRead, Queue' = Queue,
         InitUnchanged
  PROVE  Faithful'
<1> SUFFICES ASSUME ~lost_at_init', ~dropped'
             PROVE  Trace'
  BY DEF Faithful, Trace
<1>1. out_buffer # NoByte /\ out_buffer = keyboard_ack /\ out_buffer' = NoByte
      /\ wire' = wire /\ ~lost_at_init /\ ~dropped
  BY DEF PolledRead, InitUnchanged
<1>2. /\ InFlight # <<>> /\ InFlight[1] = keyboard_ack
      /\ Tail(InFlight) = wire /\ wire \in Seq(Scancode)
  BY <1>1, InFlightShape
<1>3. InFlight' = Tail(InFlight)
  BY <1>1, <1>2, ConcatEmptySeq DEF InFlight
<1>4. ~IsKeyByte(InFlight[1]) /\ InFlight[1] # extended_prefix
  BY <1>2 DEF IsKeyByte, keyboard_ack, extended_prefix
<1>5. Trace
  BY <1>1 DEF Faithful, Trace
<1>6. /\ Traced(Queue, Tail(InFlight), InFlight[1] = extended_prefix,
                modifiers, outstanding, HeldModifiers(held, caps_on))
      /\ ~extended_pending
  BY <1>2, <1>4, <1>5, TraceTypes, TracedRead DEF Trace
<1>7. (InFlight[1] = extended_prefix) = extended_pending
  BY <1>4, <1>6, TraceTypes
<1>8. Traced(Queue, Tail(InFlight), extended_pending, modifiers, outstanding,
             HeldModifiers(held, caps_on))
  BY <1>6, <1>7
<1>9. UNCHANGED <<extended_pending, modifiers, outstanding, held, caps_on>>
  BY DEF InitUnchanged, driverVars, userVars
<1> QED
  BY <1>3, <1>8, <1>9 DEF Trace

(* The initialisation. *)
LEMMA InitializeTraced ==
  ASSUME IInv, Faithful, Initialize
  PROVE  Faithful'
<1>1. Queue' = Queue
  <2>1. ~HandleKey /\ ~PollCopy
    <3>1. pc \in InitLabels
      BY DEF Initialize, FlushDone, FlushByte, SendByte, ReadAck,
             EnableInterrupts, InitLabels
    <3> QED
      BY <3>1 DEF IInv, Control, HandleKey, KeyboardInterruptEntry, PollCopy,
                  InitLabels
  <2>2. [Next]_vars
    BY DEF Next, Mainline
  <2> QED
    BY <2>1, <2>2, OtherStepsStutter
<1>2. CASE PolledRead /\ InitUnchanged
  BY <1>1, <1>2, PolledReadTraced
<1>3. CASE ~(PolledRead /\ InitUnchanged)
  <2>1. UNCHANGED <<extended_pending, modifiers, outstanding, held, caps_on,
                    out_buffer, wire, lost_at_init, dropped>>
    BY <1>3 DEF Initialize, FlushDone, FlushByte, SendByte, ReadAck,
                EnableInterrupts, InitUnchanged, driverVars, userVars,
                deviceVars, lossVars
  <2>2. InFlight' = InFlight
    BY <2>1 DEF InFlight
  <2> QED
    BY <1>1, <2>1, <2>2, TraceKept
<1> QED
  BY <1>2, <1>3

(* The handler takes the byte in front: a prefix makes the next byte an    *)
(* extended one, every other byte becomes an event.                        *)
LEMMA KeyboardInterruptTraced ==
  ASSUME IInv, Faithful, KeyboardInterrupt
  PROVE  Faithful'
<1> SUFFICES ASSUME ~lost_at_init', ~dropped'
             PROVE  Trace'
  BY DEF Faithful, Trace
<1>1. /\ KeyboardInterruptEntry
      /\ UNCHANGED <<wire, outstanding, held, caps_on, lost_at_init>>
  BY DEF KeyboardInterrupt, HandleNoData, HandlePrefix, HandleQueueFull,
         HandleKey, KeyboardInterruptEntry, userVars
<1>2. ASSUME ~HandleKey
      PROVE  Queue' = Queue
  <2>1. ~PollCopy
    BY <1>1 DEF PollCopy, KeyboardInterruptEntry, IInv, Control, GuardedLabels
  <2>2. [Next]_vars
    BY DEF Next
  <2> QED
    BY <1>2, <2>1, <2>2, OtherStepsStutter
<1>3. CASE HandleNoData
  <2>1. ~HandleKey
    BY <1>3 DEF HandleNoData, HandleKey, ReadKey
  <2>2. UNCHANGED <<extended_pending, modifiers, out_buffer, dropped>>
    BY <1>3 DEF HandleNoData, driverVars
  <2>3. InFlight' = InFlight
    BY <1>1, <2>2 DEF InFlight
  <2>4. Faithful'
    BY <1>1, <1>2, <2>1, <2>2, <2>3, TraceKept
  <2> QED
    BY <2>4 DEF Faithful, Trace
<1>4. CASE HandlePrefix
  <2>1. /\ ~HandleKey
        /\ out_buffer = extended_prefix /\ out_buffer' = NoByte
        /\ extended_pending' = TRUE /\ UNCHANGED <<modifiers, dropped>>
    BY <1>4 DEF HandlePrefix, HandleKey, ReadKey
  <2>2. out_buffer # NoByte
    BY <2>1 DEF extended_prefix, NoByte
  <2>3. /\ InFlight # <<>> /\ InFlight[1] = extended_prefix
        /\ Tail(InFlight) = wire /\ wire \in Seq(Scancode)
    BY <2>1, <2>2, InFlightShape
  <2>4. InFlight' = Tail(InFlight)
    BY <1>1, <2>1, <2>3, ConcatEmptySeq DEF InFlight
  <2>5. Trace
    BY <1>1, <2>1 DEF Faithful, Trace
  <2>6. ~IsKeyByte(InFlight[1])
    BY <2>3 DEF IsKeyByte
  <2>7. Traced(Queue, Tail(InFlight), InFlight[1] = extended_prefix,
               modifiers, outstanding, HeldModifiers(held, caps_on))
    BY <2>3, <2>5, <2>6, TraceTypes, TracedRead DEF Trace
  <2>8. (InFlight[1] = extended_prefix) = TRUE
    BY <2>3
  <2>9. Traced(Queue, Tail(InFlight), TRUE, modifiers, outstanding,
               HeldModifiers(held, caps_on))
    BY <2>7, <2>8
  <2> QED
    BY <1>1, <1>2, <2>1, <2>4, <2>9 DEF Trace
<1>5. CASE HandleQueueFull
  BY <1>5 DEF HandleQueueFull
<1>6. CASE HandleKey
  <2> DEFINE e == NewEvent(out_buffer)
  <2>1. /\ out_buffer # NoByte /\ out_buffer # extended_prefix
        /\ out_buffer' = NoByte /\ extended_pending' = FALSE
        /\ modifiers' = e.modifiers /\ dropped' = dropped
    BY <1>6 DEF HandleKey, ReadKey
  <2>2. /\ InFlight # <<>> /\ InFlight[1] = out_buffer
        /\ Tail(InFlight) = wire /\ wire \in Seq(Scancode)
    BY <2>1, InFlightShape
  <2>3. InFlight' = Tail(InFlight)
    BY <1>1, <2>1, <2>2, ConcatEmptySeq DEF InFlight
  <2>4. Trace
    BY <1>1, <2>1 DEF Faithful, Trace
  <2>5. e \in Event /\ Queue' = Append(Queue, e)
    BY <1>6, HandleKeyAppends
  <2>6. /\ e.key_code = KeyCode(InFlight[1])
        /\ e.state = KeyState(InFlight[1])
        /\ e.key = map_scancode_set_1_key(e.key_code, extended_pending)
        /\ e.modifiers = update_modifier_state(modifiers, e.key, e.state)
    BY <2>2 DEF NewEvent
  <2> HIDE DEF e
  <2>7. Traced(Append(Queue, e), Tail(InFlight), FALSE, e.modifiers,
               outstanding, HeldModifiers(held, caps_on))
    BY <2>1, <2>2, <2>4, <2>5, <2>6, TraceTypes, TracedHandle DEF Trace
  <2> QED
    BY <1>1, <2>1, <2>3, <2>5, <2>7 DEF Trace
<1> QED
  BY <1>3, <1>4, <1>5, <1>6 DEF KeyboardInterrupt

(* poll_keyboard_event takes the oldest event and its stroke. *)
LEMMA PollCopyTraced ==
  ASSUME IInv, Faithful, PollCopy
  PROVE  Faithful'
<1> SUFFICES ASSUME ~lost_at_init', ~dropped'
             PROVE  Trace'
  BY DEF Faithful, Trace
<1>1. /\ Queue # <<>> /\ event' = Head(Queue) /\ Queue' = Tail(Queue)
  BY PollCopyTakes DEF Fifo!Take
<1>2. event' = entries[head] /\ Queue[1] = entries[head]
  <2>1. event' = entries[head]
    BY DEF PollCopy
  <2>2. Head(Queue) = Queue[1]
    BY <1>1, TraceTypes
  <2> QED
    BY <1>1, <2>1, <2>2
<1>3. outstanding' = IF outstanding = <<>> \/ IsAck(Queue[1])
                       THEN outstanding ELSE Tail(outstanding)
  BY <1>2 DEF PollCopy
<1>4. UNCHANGED <<extended_pending, modifiers, out_buffer, wire, held, caps_on,
                  lost_at_init, dropped>>
  BY DEF PollCopy, MainUnchanged, deviceVars, userVars, lossVars
<1>5. InFlight' = InFlight
  BY <1>4 DEF InFlight
<1>6. Trace
  BY <1>4 DEF Faithful, Trace
<1>7. Traced(Tail(Queue), InFlight, extended_pending, modifiers, outstanding',
             HeldModifiers(held, caps_on))
  BY <1>1, <1>3, <1>6, TraceTypes, TracedTake DEF Trace
<1> QED
  BY <1>1, <1>4, <1>5, <1>7 DEF Trace

(* The user makes a stroke. *)
LEMMA TypeKeyTraced ==
  ASSUME IInv, Faithful, NEW k \in PhysicalKeys, NEW state \in State,
         TypeKey(k, state), Queue' = Queue,
         HeldModifiers(held', caps_on')
           = update_modifier_state(HeldModifiers(held, caps_on), KeyOf(k),
                                   state)
  PROVE  Faithful'
<1> SUFFICES ASSUME ~lost_at_init', ~dropped'
             PROVE  Trace'
  BY DEF Faithful, Trace
<1> DEFINE s == [key |-> KeyOf(k), state |-> state,
                 modifiers |-> HeldModifiers(held', caps_on')]
<1>1. /\ s \in Stroke /\ s.key = KeyOf(k) /\ s.state = state
      /\ s.modifiers = HeldModifiers(held', caps_on')
  BY KeyOfType, HeldModifiersType DEF Stroke
<1>2. outstanding' = Append(outstanding, s)
  BY DEF TypeKey
<1> HIDE DEF s
<1>3. /\ UNCHANGED <<extended_pending, modifiers, out_buffer, lost_at_init,
                     dropped>>
      /\ wire = <<>> /\ wire' = Bytes(k, state)
  BY DEF TypeKey, driverVars, lossVars
<1>4. Trace
  BY <1>3 DEF Faithful, Trace
<1>5. InFlight' = InFlight \o Bytes(k, state)
  <2>1. Bytes(k, state) \in Seq(Scancode)
    BY BytesType
  <2>2. InFlight = IF out_buffer = NoByte THEN <<>> ELSE <<out_buffer>>
    <3>1. out_buffer \in Scancode \cup {NoByte}
      BY DEF IInv, TypeOK
    <3> QED
      BY <1>3, <3>1, ConcatEmptySeq DEF InFlight
  <2> QED
    BY <1>3, <2>1, <2>2 DEF InFlight
<1>6. Traced(Queue, InFlight \o Bytes(k, state), extended_pending, modifiers,
             Append(outstanding, s), s.modifiers)
  BY <1>1, <1>4, TraceTypes, TracedType DEF Trace
<1> QED
  BY <1>1, <1>2, <1>3, <1>5, <1>6 DEF Trace

(* The PIT, the keyboard and the user. *)
LEMMA DeviceTraced ==
  ASSUME IInv, Faithful, Device
  PROVE  Faithful'
<1>1. Queue' = Queue
  <2>1. ~HandleKey /\ ~PollCopy
    BY DEF Device, Tick, Transmit, Acknowledge, Press, Release, TypeKey,
           HandleKey, KeyboardInterruptEntry, Resume, PollCopy, Goto, cpuVars,
           deviceVars, driverVars, ReadKey, MainUnchanged
  <2>2. [Next]_vars
    BY DEF Next
  <2> QED
    BY <2>1, <2>2, OtherStepsStutter
<1>2. CASE Tick
  BY <1>1, <1>2, TraceKept
  DEF Tick, driverVars, deviceVars, userVars, lossVars, InFlight
<1>3. CASE Transmit
  <2>1. InFlight' = InFlight
    <3>1. /\ wire \in Seq(Scancode) /\ wire # <<>> /\ out_buffer = NoByte
          /\ out_buffer' = Head(wire) /\ wire' = Tail(wire)
      BY <1>3 DEF Transmit, IInv, TypeOK
    <3>2. Head(wire) \in Scancode /\ wire = <<Head(wire)>> \o Tail(wire)
      BY <3>1, HeadTailProperties
    <3>3. out_buffer' # NoByte
      <4>1. out_buffer' \in Scancode
        BY <3>1, <3>2
      <4> QED
        BY <4>1 DEF NoByte, Scancode
    <3>4. InFlight = wire
      BY <3>1, ConcatEmptySeq DEF InFlight
    <3> QED
      BY <3>1, <3>2, <3>3, <3>4 DEF InFlight
  <2> QED
    BY <1>1, <1>3, <2>1, TraceKept DEF Transmit, driverVars, userVars, lossVars
<1>4. CASE Acknowledge
  <2>1. /\ UNCHANGED <<extended_pending, modifiers, outstanding, held, caps_on,
                       out_buffer, lost_at_init, dropped>>
        /\ wire' = Append(wire, keyboard_ack)
    BY <1>4 DEF Acknowledge, driverVars, userVars, lossVars
  <2>2. InFlight' = Append(InFlight, keyboard_ack)
    <3>1. /\ wire \in Seq(Scancode) /\ keyboard_ack \in Scancode
          /\ out_buffer \in Scancode \cup {NoByte}
      BY DEF IInv, TypeOK, keyboard_ack, Scancode
    <3>2. CASE out_buffer = NoByte
      BY <2>1, <3>1, <3>2, ConcatEmptySeq DEF InFlight
    <3>3. CASE out_buffer # NoByte
      <4>1. <<out_buffer>> \in Seq(Scancode)
        BY <3>1, <3>3
      <4>2. <<out_buffer>> \o Append(wire, keyboard_ack)
              = Append(<<out_buffer>> \o wire, keyboard_ack)
        BY <3>1, <4>1, AppendIsConcat, ConcatAssociative, ConcatProperties
      <4> QED
        BY <2>1, <3>3, <4>2 DEF InFlight
    <3> QED
      BY <3>2, <3>3
  <2> SUFFICES ASSUME ~lost_at_init', ~dropped'
               PROVE  Trace'
    BY DEF Faithful, Trace
  <2>3. Trace
    BY <2>1 DEF Faithful, Trace
  <2>4. Traced(Queue, Append(InFlight, keyboard_ack), extended_pending,
               modifiers, outstanding, HeldModifiers(held, caps_on))
    BY <2>3, TraceTypes, TracedAck DEF Trace
  <2> QED
    BY <1>1, <2>1, <2>2, <2>4 DEF Trace
<1>5. ASSUME NEW k \in PhysicalKeys, Press(k)
      PROVE  Faithful'
  <2>1. /\ held' = held \cup {k} /\ TypeKey(k, "pressed")
        /\ caps_on' = IF KeyOf(k) = caps_lock /\ k \notin held
                        THEN ~caps_on ELSE caps_on
    BY <1>5 DEF Press
  <2>2. HeldModifiers(held', caps_on')
          = update_modifier_state(HeldModifiers(held, caps_on), KeyOf(k),
                                  "pressed")
    BY <2>1, TraceTypes, PressUpdates
  <2> QED
    BY <1>1, <2>1, <2>2, TypeKeyTraced DEF State
<1>6. ASSUME NEW k \in PhysicalKeys, Release(k)
      PROVE  Faithful'
  <2>1. /\ held' = held \ {k} /\ TypeKey(k, "released")
        /\ caps_on' = caps_on /\ k \in held
    BY <1>6 DEF Release
  <2>2. HeldModifiers(held', caps_on')
          = update_modifier_state(HeldModifiers(held, caps_on), KeyOf(k),
                                  "released")
    BY <2>1, TraceTypes, ReleaseUpdates
  <2> QED
    BY <1>1, <2>1, <2>2, TypeKeyTraced DEF State
<1> QED
  BY <1>2, <1>3, <1>4, <1>5, <1>6 DEF Device

(* Every step keeps the trace. *)
LEMMA NextFaithful == IInv /\ Faithful /\ [Next]_vars => Faithful'
<1> SUFFICES ASSUME IInv, Faithful, [Next]_vars PROVE Faithful'
  OBVIOUS
<1>1. CASE Initialize
  BY <1>1, InitializeTraced
<1>2. CASE KeyboardInterrupt
  BY <1>2, KeyboardInterruptTraced
<1>3. CASE PollCopy
  BY <1>3, PollCopyTraced
<1>4. CASE Device
  BY <1>4, DeviceTraced
<1>5. CASE /\ TimerInterrupt \/ HasPending \/ Halt \/ Poll \/ Dispatch
           /\ ~PollCopy /\ ~KeyboardInterrupt
  <2>1. ~HandleKey
    BY <1>5 DEF KeyboardInterrupt
  <2>2. Queue' = Queue
    BY <1>5, <2>1, OtherStepsStutter
  <2>3. UNCHANGED <<extended_pending, modifiers, outstanding, held, caps_on,
                    out_buffer, wire, lost_at_init, dropped>>
    BY <1>5
    DEF TimerInterrupt, HasPending, Halt, Poll, Dispatch, GuardEnter,
        GuardLeave, LoadCount, PollHead, PollCount, MainUnchanged, driverVars,
        deviceVars, userVars, lossVars
  <2> QED
    BY <2>2, <2>3, TraceKept DEF InFlight
<1>6. CASE UNCHANGED vars
  <2>1. Queue' = Queue
    BY <1>6 DEF vars, Queue, QueueHead, QueueLength
  <2> QED
    BY <1>6, <2>1, TraceKept DEF vars, InFlight
<1> QED
  BY <1>1, <1>2, <1>3, <1>4, <1>5, <1>6 DEF Next, Mainline

-----------------------------------------------------------------------------
(* A set of numbers that is not empty has a least one. *)
LEMMA LeastNumber ==
  ASSUME NEW S, S \subseteq Nat, S # {}
  PROVE  \E n \in S : \A m \in S : n <= m
<1> DEFINE R == OpToRel(<, Nat)
<1>1. IsWellFoundedOn(R, Nat)
  BY NatLessThanWellFounded
<1>2. \A i, j \in Nat : i < j => <<i, j>> \in R
  BY DEF OpToRel
<1> HIDE DEF R
<1>3. PICK n \in S : \A m \in S : <<m, n>> \notin R
  BY <1>1, WFMin
<1>4. ASSUME NEW m \in S PROVE n <= m
  <2>1. ~(m < n)
    BY <1>2, <1>3
  <2> QED
    BY <2>1
<1> QED
  BY <1>4

(* The events of strokes among the first n. *)
KeyEvents(n) == {i \in 1 .. n : ~IsAck(Queue[i])}

(* The number of an event is the number of strokes up to it. *)
LEMMA NumbersCount ==
  ASSUME IInv, NEW n, NEW o, Numbers(n, Queue, o), NEW i \in 0 .. QueueLength
  PROVE  StrokesAmong(i) = n[i]
<1>1. QueueLength \in Nat /\ Len(Queue) = QueueLength
  BY QueueShape
<1>2. n \in [Nat -> Int] /\ n[0] = 0
  BY DEF Numbers
<1> DEFINE S == {j \in 0 .. QueueLength : StrokesAmong(j) # n[j]}
<1>3. SUFFICES ASSUME S # {} PROVE FALSE
  OBVIOUS
<1>4. PICK j \in S : \A k \in S : j <= k
  <2>1. S \subseteq Nat
    BY <1>1
  <2> HIDE DEF S
  <2> QED
    BY <1>3, <2>1, LeastNumber
<1>5. \A k : StrokesAmong(k) = Cardinality(KeyEvents(k))
  BY DEF StrokesAmong, KeyEvents
<1>6. CASE j = 0
  <2>1. KeyEvents(0) = {}
    BY DEF KeyEvents
  <2> QED
    BY <1>2, <1>4, <1>5, <1>6, <2>1, FS_EmptySet
<1>7. CASE j # 0
  <2>1. /\ j \in 1 .. QueueLength /\ j - 1 \in 0 .. QueueLength
        /\ j - 1 \in Nat /\ ~(j <= j - 1)
    BY <1>1, <1>4, <1>7
  <2>2. Cardinality(KeyEvents(j - 1)) = n[j - 1]
    BY <1>4, <1>5, <2>1
  <2>3. IsFiniteSet(KeyEvents(j - 1))
    <3>1. KeyEvents(j - 1) \in SUBSET (1 .. j - 1)
      BY DEF KeyEvents
    <3>2. IsFiniteSet(1 .. j - 1)
      BY <2>1, FS_Interval
    <3> QED
      BY <3>1, <3>2, FS_Subset
  <2>4. CASE IsAck(Queue[j])
    <3>1. KeyEvents(j) = KeyEvents(j - 1)
      BY <2>1, <2>4 DEF KeyEvents
    <3>2. n[j] = n[j - 1]
      BY <1>1, <2>1, <2>4 DEF Numbers
    <3> QED
      BY <1>4, <1>5, <2>2, <3>1, <3>2
  <2>5. CASE ~IsAck(Queue[j])
    <3>1. KeyEvents(j) = KeyEvents(j - 1) \cup {j} /\ j \notin KeyEvents(j - 1)
      BY <2>1, <2>5 DEF KeyEvents
    <3>2. n[j] = n[j - 1] + 1
      BY <1>1, <2>1, <2>5 DEF Numbers
    <3>3. Cardinality(KeyEvents(j)) = Cardinality(KeyEvents(j - 1)) + 1
      BY <2>3, <3>1, FS_AddElement
    <3> QED
      BY <1>4, <1>5, <2>2, <3>2, <3>3
  <2> QED
    BY <2>4, <2>5
<1> QED
  BY <1>6, <1>7

(* A trace says that the events are the strokes. *)
LEMMA FaithfulEvents == IInv /\ Faithful => EventsFaithful
<1> SUFFICES ASSUME IInv, Faithful, ~lost_at_init, ~dropped
             PROVE  /\ \A i \in 1 .. QueueLength : ~IsAck(Queue[i]) =>
                         /\ StrokesAmong(i) <= Len(outstanding)
                         /\ StrokeOf(Queue[i]) = outstanding[StrokesAmong(i)]
                    /\ Quiet => StrokesAmong(QueueLength) = Len(outstanding)
  BY DEF EventsFaithful
<1>1. PICK n, m : Traces(n, m, Queue, InFlight, extended_pending, modifiers,
                         outstanding, HeldModifiers(held, caps_on))
  BY DEF Faithful, Traced
<1>2. /\ Numbers(n, Queue, outstanding)
      /\ Decodes(m, InFlight, extended_pending, outstanding)
      /\ m[0] = n[Len(Queue)]
  BY <1>1 DEF Traces
<1>3. QueueLength \in Nat /\ Len(Queue) = QueueLength
  BY QueueShape
<1>4. ASSUME NEW i \in 1 .. QueueLength, ~IsAck(Queue[i])
      PROVE  /\ StrokesAmong(i) <= Len(outstanding)
             /\ StrokeOf(Queue[i]) = outstanding[StrokesAmong(i)]
  <2>1. StrokesAmong(i) = n[i]
    <3>1. i \in 0 .. QueueLength
      BY <1>3
    <3> QED
      BY <1>2, <3>1, NumbersCount
  <2>2. n[i] <= Len(outstanding) /\ StrokeOf(Queue[i]) = outstanding[n[i]]
    BY <1>2, <1>3, <1>4 DEF Numbers
  <2> QED
    BY <2>1, <2>2
<1>5. ASSUME Quiet PROVE StrokesAmong(QueueLength) = Len(outstanding)
  <2>1. InFlight = <<>>
    BY <1>5, ConcatEmptySeq DEF Quiet, InFlight
  <2>2. m[0] = Len(outstanding)
    <3>1. Len(InFlight) = 0
      BY <2>1
    <3> QED
      BY <1>2, <3>1 DEF Decodes, Counts
  <2>3. QueueLength \in 0 .. QueueLength
    BY <1>3
  <2>4. StrokesAmong(QueueLength) = n[QueueLength]
    BY <1>2, <2>3, NumbersCount
  <2> QED
    BY <1>2, <1>3, <2>2, <2>4
<1> QED
  BY <1>4, <1>5

(* Unless bytes were lost, the events that wait are exactly the strokes    *)
(* the user made, in order, with their keys, states and modifiers, for     *)
(* every queue size, set of keys and number of strokes.                    *)
THEOREM EventsAlwaysFaithful == Spec => []EventsFaithful
<1>1. Init => Faithful
  BY InitFaithful
<1>2. IInv /\ Faithful /\ [Next]_vars => Faithful'
  BY NextFaithful
<1>3. IInv /\ Faithful => EventsFaithful
  BY FaithfulEvents
<1> QED
  BY <1>1, <1>2, <1>3, Invariance, PTL DEF Spec

(* While no byte is on its way the driver's modifiers are those of the     *)
(* keys held: only a full queue can leave one behind.                      *)
NoneDroppedMatch ==
  ~lost_at_init /\ ~dropped /\ Quiet =>
    modifiers = HeldModifiers(held, caps_on)

THEOREM ModifiersMatchUnlessDropped == Spec => []NoneDroppedMatch
<1>1. Init => Faithful
  BY InitFaithful
<1>2. IInv /\ Faithful /\ [Next]_vars => Faithful'
  BY NextFaithful
<1>3. IInv /\ Faithful => NoneDroppedMatch
  <2> SUFFICES ASSUME IInv, Faithful, ~lost_at_init, ~dropped, Quiet
               PROVE  modifiers = HeldModifiers(held, caps_on)
    BY DEF NoneDroppedMatch
  <2>1. PICK n, m : Traces(n, m, Queue, InFlight, extended_pending, modifiers,
                           outstanding, HeldModifiers(held, caps_on))
    BY DEF Faithful, Traced
  <2>2. Len(InFlight) = 0
    BY ConcatEmptySeq DEF Quiet, InFlight
  <2>3. m[0] = Len(outstanding)
    BY <2>1, <2>2 DEF Traces, Decodes, Counts
  <2> QED
    BY <2>1, <2>3 DEF Traces, ModifiersFollow, ModifiersAfter
<1> QED
  BY <1>1, <1>2, <1>3, Invariance, PTL DEF Spec
=============================================================================
