---------------------------- MODULE ScancodeSet1 ----------------------------
(***************************************************************************)
(* The decoding tables of the PS/2 keyboard driver, src/drivers/keyboard/. *)
(* A keyboard_key is the number the source gives it: its scancode for a    *)
(* plain key, 0xE000 + scancode for an extended one, 0 for unknown.  The   *)
(* bits of modifier_state are members of a set, so that |= is \cup and     *)
(* &= ~ is \.                                                              *)
(***************************************************************************)
EXTENDS Integers

extended_prefix == 224                                              \* 0xE0
keyboard_ack == 250                                                 \* 0xFA
Scancode == 0 .. 255
Code == 0 .. 127

KeyCode(scancode) == scancode % 128                              \* & 0x7F
KeyState(scancode) == IF scancode < 128 THEN "pressed" ELSE "released"

unknown == 0
NormalCodes == (1 .. 54) \cup (56 .. 68) \cup {87, 88}
ExtendedCodes == {29, 56, 71, 72, 73, 75, 77, 79, 80, 81, 82, 83}
ExtendedKey(code) == 57344 + code
Key == {unknown} \cup NormalCodes \cup {ExtendedKey(c) : c \in ExtendedCodes}

map_scancode_set_1_key(code, extended) ==
  IF extended
    THEN IF code \in ExtendedCodes THEN ExtendedKey(code) ELSE unknown
    ELSE IF code \in NormalCodes THEN code ELSE unknown

caps_lock == 58

DownBits == {"left_shift_down", "right_shift_down", "left_ctrl_down",
             "right_ctrl_down", "left_alt_down", "right_alt_down",
             "caps_lock_down"}
ModifierBits == DownBits \cup {"caps_lock_on"}

(* The modifier keys and the bit that says the key is down. *)
DownBit(key) ==
  CASE key = 42 -> "left_shift_down"
    [] key = 54 -> "right_shift_down"
    [] key = 29 -> "left_ctrl_down"
    [] key = ExtendedKey(29) -> "right_ctrl_down"
    [] key = 56 -> "left_alt_down"
    [] key = ExtendedKey(56) -> "right_alt_down"
    [] key = caps_lock -> "caps_lock_down"
    [] OTHER -> "none"

Toggle(modifiers, bit) ==
  IF bit \in modifiers THEN modifiers \ {bit} ELSE modifiers \cup {bit}

(* Faulty variant: a repeated press of caps lock toggles again. *)
update_modifier_state_repeating(modifiers, key, state) ==
  IF DownBit(key) = "none" THEN modifiers
  ELSE IF state = "released" THEN modifiers \ {DownBit(key)}
  ELSE IF key = caps_lock
    THEN Toggle(modifiers, "caps_lock_on") \cup {DownBit(key)}
    ELSE modifiers \cup {DownBit(key)}

update_modifier_state(modifiers, key, state) ==
  IF DownBit(key) = "none" THEN modifiers
  ELSE IF state = "released" THEN modifiers \ {DownBit(key)}
  ELSE IF key = caps_lock /\ "caps_lock_down" \notin modifiers
    THEN Toggle(modifiers, "caps_lock_on") \cup {DownBit(key)}
    ELSE modifiers \cup {DownBit(key)}

(* keyboard_event: one slot of the event queue. *)
Event == [key : Key, key_code : Code, state : {"pressed", "released"},
          extended : BOOLEAN, modifiers : SUBSET ModifierBits]
EmptyEvent == [key |-> unknown, key_code |-> 0, state |-> "released",
               extended |-> FALSE, modifiers |-> {}]
=============================================================================
