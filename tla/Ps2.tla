-------------------------------- MODULE Ps2 --------------------------------
(***************************************************************************)
(* The PS/2 keyboard driver (src/drivers/ps2.c): the interrupt handler that  *)
(* decodes scancodes into a ring buffer, and ps2_poll, which reads it.       *)
(*                                                                         *)
(* The handler runs with interrupts off and is one step per byte; ps2_poll   *)
(* runs with interrupts on in yield() and in kernel_main, so the handler may *)
(* come between any two of its accesses to the indices.  One caller polls at  *)
(* a time.                                                                 *)
(*                                                                         *)
(* The keyboard is external: it sends the bytes of one key event after the   *)
(* other, 0xE0 first for an extended key, the make code again and again       *)
(* while a key is held, and the make code plus 0x80 when it is released.     *)
(***************************************************************************)
EXTENDS Integers, Sequences

CONSTANTS
  KEYBUF_SIZE,
  Keys     (* the keys in use: records of kind, sc, ext, lo and hi           *)

VARIABLES
  keybuf, keybuf_head, keybuf_tail,
  extended, shift_pressed, ctrl_pressed, alt_pressed, caps_pressed,
  poll,    (* the caller of ps2_poll: where it is, and the key it has         *)
  wire,    (* the rest of the key event that the keyboard is sending          *)
  held     (* the modifier keys that are down, of the events received          *)

bufVars == <<keybuf, keybuf_head, keybuf_tail>>

modVars == <<shift_pressed, ctrl_pressed, alt_pressed, caps_pressed>>

vars == <<bufVars, modVars, extended, poll, wire, held>>

NoKey == -1

Kinds == {"letter", "char", "special", "shift", "ctrl", "alt", "caps", "none"}

Slot == 0..(KEYBUF_SIZE - 1)

(* The two keymaps, from scancode 1 to 57; past that both hold zeros.          *)
lower ==
  <<27, 49, 50, 51, 52, 53, 54, 55, 56, 57, 48,
    45, 61, 8, 9, 113, 119, 101, 114, 116, 121, 117, 105,
    111, 112, 91, 93, 10, 0, 97, 115, 100, 102, 103, 104,
    106, 107, 108, 59, 39, 96, 0, 92, 122, 120, 99, 118,
    98, 110, 109, 44, 46, 47, 0, 42, 0, 32>>

upper ==
  <<27, 33, 64, 35, 36, 37, 94, 38, 42, 40, 41,
    95, 43, 8, 9, 81, 87, 69, 82, 84, 89, 85, 73,
    79, 80, 123, 125, 10, 0, 65, 83, 68, 70, 71, 72,
    74, 75, 76, 58, 34, 126, 0, 124, 90, 88, 67, 86,
    66, 78, 77, 60, 62, 63, 0, 42, 0, 32>>

keymap_lower(sc) == IF sc \in DOMAIN lower THEN lower[sc] ELSE 0

keymap_upper(sc) == IF sc \in DOMAIN upper THEN upper[sc] ELSE 0

(* What an extended make code means; 0 is nothing.                            *)
ExtendedKey(sc) ==
  CASE sc = 72 -> 256 [] sc = 80 -> 257 [] sc = 75 -> 258 [] sc = 77 -> 259
    [] sc = 71 -> 260 [] sc = 79 -> 261 [] sc = 73 -> 262 [] sc = 81 -> 263
    [] sc = 82 -> 264 [] sc = 83 -> 265 [] OTHER -> 0

(* F1 to F12; 0 is any other key.                                            *)
FunctionKey(sc) ==
  CASE sc \in 59..68 -> 266 + (sc - 59) [] sc = 87 -> 276 [] sc = 88 -> 277 [] OTHER -> 0

IsLower(c) == c \in 97..122

IsUpper(c) == c \in 65..90

IsLetter(c) == IsLower(c) \/ IsUpper(c)

(***************************************************************************)
(* A key k of a US keyboard does what its kind says, and types lo alone and   *)
(* hi with Shift.  No key has the scancode whose release would be 0xE0.      *)
(***************************************************************************)
KeyMeans(k) ==
  /\ k.sc # 96
  /\ k.kind = "shift" <=> ~k.ext /\ k.sc \in {42, 54}
  /\ k.kind = "ctrl" <=> ~k.ext /\ k.sc = 29
  /\ k.kind = "alt" <=> ~k.ext /\ k.sc = 56
  /\ k.kind = "caps" <=> ~k.ext /\ k.sc = 58
  /\ k.kind \in {"letter", "char"} =>
       /\ ~k.ext /\ FunctionKey(k.sc) = 0
       /\ k.lo = keymap_lower(k.sc) /\ k.hi = keymap_upper(k.sc)
  /\ k.kind = "letter" => IsLower(k.lo) /\ k.hi = k.lo - 32
  /\ k.kind = "char" => k.lo # 0 /\ k.hi # 0 /\ ~IsLetter(k.lo) /\ ~IsLetter(k.hi)
  /\ k.kind = "special" =>
       k.lo # 0 /\ k.lo = IF k.ext THEN ExtendedKey(k.sc) ELSE FunctionKey(k.sc)
  /\ k.kind = "none" =>
       IF k.ext THEN ExtendedKey(k.sc) = 0
       ELSE FunctionKey(k.sc) = 0 /\ keymap_lower(k.sc) = 0 /\ keymap_upper(k.sc) = 0
  /\ k.kind \notin {"letter", "char", "special"} => k.lo = 0 /\ k.hi = 0

ASSUME Ps2Assumption ==
  /\ KEYBUF_SIZE \in Nat \ {0, 1}
  /\ Keys \subseteq [kind : Kinds, sc : 1..127, ext : BOOLEAN, lo : 0..277, hi : 0..277]
  /\ \A k \in Keys : KeyMeans(k)

(* Mutant: Caps Lock makes capitals, it does not invert Shift.                *)
CapsOnly(c) == IF caps_pressed /\ IsLower(c) THEN c - 32 ELSE c

(* c ^= 32 under Caps Lock.                                                  *)
WithCaps(c) ==
  IF ~caps_pressed THEN c
  ELSE IF IsLower(c) THEN c - 32 ELSE IF IsUpper(c) THEN c + 32 ELSE c

WithCtrl(c) ==
  IF ~ctrl_pressed THEN c
  ELSE IF IsLower(c) THEN c - 96 ELSE IF IsUpper(c) THEN c - 64 ELSE c

(* What a plain make code means under the modifiers.                          *)
PlainKey(sc) ==
  IF FunctionKey(sc) # 0 THEN FunctionKey(sc)
  ELSE WithCtrl(WithCaps(IF shift_pressed THEN keymap_upper(sc) ELSE keymap_lower(sc)))

(* Mutant: the buffer is full only when every slot is taken.                   *)
buf_put_all(val) ==
  /\ keybuf' = [keybuf EXCEPT ![keybuf_head] = val]
  /\ keybuf_head' = (keybuf_head + 1) % KEYBUF_SIZE
  /\ UNCHANGED keybuf_tail

(* Mutant: the index runs on past the end of the buffer.                      *)
buf_put_past_end(val) ==
  /\ IF keybuf_head + 1 # keybuf_tail
       THEN keybuf' = [keybuf EXCEPT ![keybuf_head] = val] /\ keybuf_head' = keybuf_head + 1
       ELSE UNCHANGED <<keybuf, keybuf_head>>
  /\ UNCHANGED keybuf_tail

buf_put(val) ==
  LET nxt == (keybuf_head + 1) % KEYBUF_SIZE
  IN  /\ IF nxt # keybuf_tail
           THEN keybuf' = [keybuf EXCEPT ![keybuf_head] = val] /\ keybuf_head' = nxt
           ELSE UNCHANGED <<keybuf, keybuf_head>>
      /\ UNCHANGED keybuf_tail

PutIfAny(val) == IF val # 0 THEN buf_put(val) ELSE UNCHANGED bufVars

(* The byte after 0xE0.                                                     *)
ExtendedByte(sc) ==
  /\ extended
  /\ extended' = FALSE
  /\ IF sc >= 128 THEN UNCHANGED bufVars ELSE PutIfAny(ExtendedKey(sc))
  /\ UNCHANGED modVars

ModifierCodes == {42, 54, 29, 56, 58}

ModifierByte(sc) ==
  /\ ~extended
  /\ sc % 128 \in ModifierCodes
  /\ shift_pressed' = IF sc % 128 \in {42, 54} THEN sc < 128 ELSE shift_pressed
  /\ ctrl_pressed' = IF sc % 128 = 29 THEN sc < 128 ELSE ctrl_pressed
  /\ alt_pressed' = IF sc % 128 = 56 THEN sc < 128 ELSE alt_pressed
  /\ caps_pressed' = (caps_pressed # (sc = 58))
  /\ UNCHANGED <<bufVars, extended>>

PlainByte(sc) ==
  /\ ~extended
  /\ sc % 128 \notin ModifierCodes
  /\ IF sc >= 128 THEN UNCHANGED bufVars ELSE PutIfAny(PlainKey(sc))
  /\ UNCHANGED <<modVars, extended>>

(* The modifiers down once the event ev has been received.                    *)
HeldAfter(ev) ==
  IF ev.key.kind \notin {"shift", "ctrl", "alt"} THEN held
  ELSE IF ev.press THEN held \cup {ev.key} ELSE held \ {ev.key}

(* Mutant: the prefix is forgotten at once.                                   *)
PrefixByteLost == UNCHANGED <<bufVars, modVars, extended>>

PrefixByte == extended' = TRUE /\ UNCHANGED <<bufVars, modVars>>

Idle ==
  [key |-> [kind |-> "none", sc |-> 0, ext |-> FALSE, lo |-> 0, hi |-> 0],
   press |-> FALSE, bytes |-> <<>>]

keyboard_handler ==
  /\ wire.bytes # <<>>
  /\ LET sc == Head(wire.bytes)
     IN  IF sc = 224 THEN PrefixByte
         ELSE ExtendedByte(sc) \/ ModifierByte(sc) \/ PlainByte(sc)
  /\ IF Len(wire.bytes) = 1
       THEN wire' = Idle /\ held' = HeldAfter(wire)
       ELSE wire' = [wire EXCEPT !.bytes = Tail(@)] /\ UNCHANGED held
  /\ UNCHANGED poll

-----------------------------------------------------------------------------
(* The keyboard sends a press or a release of key k.                          *)
Code(k, press) == IF press THEN k.sc ELSE k.sc + 128

Bytes(k, press) ==
  IF k.ext THEN <<224, Code(k, press)>> ELSE <<Code(k, press)>>

Send(k, press) ==
  /\ wire = Idle
  /\ wire' = [key |-> k, press |-> press, bytes |-> Bytes(k, press)]
  /\ UNCHANGED <<bufVars, modVars, extended, poll, held>>

(* Only one of the two Shift keys is held at a time.                          *)
KeyDown(k) ==
  /\ k.kind = "shift" => \A h \in held : h.kind = "shift" => h = k
  /\ Send(k, TRUE)

(* Of the other keys it does not matter which ones are down.                  *)
KeyUp(k) ==
  /\ k.kind \in {"shift", "ctrl", "alt"} => k \in held
  /\ Send(k, FALSE)

-----------------------------------------------------------------------------
(* ps2_poll: the test, the read, and the new tail.                            *)
PollTest ==
  /\ poll.at = "out"
  /\ poll' = [at |-> IF keybuf_head # keybuf_tail THEN "read" ELSE "out", c |-> NoKey]
  /\ UNCHANGED <<bufVars, modVars, extended, wire, held>>

PollRead ==
  /\ poll.at = "read"
  /\ poll' = [at |-> "advance", c |-> keybuf[keybuf_tail]]
  /\ UNCHANGED <<bufVars, modVars, extended, wire, held>>

PollAdvance ==
  /\ poll.at = "advance"
  /\ poll' = [poll EXCEPT !.at = "out"]
  /\ keybuf_tail' = (keybuf_tail + 1) % KEYBUF_SIZE
  /\ UNCHANGED <<keybuf, keybuf_head, modVars, extended, wire, held>>

(* ps2_init: nothing in the buffer, no key held.                              *)
Init ==
  /\ keybuf = [i \in Slot |-> 0]
  /\ keybuf_head = 0
  /\ keybuf_tail = 0
  /\ extended = FALSE
  /\ shift_pressed = FALSE
  /\ ctrl_pressed = FALSE
  /\ alt_pressed = FALSE
  /\ caps_pressed = FALSE
  /\ poll = [at |-> "out", c |-> NoKey]
  /\ wire = Idle
  /\ held = {}

Next ==
  \/ keyboard_handler
  \/ \E k \in Keys : KeyDown(k)
  \/ \E k \in Keys : KeyUp(k)
  \/ PollTest
  \/ PollRead
  \/ PollAdvance

Spec == Init /\ [][Next]_vars

-----------------------------------------------------------------------------
Pending == (keybuf_head - keybuf_tail) % KEYBUF_SIZE

(* The indices stay inside the buffer and every slot holds a key code.         *)
TypeOK ==
  /\ keybuf \in [Slot -> 0..277]
  /\ keybuf_head \in Slot
  /\ keybuf_tail \in Slot
  /\ extended \in BOOLEAN /\ caps_pressed \in BOOLEAN
  /\ shift_pressed \in BOOLEAN /\ ctrl_pressed \in BOOLEAN /\ alt_pressed \in BOOLEAN
  /\ poll \in [at : {"out", "read", "advance"}, c : {NoKey} \cup 1..277]
  /\ held \subseteq Keys

(* The flags follow the keys: a modifier is on exactly while its key is down,   *)
(* whatever extended keys share its scancode, and the driver waits for the     *)
(* second byte of an extended key exactly when that is what comes next.       *)
ModifiersFollow ==
  /\ shift_pressed = \E k \in held : k.kind = "shift"
  /\ ctrl_pressed = \E k \in held : k.kind = "ctrl"
  /\ alt_pressed = \E k \in held : k.kind = "alt"
  /\ extended = (wire # Idle /\ wire.key.ext /\ Len(wire.bytes) = 1)

(* A poll in progress never loses its key to the handler.                     *)
PollSafe ==
  /\ poll.at # "out" => Pending > 0
  /\ poll.at = "advance" => poll.c = keybuf[keybuf_tail]

(* The keys that wait, and the key that the last poll returned.                *)
Queued == [i \in 1..Pending |-> keybuf[(keybuf_tail + i - 1) % KEYBUF_SIZE]]

Got == IF poll.at = "out" THEN poll.c ELSE NoKey

Queue == INSTANCE KeyQueue WITH
  Capacity <- KEYBUF_SIZE - 1, queue <- Queued, caps <- caps_pressed, got <- Got

(* The driver implements the key queue: every press that the buffer has room   *)
(* for arrives once, in order, and as what it meant when it was pressed.       *)
ImplementsQueue == Queue!Spec

=============================================================================
