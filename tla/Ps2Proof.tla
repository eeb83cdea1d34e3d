------------------------------ MODULE Ps2Proof ------------------------------
(***************************************************************************)
(* Theorems about module Ps2, for every size of the buffer, every set of      *)
(* keys and every interleaving of the handler with ps2_poll.                 *)
(***************************************************************************)
EXTENDS Ps2, SequenceTheorems, TLAPS

(* The wire carries an event of a key, whole or without its prefix.  Only one    *)
(* Shift key is down, none but modifiers count, and an event of a modifier     *)
(* agrees with that.                                                       *)
WireOK ==
  \/ wire = Idle
  \/ /\ wire.key \in Keys
     /\ wire.press \in BOOLEAN
     /\ \/ wire = [key |-> wire.key, press |-> wire.press, bytes |-> Bytes(wire.key, wire.press)]
        \/ /\ wire.key.ext
           /\ wire = [key |-> wire.key, press |-> wire.press,
                      bytes |-> <<Code(wire.key, wire.press)>>]
     /\ wire.key.kind = "shift" => \A h \in held : h.kind = "shift" => h = wire.key

HeldOK ==
  /\ \A h \in held : h.kind \in {"shift", "ctrl", "alt"}
  /\ \A g, h \in held : g.kind = "shift" /\ h.kind = "shift" => g = h

(* What lies between tail and head is keys.                                   *)
PendingKeys ==
  \A i \in 0..(Pending - 1) : keybuf[(keybuf_tail + i) % KEYBUF_SIZE] # 0

(* The inductive invariant.                                                  *)
Ps2Inv == TypeOK /\ ModifiersFollow /\ PollSafe /\ WireOK /\ HeldOK /\ PendingKeys

-----------------------------------------------------------------------------
(***************************************************************************)
(* The decoder.                                                            *)
(***************************************************************************)
(* A key is what its scancode says.                                          *)
LEMMA KeyFacts ==
  ASSUME NEW k \in Keys
  PROVE  /\ KeyMeans(k)
         /\ k.kind \in Kinds /\ k.sc \in 1..127 /\ k.ext \in BOOLEAN
         /\ k.lo \in 0..277 /\ k.hi \in 0..277
BY Ps2Assumption

(* The byte that ends an event is no prefix, and tells press from release.      *)
LEMMA CodeFacts ==
  ASSUME NEW k \in Keys, NEW p \in BOOLEAN
  PROVE  /\ Code(k, p) \in 1..255
         /\ Code(k, p) # 224
         /\ Code(k, p) % 128 = k.sc
         /\ p <=> Code(k, p) < 128
         /\ p => Code(k, p) = k.sc
         /\ Code(k, p) = 58 <=> p /\ k.sc = 58
<1>1. k.sc \in 1..127 /\ k.sc # 96
  BY KeyFacts DEF KeyMeans
<1>2. CASE p
  BY <1>1, <1>2 DEF Code
<1>3. CASE ~p
  BY <1>1, <1>3 DEF Code
<1> QED BY <1>2, <1>3

(* What the handler puts into the buffer for key k.                            *)
Typed(k) == IF k.ext THEN ExtendedKey(k.sc) ELSE PlainKey(k.sc)

(* Caps Lock and Ctrl turn a letter into a key code and leave the rest alone.    *)
LEMMA ModifiedFacts ==
  ASSUME NEW c \in 0..277
  PROVE  /\ IsLetter(c) => WithCtrl(WithCaps(c)) \in 1..277
         /\ ~IsLetter(c) => WithCtrl(WithCaps(c)) = c
<1>. DEFINE w == WithCaps(c)
<1>1. ASSUME IsLetter(c) PROVE w \in 65..90 \/ w \in 97..122
  BY <1>1 DEF WithCaps, IsLetter, IsLower, IsUpper
<1>2. ASSUME ~IsLetter(c) PROVE w = c
  BY <1>2 DEF WithCaps, IsLetter
<1>. HIDE DEF w
<1>3. ASSUME IsLetter(c) PROVE WithCtrl(w) \in 1..277
  BY <1>1, <1>3 DEF WithCtrl, IsLower, IsUpper
<1>4. ASSUME ~IsLetter(c) PROVE WithCtrl(w) = c
  BY <1>2, <1>4 DEF WithCtrl, IsLetter
<1> QED BY <1>3, <1>4 DEF w

(* Keys that type nothing type 0; the others type a key code.                  *)
LEMMA TypedFacts ==
  ASSUME NEW k \in Keys, k.sc \notin ModifierCodes \/ k.ext
  PROVE  /\ k.kind \in {"letter", "char", "special", "none"}
         /\ k.kind = "none" => Typed(k) = 0
         /\ k.kind # "none" => Typed(k) \in 1..277
<1>1. /\ KeyMeans(k)
      /\ k.kind \in Kinds /\ k.lo \in 0..277 /\ k.hi \in 0..277
  BY KeyFacts
<1>2. k.kind \in {"letter", "char", "special", "none"}
  BY <1>1 DEF KeyMeans, Kinds, ModifierCodes
<1>3. CASE k.kind = "none"
  BY <1>1, <1>3 DEF KeyMeans, Typed, PlainKey, WithCaps, WithCtrl, IsLower, IsUpper
<1>4. CASE k.kind = "special"
  BY <1>1, <1>4 DEF KeyMeans, Typed, PlainKey
<1>5. CASE k.kind \in {"letter", "char"}
  <2>. DEFINE c == IF shift_pressed THEN k.hi ELSE k.lo
  <2>1. ~k.ext /\ FunctionKey(k.sc) = 0 /\ k.lo = keymap_lower(k.sc) /\ k.hi = keymap_upper(k.sc)
    BY <1>1, <1>5 DEF KeyMeans
  <2>2. Typed(k) = WithCtrl(WithCaps(c))
    BY <2>1, Zenon DEF Typed, PlainKey
  <2>3. c \in 0..277
    BY <1>1
  <2>4. IsLetter(c) \/ c # 0
    <3>1. CASE k.kind = "letter"
      BY <1>1, <3>1 DEF KeyMeans, IsLetter, IsLower, IsUpper
    <3>2. CASE k.kind = "char"
      BY <1>1, <3>2 DEF KeyMeans
    <3> QED BY <1>5, <3>1, <3>2
  <2>. HIDE DEF c
  <2>5. WithCtrl(WithCaps(c)) \in 1..277
    <3>1. IsLetter(c) => WithCtrl(WithCaps(c)) \in 1..277
      BY <2>3, ModifiedFacts, Zenon
    <3>2. ~IsLetter(c) => WithCtrl(WithCaps(c)) = c
      BY <2>3, ModifiedFacts, Zenon
    <3>3. c # 0 => c \in 1..277
      BY <2>3
    <3> QED BY <2>4, <3>1, <3>2, <3>3, Zenon
  <2> QED BY <1>2, <1>5, <2>2, <2>5
<1> QED BY <1>2, <1>3, <1>4, <1>5

(* The handler receives a prefix, or the byte that ends the event.              *)
LEMMA HandlerCases ==
  ASSUME Ps2Inv, keyboard_handler
  PROVE  /\ wire.key \in Keys /\ wire.press \in BOOLEAN /\ UNCHANGED poll
         /\ \/ /\ wire.key.ext /\ ~extended /\ PrefixByte /\ UNCHANGED held
               /\ wire' = [key |-> wire.key, press |-> wire.press,
                           bytes |-> <<Code(wire.key, wire.press)>>]
            \/ /\ wire' = Idle /\ held' = HeldAfter(wire)
               /\ extended = wire.key.ext
               /\ LET sc == Code(wire.key, wire.press)
                  IN  ExtendedByte(sc) \/ ModifierByte(sc) \/ PlainByte(sc)
<1>. DEFINE k == wire.key
            p == wire.press
            c == Code(k, p)
<1>1. wire # Idle
  BY DEF keyboard_handler, Idle
<1>2. k \in Keys /\ p \in BOOLEAN /\ UNCHANGED poll
  BY <1>1 DEF Ps2Inv, WireOK, keyboard_handler
<1>3. k.ext \in BOOLEAN /\ c # 224
  BY <1>2, KeyFacts, CodeFacts
<1>4. CASE k.ext /\ wire = [key |-> k, press |-> p, bytes |-> <<224, c>>]
  <2>1. wire.bytes = <<224, c>> /\ Head(<<224, c>>) = 224 /\ Len(<<224, c>>) = 2
        /\ Tail(<<224, c>>) = <<c>>
    BY <1>4
  <2>2. PrefixByte /\ UNCHANGED held /\ wire' = [wire EXCEPT !.bytes = <<c>>]
    BY <2>1 DEF keyboard_handler
  <2>3. wire' = [key |-> k, press |-> p, bytes |-> <<c>>]
    BY <1>4, <2>2
  <2>4. ~extended
    <3>1. Len(wire.bytes) # 1
      BY <2>1
    <3>2. extended = (wire # Idle /\ wire.key.ext /\ Len(wire.bytes) = 1)
      BY DEF Ps2Inv, ModifiersFollow
    <3> QED BY <3>1, <3>2
  <2> QED BY <1>2, <1>4, <2>2, <2>3, <2>4
<1>5. CASE wire = [key |-> k, press |-> p, bytes |-> <<c>>]
  <2>1. wire.bytes = <<c>> /\ Head(<<c>>) = c /\ Len(<<c>>) = 1
    BY <1>5
  <2>2. wire' = Idle /\ held' = HeldAfter(wire)
    BY <2>1 DEF keyboard_handler
  <2>3. ExtendedByte(c) \/ ModifierByte(c) \/ PlainByte(c)
    BY <1>3, <2>1 DEF keyboard_handler
  <2>4. extended = k.ext
    BY <1>1, <1>3, <2>1 DEF Ps2Inv, TypeOK, ModifiersFollow
  <2> QED BY <1>2, <2>2, <2>3, <2>4
<1> QED BY <1>1, <1>4, <1>5 DEF Ps2Inv, WireOK, Bytes

(* What the byte that ends an event does, in terms of the key: the modifiers     *)
(* follow their own keys only, Caps Lock toggles when it is pressed, and a     *)
(* press of a key that types something is put into the buffer.               *)
EventEnds(k, p) ==
  /\ wire' = Idle /\ held' = HeldAfter(wire) /\ extended' = FALSE
  /\ shift_pressed' = IF k.kind = "shift" THEN p ELSE shift_pressed
  /\ ctrl_pressed' = IF k.kind = "ctrl" THEN p ELSE ctrl_pressed
  /\ alt_pressed' = IF k.kind = "alt" THEN p ELSE alt_pressed
  /\ caps_pressed' = (caps_pressed # (p /\ k.kind = "caps"))
  /\ IF p /\ k.kind \in {"letter", "char", "special"}
       THEN Typed(k) \in 1..277 /\ buf_put(Typed(k)) ELSE UNCHANGED bufVars

(* The prefix keeps extended keys apart from the keys whose code they share.    *)
LEMMA FinalByte ==
  ASSUME NEW k \in Keys, NEW p \in BOOLEAN, TypeOK, extended = k.ext,
         wire' = Idle, held' = HeldAfter(wire),
         \/ ExtendedByte(Code(k, p))
         \/ ModifierByte(Code(k, p))
         \/ PlainByte(Code(k, p))
  PROVE  EventEnds(k, p)
<1>. DEFINE c == Code(k, p)
<1>1. /\ c \in 1..255 /\ c % 128 = k.sc /\ (p <=> c < 128) /\ (p => c = k.sc)
      /\ (c = 58 <=> p /\ k.sc = 58)
  BY CodeFacts
<1>2. KeyMeans(k) /\ k.kind \in Kinds /\ k.sc \in 1..127 /\ k.ext \in BOOLEAN
  BY KeyFacts
<1>3. /\ shift_pressed \in BOOLEAN /\ ctrl_pressed \in BOOLEAN /\ alt_pressed \in BOOLEAN
      /\ caps_pressed \in BOOLEAN
  BY DEF TypeOK
<1>. HIDE DEF c
(* Keys that are not modifiers, prefixed or not.                               *)
<1>4. ASSUME k.kind \in {"letter", "char", "special", "none"},
             k.sc \notin ModifierCodes \/ k.ext,
             extended' = FALSE, UNCHANGED modVars,
             IF c >= 128 THEN UNCHANGED bufVars ELSE PutIfAny(Typed(k))
      PROVE  EventEnds(k, p)
  <2>1. /\ k.kind = "none" => Typed(k) = 0
        /\ k.kind # "none" => Typed(k) \in 1..277
    BY <1>4, TypedFacts
  <2>2. IF p /\ k.kind \in {"letter", "char", "special"}
          THEN Typed(k) \in 1..277 /\ buf_put(Typed(k)) ELSE UNCHANGED bufVars
    <3>1. CASE ~p
      BY <1>1, <1>4, <3>1
    <3>2. CASE p /\ k.kind = "none"
      BY <1>1, <1>4, <2>1, <3>2 DEF PutIfAny
    <3>3. CASE p /\ k.kind # "none"
      <4>1. PutIfAny(Typed(k))
        BY <1>1, <1>4, <3>3
      <4>2. buf_put(Typed(k))
        BY <2>1, <3>3, <4>1 DEF PutIfAny
      <4> QED BY <1>4, <2>1, <3>3, <4>2
    <3> QED BY <3>1, <3>2, <3>3
  <2>3. /\ shift_pressed' = IF k.kind = "shift" THEN p ELSE shift_pressed
        /\ ctrl_pressed' = IF k.kind = "ctrl" THEN p ELSE ctrl_pressed
        /\ alt_pressed' = IF k.kind = "alt" THEN p ELSE alt_pressed
    BY <1>4 DEF modVars
  <2>4. caps_pressed' = (caps_pressed # (p /\ k.kind = "caps"))
    BY <1>3, <1>4 DEF modVars
  <2> QED BY <1>4, <2>2, <2>3, <2>4 DEF EventEnds
<1>5. CASE ExtendedByte(c)
  <2>1. k.ext /\ k.kind \in {"letter", "char", "special", "none"}
    BY <1>2, <1>5 DEF ExtendedByte, KeyMeans, Kinds
  <2>2. IF c >= 128 THEN UNCHANGED bufVars ELSE PutIfAny(Typed(k))
    BY <1>1, <1>5, <2>1 DEF ExtendedByte, Typed
  <2> QED BY <1>4, <1>5, <2>1, <2>2 DEF ExtendedByte
<1>6. CASE PlainByte(c)
  <2>1. ~k.ext /\ k.sc \notin ModifierCodes
    BY <1>1, <1>6 DEF PlainByte
  <2>2. k.kind \in {"letter", "char", "special", "none"}
    BY <2>1, TypedFacts
  <2>3. IF c >= 128 THEN UNCHANGED bufVars ELSE PutIfAny(Typed(k))
    BY <1>1, <1>6, <2>1 DEF PlainByte, Typed
  <2>4. extended' = FALSE /\ UNCHANGED modVars
    BY <1>6 DEF PlainByte, TypeOK
  <2> QED BY <1>4, <2>1, <2>2, <2>3, <2>4
<1>7. CASE ModifierByte(c)
  <2>1. ~k.ext /\ k.sc \in ModifierCodes /\ UNCHANGED bufVars /\ extended' = FALSE
    BY <1>1, <1>7 DEF ModifierByte, TypeOK
  <2>2. k.kind \in {"shift", "ctrl", "alt", "caps"}
    BY <1>2, <2>1 DEF KeyMeans, ModifierCodes
  <2>3. /\ k.kind = "shift" <=> k.sc \in {42, 54}
        /\ k.kind = "ctrl" <=> k.sc = 29
        /\ k.kind = "alt" <=> k.sc = 56
        /\ k.kind = "caps" <=> k.sc = 58
    BY <1>2, <2>1 DEF KeyMeans
  <2>4. /\ shift_pressed' = IF k.kind = "shift" THEN p ELSE shift_pressed
        /\ ctrl_pressed' = IF k.kind = "ctrl" THEN p ELSE ctrl_pressed
        /\ alt_pressed' = IF k.kind = "alt" THEN p ELSE alt_pressed
    BY <1>1, <1>7, <2>3 DEF ModifierByte
  <2>5. caps_pressed' = (caps_pressed # (p /\ k.kind = "caps"))
    BY <1>1, <1>7, <2>3 DEF ModifierByte
  <2> QED BY <2>1, <2>2, <2>4, <2>5 DEF EventEnds
<1> QED BY <1>5, <1>6, <1>7 DEF c

-----------------------------------------------------------------------------
(***************************************************************************)
(* The ring buffer.                                                        *)
(***************************************************************************)
(* One round of the ring at most is ever added or subtracted.                  *)
LEMMA RoundOnce ==
  ASSUME NEW n \in Nat \ {0}, NEW a \in Int
  PROVE  /\ a \in 0..(n - 1) => a % n = a
         /\ a \in n..(2 * n - 1) => a % n = a - n
         /\ a \in (-n)..(-1) => a % n = a + n
<1>1. a \in 0..(n - 1) => a % n = a
  OBVIOUS
<1>2. a \in n..(2 * n - 1) => a % n = a - n
  OBVIOUS
<1>3. a \in (-n)..(-1) => a % n = a + n
  OBVIOUS
<1> QED BY <1>1, <1>2, <1>3

(* The distance between two slots, and the slot at a distance, without %.        *)
LEMMA RingFacts ==
  ASSUME NEW h \in Slot, NEW t \in Slot
  PROVE  /\ (h - t) % KEYBUF_SIZE = IF h >= t THEN h - t ELSE h - t + KEYBUF_SIZE
         /\ (h + 1) % KEYBUF_SIZE = IF h + 1 < KEYBUF_SIZE THEN h + 1 ELSE 0
         /\ \A i \in 0..(KEYBUF_SIZE - 1) :
              (t + i) % KEYBUF_SIZE =
                IF t + i < KEYBUF_SIZE THEN t + i ELSE t + i - KEYBUF_SIZE
<1>1. /\ KEYBUF_SIZE \in Nat \ {0} /\ h \in Int /\ t \in Int
      /\ 0 <= h /\ h < KEYBUF_SIZE /\ 0 <= t /\ t < KEYBUF_SIZE
  BY Ps2Assumption DEF Slot
<1>2. ASSUME NEW a \in Int, 0 <= a, a < 2 * KEYBUF_SIZE
      PROVE  a % KEYBUF_SIZE = IF a < KEYBUF_SIZE THEN a ELSE a - KEYBUF_SIZE
  <2>1. CASE a < KEYBUF_SIZE
    <3>1. a \in 0..(KEYBUF_SIZE - 1)
      BY <1>1, <1>2, <2>1
    <3> QED BY <1>1, <2>1, <3>1, RoundOnce
  <2>2. CASE ~(a < KEYBUF_SIZE)
    <3>1. a \in KEYBUF_SIZE..(2 * KEYBUF_SIZE - 1)
      BY <1>1, <1>2, <2>2
    <3> QED BY <1>1, <2>2, <3>1, RoundOnce
  <2> QED BY <2>1, <2>2
<1>3. (h - t) % KEYBUF_SIZE = IF h >= t THEN h - t ELSE h - t + KEYBUF_SIZE
  <2>1. CASE h >= t
    <3>1. h - t \in Int /\ 0 <= h - t /\ h - t < KEYBUF_SIZE /\ h - t < 2 * KEYBUF_SIZE
      BY <1>1, <2>1
    <3> QED BY <1>2, <2>1, <3>1
  <2>2. CASE ~(h >= t)
    <3>1. h - t \in (-KEYBUF_SIZE)..(-1) /\ h - t \in Int
      BY <1>1, <2>2
    <3> QED BY <1>1, <2>2, <3>1, RoundOnce
  <2> QED BY <2>1, <2>2
<1>4. (h + 1) % KEYBUF_SIZE = IF h + 1 < KEYBUF_SIZE THEN h + 1 ELSE 0
  <2>. DEFINE a == h + 1
  <2>1. a \in Int /\ 0 <= a /\ a < 2 * KEYBUF_SIZE /\ a <= KEYBUF_SIZE
    BY <1>1
  <2>. HIDE DEF a
  <2>2. a % KEYBUF_SIZE = IF a < KEYBUF_SIZE THEN a ELSE a - KEYBUF_SIZE
    BY <1>2, <2>1
  <2>3. a % KEYBUF_SIZE = IF a < KEYBUF_SIZE THEN a ELSE 0
    BY <1>1, <2>1, <2>2
  <2> QED BY <2>3 DEF a
<1>5. ASSUME NEW i \in 0..(KEYBUF_SIZE - 1)
      PROVE  (t + i) % KEYBUF_SIZE =
               IF t + i < KEYBUF_SIZE THEN t + i ELSE t + i - KEYBUF_SIZE
  <2>. DEFINE a == t + i
  <2>1. a \in Int /\ 0 <= a /\ a < 2 * KEYBUF_SIZE
    BY <1>1
  <2>. HIDE DEF a
  <2>2. a % KEYBUF_SIZE = IF a < KEYBUF_SIZE THEN a ELSE a - KEYBUF_SIZE
    BY <1>2, <2>1
  <2> QED BY <1>1, <2>1, <2>2 DEF a
<1> QED BY <1>3, <1>4, <1>5

Place(i) == (keybuf_tail + i) % KEYBUF_SIZE

(* The number of keys that wait, and where the i-th of them is.                 *)
LEMMA PendingFacts ==
  ASSUME keybuf_head \in Slot, keybuf_tail \in Slot
  PROVE  /\ Pending = IF keybuf_head >= keybuf_tail THEN keybuf_head - keybuf_tail
                      ELSE keybuf_head - keybuf_tail + KEYBUF_SIZE
         /\ Pending \in 0..(KEYBUF_SIZE - 1)
         /\ \A i \in 0..(KEYBUF_SIZE - 1) :
              /\ Place(i) = IF keybuf_tail + i < KEYBUF_SIZE THEN keybuf_tail + i
                            ELSE keybuf_tail + i - KEYBUF_SIZE
              /\ Place(i) \in Slot
<1>1. KEYBUF_SIZE \in Nat \ {0}
  BY Ps2Assumption
<1>2. Pending = IF keybuf_head >= keybuf_tail THEN keybuf_head - keybuf_tail
                ELSE keybuf_head - keybuf_tail + KEYBUF_SIZE
  BY RingFacts DEF Pending
<1>3. \A i \in 0..(KEYBUF_SIZE - 1) :
        Place(i) = IF keybuf_tail + i < KEYBUF_SIZE THEN keybuf_tail + i
                   ELSE keybuf_tail + i - KEYBUF_SIZE
  BY RingFacts DEF Place
<1> QED BY <1>1, <1>2, <1>3 DEF Slot

(* The same after a step.                                                    *)
LEMMA PendingPrimed ==
  ASSUME keybuf_head' \in Slot, keybuf_tail' \in Slot
  PROVE  /\ Pending' = IF keybuf_head' >= keybuf_tail' THEN keybuf_head' - keybuf_tail'
                       ELSE keybuf_head' - keybuf_tail' + KEYBUF_SIZE
         /\ \A i \in 0..(KEYBUF_SIZE - 1) :
              Place(i)' = IF keybuf_tail' + i < KEYBUF_SIZE THEN keybuf_tail' + i
                          ELSE keybuf_tail' + i - KEYBUF_SIZE
<1>1. Pending' = (keybuf_head' - keybuf_tail') % KEYBUF_SIZE
  BY DEF Pending
<1>2. \A i : Place(i)' = (keybuf_tail' + i) % KEYBUF_SIZE
  BY DEF Place
<1> QED BY <1>1, <1>2, RingFacts

(* buf_put drops the key when one slot only is left; otherwise it appends.      *)
LEMMA PutFacts ==
  ASSUME TypeOK, NEW v \in 1..277, buf_put(v)
  PROVE  /\ keybuf' \in [Slot -> 0..277] /\ keybuf_head' \in Slot /\ UNCHANGED keybuf_tail
         /\ \/ Pending = KEYBUF_SIZE - 1 /\ UNCHANGED bufVars
            \/ /\ Pending < KEYBUF_SIZE - 1
               /\ Pending' = Pending + 1
               /\ \A i \in 0..(Pending - 1) : keybuf'[Place(i)] = keybuf[Place(i)]
               /\ keybuf'[Place(Pending)] = v
<1>. DEFINE nxt == (keybuf_head + 1) % KEYBUF_SIZE
<1>0. /\ KEYBUF_SIZE \in Nat \ {0, 1} /\ keybuf_head \in Slot /\ keybuf_tail \in Slot
      /\ keybuf \in [Slot -> 0..277]
      /\ keybuf_head \in Int /\ 0 <= keybuf_head /\ keybuf_head < KEYBUF_SIZE
      /\ keybuf_tail \in Int /\ 0 <= keybuf_tail /\ keybuf_tail < KEYBUF_SIZE
  BY Ps2Assumption DEF TypeOK, Slot
<1>1. /\ Pending = IF keybuf_head >= keybuf_tail THEN keybuf_head - keybuf_tail
                   ELSE keybuf_head - keybuf_tail + KEYBUF_SIZE
      /\ Pending \in 0..(KEYBUF_SIZE - 1)
  BY <1>0, PendingFacts
<1>p. \A i \in 0..(KEYBUF_SIZE - 1) :
           /\ Place(i) = IF keybuf_tail + i < KEYBUF_SIZE THEN keybuf_tail + i
                         ELSE keybuf_tail + i - KEYBUF_SIZE
           /\ Place(i) \in Slot
  BY <1>0, PendingFacts
<1>2. nxt = (IF keybuf_head + 1 < KEYBUF_SIZE THEN keybuf_head + 1 ELSE 0) /\ nxt \in Slot
  <2>1. nxt = (IF keybuf_head + 1 < KEYBUF_SIZE THEN keybuf_head + 1 ELSE 0)
    BY <1>0, RingFacts
  <2>. HIDE DEF nxt
  <2> QED BY <1>0, <2>1 DEF Slot
<1>3. UNCHANGED keybuf_tail
  BY DEF buf_put
<1>4. CASE nxt = keybuf_tail
  <2>1. UNCHANGED bufVars
    BY <1>4 DEF buf_put, bufVars
  <2>2. Pending = KEYBUF_SIZE - 1
    <3>. HIDE DEF nxt
    <3> QED BY <1>0, <1>1, <1>2, <1>4
  <2> QED BY <1>0, <2>1, <2>2 DEF bufVars
<1>5. CASE nxt # keybuf_tail
  <2>1. keybuf' = [keybuf EXCEPT ![keybuf_head] = v] /\ keybuf_head' = nxt
    BY <1>5 DEF buf_put
  <2>. HIDE DEF nxt
  <2>2. Pending < KEYBUF_SIZE - 1
    BY <1>0, <1>1, <1>2, <1>5
  <2>3. Pending' = Pending + 1
    <3>1. Pending' = IF nxt >= keybuf_tail THEN nxt - keybuf_tail
                     ELSE nxt - keybuf_tail + KEYBUF_SIZE
      BY <1>0, <1>2, <1>3, <2>1, PendingPrimed
    <3> QED BY <1>0, <1>1, <1>2, <1>5, <3>1
  <2>4. Place(Pending) = keybuf_head
    BY <1>0, <1>1, <1>p
  <2>5. \A i \in 0..(Pending - 1) : Place(i) \in Slot /\ Place(i) # keybuf_head
    BY <1>0, <1>1, <1>p
  <2>6. /\ \A i \in 0..(Pending - 1) : keybuf'[Place(i)] = keybuf[Place(i)]
        /\ keybuf'[Place(Pending)] = v
    BY <1>0, <2>1, <2>4, <2>5
  <2>7. keybuf' \in [Slot -> 0..277]
    BY <1>0, <2>1
  <2> QED BY <1>2, <1>3, <2>1, <2>2, <2>3, <2>6, <2>7
<1> QED BY <1>4, <1>5

(* The new tail takes the first waiting key away and no other.                 *)
LEMMA AdvanceFacts ==
  ASSUME TypeOK, Pending > 0, keybuf_tail' = (keybuf_tail + 1) % KEYBUF_SIZE,
         UNCHANGED <<keybuf, keybuf_head>>
  PROVE  /\ keybuf_tail' \in Slot
         /\ Pending' = Pending - 1
         /\ \A i \in 0..(Pending - 2) : Place(i)' = Place(i + 1)
         /\ Place(0) = keybuf_tail
<1>0. /\ KEYBUF_SIZE \in Nat \ {0, 1} /\ keybuf_head \in Slot /\ keybuf_tail \in Slot
      /\ keybuf_head \in Int /\ 0 <= keybuf_head /\ keybuf_head < KEYBUF_SIZE
      /\ keybuf_tail \in Int /\ 0 <= keybuf_tail /\ keybuf_tail < KEYBUF_SIZE
  BY Ps2Assumption DEF TypeOK, Slot
<1>1. /\ Pending = IF keybuf_head >= keybuf_tail THEN keybuf_head - keybuf_tail
                   ELSE keybuf_head - keybuf_tail + KEYBUF_SIZE
      /\ Pending \in 0..(KEYBUF_SIZE - 1)
      /\ \A i \in 0..(KEYBUF_SIZE - 1) :
           Place(i) = IF keybuf_tail + i < KEYBUF_SIZE THEN keybuf_tail + i
                      ELSE keybuf_tail + i - KEYBUF_SIZE
  BY <1>0, PendingFacts
<1>2. keybuf_tail' = IF keybuf_tail + 1 < KEYBUF_SIZE THEN keybuf_tail + 1 ELSE 0
  BY <1>0, RingFacts
<1>3. keybuf_tail' \in Slot /\ keybuf_head' \in Slot
  BY <1>0, <1>2 DEF Slot
<1>4. /\ Pending' = IF keybuf_head >= keybuf_tail' THEN keybuf_head - keybuf_tail'
                    ELSE keybuf_head - keybuf_tail' + KEYBUF_SIZE
      /\ \A i \in 0..(KEYBUF_SIZE - 1) :
           Place(i)' = IF keybuf_tail' + i < KEYBUF_SIZE THEN keybuf_tail' + i
                       ELSE keybuf_tail' + i - KEYBUF_SIZE
  BY <1>3, PendingPrimed
<1>5. Pending' = Pending - 1
  BY <1>0, <1>1, <1>2, <1>4
<1>6. ASSUME NEW i \in 0..(Pending - 2) PROVE Place(i)' = Place(i + 1)
  <2>1. i \in 0..(KEYBUF_SIZE - 1) /\ i + 1 \in 0..(KEYBUF_SIZE - 1)
    BY <1>0, <1>1
  <2>2. Place(i + 1) = IF keybuf_tail + (i + 1) < KEYBUF_SIZE THEN keybuf_tail + (i + 1)
                       ELSE keybuf_tail + (i + 1) - KEYBUF_SIZE
    BY <1>1, <2>1
  <2>3. Place(i)' = IF keybuf_tail' + i < KEYBUF_SIZE THEN keybuf_tail' + i
                    ELSE keybuf_tail' + i - KEYBUF_SIZE
    BY <1>4, <2>1
  <2> QED BY <1>0, <1>2, <2>1, <2>2, <2>3
<1>7. Place(0) = keybuf_tail
  BY <1>0, <1>1
<1> QED BY <1>3, <1>5, <1>6, <1>7

-----------------------------------------------------------------------------
(***************************************************************************)
(* The inductive invariant.                                                *)
(***************************************************************************)
(* ps2_init: no key waits and none is held.                                   *)
LEMMA Ps2Init == Init => Ps2Inv
<1>. SUFFICES ASSUME Init PROVE Ps2Inv
  OBVIOUS
<1>1. 0 \in Slot /\ KEYBUF_SIZE \in Nat \ {0}
  BY Ps2Assumption DEF Slot
<1>2. Pending = 0
  BY <1>1, PendingFacts DEF Init
<1>3. TypeOK
  <2>1. keybuf \in [Slot -> 0..277]
    BY DEF Init
  <2>2. poll \in [at : {"out", "read", "advance"}, c : {NoKey} \cup 1..277]
    BY DEF Init
  <2> QED BY <1>1, <2>1, <2>2 DEF Init, TypeOK
<1>4. ModifiersFollow
  BY DEF Init, ModifiersFollow
<1>5. PollSafe /\ PendingKeys
  BY <1>2 DEF Init, PollSafe, PendingKeys
<1>6. WireOK /\ HeldOK
  BY DEF Init, WireOK, HeldOK
<1> QED BY <1>3, <1>4, <1>5, <1>6 DEF Ps2Inv

(* The handler never disturbs the key that a poll is reading.                  *)
LEMMA BufferKept ==
  ASSUME Ps2Inv, UNCHANGED poll,
         (\E v \in 1..277 : buf_put(v)) \/ UNCHANGED bufVars
  PROVE  /\ keybuf' \in [Slot -> 0..277] /\ keybuf_head' \in Slot /\ keybuf_tail' \in Slot
         /\ PollSafe' /\ PendingKeys'
<1>. USE DEF Ps2Inv
<1>0. TypeOK /\ keybuf_head \in Slot /\ keybuf_tail \in Slot
  BY DEF TypeOK
<1>1. CASE UNCHANGED bufVars
  <2>1. Pending' = Pending
    BY <1>1 DEF bufVars, Pending
  <2> QED BY <1>0, <1>1, <2>1 DEF bufVars, PollSafe, PendingKeys, TypeOK
<1>2. ASSUME NEW v \in 1..277, buf_put(v),
             Pending < KEYBUF_SIZE - 1, Pending' = Pending + 1,
             \A i \in 0..(Pending - 1) : keybuf'[Place(i)] = keybuf[Place(i)],
             keybuf'[Place(Pending)] = v, UNCHANGED keybuf_tail
      PROVE  PollSafe' /\ PendingKeys'
  <2>1. Pending \in Nat
    BY <1>0, PendingFacts
  <2>2. PendingKeys'
    <3>. SUFFICES ASSUME NEW i \in 0..Pending
                  PROVE  keybuf'[(keybuf_tail + i) % KEYBUF_SIZE] # 0
      BY <1>2, <2>1 DEF PendingKeys
    <3>1. CASE i = Pending
      BY <1>2, <3>1 DEF Place
    <3>2. CASE i \in 0..(Pending - 1)
      BY <1>2, <3>2 DEF Place, PendingKeys
    <3> QED BY <2>1, <3>1, <3>2
  <2>3. Pending > 0 => keybuf'[keybuf_tail] = keybuf[keybuf_tail]
    <3>1. Place(0) = keybuf_tail
      BY <1>0, PendingFacts, Ps2Assumption DEF Slot
    <3> QED BY <1>2, <2>1, <3>1
  <2>4. PollSafe'
    BY <1>2, <2>1, <2>3 DEF PollSafe
  <2> QED BY <2>2, <2>4
<1>3. ASSUME NEW v \in 1..277, buf_put(v)
      PROVE  /\ keybuf' \in [Slot -> 0..277] /\ keybuf_head' \in Slot /\ keybuf_tail' \in Slot
             /\ PollSafe' /\ PendingKeys'
  <2>1. /\ keybuf' \in [Slot -> 0..277] /\ keybuf_head' \in Slot /\ UNCHANGED keybuf_tail
        /\ \/ Pending = KEYBUF_SIZE - 1 /\ UNCHANGED bufVars
           \/ /\ Pending < KEYBUF_SIZE - 1
              /\ Pending' = Pending + 1
              /\ \A i \in 0..(Pending - 1) : keybuf'[Place(i)] = keybuf[Place(i)]
              /\ keybuf'[Place(Pending)] = v
    BY <1>0, <1>3, PutFacts
  <2> QED BY <1>0, <1>1, <1>2, <1>3, <2>1
<1> QED BY <1>1, <1>3

(* There is one Ctrl key and one Alt key that is not extended.                 *)
LEMMA OneOfEach ==
  ASSUME NEW g \in Keys, NEW h \in Keys, g.kind = h.kind, g.kind \in {"ctrl", "alt"}
  PROVE  g = h
<1>1. g.sc = h.sc /\ g.ext = h.ext /\ g.lo = h.lo /\ g.hi = h.hi
  BY KeyFacts DEF KeyMeans
<1> QED BY <1>1, Ps2Assumption

(* The end of an event leaves the flags and the keys that are down in step.     *)
LEMMA EventInv ==
  ASSUME Ps2Inv, UNCHANGED poll, wire.key \in Keys, wire.press \in BOOLEAN,
         EventEnds(wire.key, wire.press), wire # Idle
  PROVE  Ps2Inv'
<1>. USE DEF Ps2Inv
<1>. DEFINE k == wire.key
            p == wire.press
<1>0. TypeOK /\ held \subseteq Keys /\ HeldOK
  BY DEF TypeOK
<1>1. /\ keybuf' \in [Slot -> 0..277] /\ keybuf_head' \in Slot /\ keybuf_tail' \in Slot
      /\ PollSafe' /\ PendingKeys'
  BY BufferKept DEF EventEnds
<1>2. held' = IF k.kind \notin {"shift", "ctrl", "alt"} THEN held
              ELSE IF p THEN held \cup {k} ELSE held \ {k}
  BY DEF EventEnds, HeldAfter
<1>3. /\ shift_pressed = (\E h \in held : h.kind = "shift")
      /\ ctrl_pressed = (\E h \in held : h.kind = "ctrl")
      /\ alt_pressed = (\E h \in held : h.kind = "alt")
  BY DEF ModifiersFollow
<1>4. k.kind = "shift" => \A h \in held : h.kind = "shift" => h = k
  BY DEF WireOK
<1>5. /\ k.kind = "ctrl" => \A h \in held : h.kind = "ctrl" => h = k
      /\ k.kind = "alt" => \A h \in held : h.kind = "alt" => h = k
  BY <1>0, OneOfEach
<1>6. shift_pressed' = (\E h \in held' : h.kind = "shift")
  <2>1. shift_pressed' = IF k.kind = "shift" THEN p ELSE shift_pressed
    BY DEF EventEnds
  <2> QED BY <1>2, <1>3, <1>4, <2>1
<1>7. ctrl_pressed' = (\E h \in held' : h.kind = "ctrl")
  <2>1. ctrl_pressed' = IF k.kind = "ctrl" THEN p ELSE ctrl_pressed
    BY DEF EventEnds
  <2> QED BY <1>2, <1>3, <1>5, <2>1
<1>8. alt_pressed' = (\E h \in held' : h.kind = "alt")
  <2>1. alt_pressed' = IF k.kind = "alt" THEN p ELSE alt_pressed
    BY DEF EventEnds
  <2> QED BY <1>2, <1>3, <1>5, <2>1
<1>9. wire' = Idle /\ extended' = FALSE
  BY DEF EventEnds
<1>10. ModifiersFollow'
  BY <1>6, <1>7, <1>8, <1>9 DEF ModifiersFollow
<1>11. WireOK' /\ HeldOK'
  BY <1>0, <1>2, <1>4, <1>9 DEF WireOK, HeldOK
<1>12. TypeOK'
  <2>1. held' \subseteq Keys
    BY <1>0, <1>2
  <2>2. caps_pressed' \in BOOLEAN
    BY DEF EventEnds
  <2>3. shift_pressed' \in BOOLEAN /\ ctrl_pressed' \in BOOLEAN /\ alt_pressed' \in BOOLEAN
    BY <1>6, <1>7, <1>8
  <2>4. poll' \in [at : {"out", "read", "advance"}, c : {NoKey} \cup 1..277]
    BY <1>0 DEF TypeOK
  <2> QED BY <1>1, <1>9, <2>1, <2>2, <2>3, <2>4 DEF TypeOK
<1> QED BY <1>1, <1>10, <1>11, <1>12

(* A key event is put on the wire.                                           *)
LEMMA SendInv ==
  ASSUME Ps2Inv, NEW k \in Keys, NEW p \in BOOLEAN, Send(k, p),
         k.kind = "shift" => \A h \in held : h.kind = "shift" => h = k
  PROVE  Ps2Inv'
<1>. USE DEF Ps2Inv
<1>1. /\ wire = Idle /\ wire' = [key |-> k, press |-> p, bytes |-> Bytes(k, p)]
      /\ UNCHANGED <<bufVars, modVars, extended, poll, held>>
  BY DEF Send
<1>2. wire'.key = k /\ wire'.press = p /\ wire'.bytes = Bytes(k, p)
  BY <1>1
<1>3. WireOK'
  BY <1>1, <1>2 DEF WireOK
<1>4. HeldOK' /\ TypeOK'
  BY <1>1 DEF HeldOK, TypeOK, bufVars, modVars
<1>5. PollSafe' /\ PendingKeys'
  BY <1>1, BufferKept
<1>6. ModifiersFollow'
  <2>1. extended' = FALSE
    BY <1>1 DEF ModifiersFollow
  <2>2. ~(wire'.key.ext /\ Len(wire'.bytes) = 1)
    <3>1. k.ext => Bytes(k, p) = <<224, Code(k, p)>>
      BY DEF Bytes
    <3>2. Len(<<224, Code(k, p)>>) = 2
      OBVIOUS
    <3> QED BY <1>2, <3>1, <3>2
  <2>3. /\ shift_pressed' = (\E h \in held' : h.kind = "shift")
        /\ ctrl_pressed' = (\E h \in held' : h.kind = "ctrl")
        /\ alt_pressed' = (\E h \in held' : h.kind = "alt")
    BY <1>1 DEF ModifiersFollow, modVars
  <2> QED BY <2>1, <2>2, <2>3 DEF ModifiersFollow
<1> QED BY <1>3, <1>4, <1>5, <1>6

(* A step of ps2_poll that leaves the keyboard alone.                          *)
LEMMA PollInv ==
  ASSUME Ps2Inv, UNCHANGED <<modVars, extended, wire, held>>,
         keybuf' \in [Slot -> 0..277], keybuf_head' \in Slot, keybuf_tail' \in Slot,
         poll' \in [at : {"out", "read", "advance"}, c : {NoKey} \cup 1..277],
         PollSafe', PendingKeys'
  PROVE  Ps2Inv'
<1>1. TypeOK'
  BY DEF Ps2Inv, TypeOK, modVars
<1>2. ModifiersFollow' /\ WireOK' /\ HeldOK'
  BY DEF Ps2Inv, ModifiersFollow, WireOK, HeldOK, modVars
<1> QED BY <1>1, <1>2 DEF Ps2Inv

(* Every byte, every key event and every step of a poll keeps the invariant.    *)
LEMMA Ps2Step == Ps2Inv /\ [Next]_vars => Ps2Inv'
<1>. SUFFICES ASSUME Ps2Inv, [Next]_vars PROVE Ps2Inv'
  OBVIOUS
<1>. USE DEF Ps2Inv
<1>a. /\ keybuf \in [Slot -> 0..277] /\ keybuf_head \in Slot /\ keybuf_tail \in Slot
      /\ poll \in [at : {"out", "read", "advance"}, c : {NoKey} \cup 1..277]
  BY DEF TypeOK
<1>0. CASE UNCHANGED vars
  <2>1. UNCHANGED <<bufVars, modVars, extended, wire, held, poll>>
    BY <1>0 DEF vars
  <2>2. PollSafe' /\ PendingKeys'
    BY <2>1, BufferKept
  <2> QED BY <1>a, <2>1, <2>2, PollInv DEF bufVars
<1>1. CASE keyboard_handler
  <2>0. wire.key \in Keys /\ wire.press \in BOOLEAN /\ UNCHANGED poll /\ wire # Idle
    BY <1>1, HandlerCases DEF keyboard_handler, Idle
  <2>1. CASE /\ wire.key.ext /\ ~extended /\ PrefixByte /\ UNCHANGED held
             /\ wire' = [key |-> wire.key, press |-> wire.press,
                         bytes |-> <<Code(wire.key, wire.press)>>]
    <3>1. extended' = TRUE /\ UNCHANGED <<bufVars, modVars, held, poll>>
      BY <2>0, <2>1 DEF PrefixByte
    <3>2. /\ wire'.key = wire.key /\ wire'.press = wire.press
          /\ wire'.bytes = <<Code(wire.key, wire.press)>>
      BY <2>1
    <3>3. PollSafe' /\ PendingKeys'
      BY <3>1, BufferKept
    <3>4. WireOK'
      BY <2>0, <2>1, <3>1, <3>2 DEF WireOK
    <3>5. HeldOK' /\ TypeOK'
      BY <1>a, <3>1 DEF HeldOK, TypeOK, bufVars, modVars
    <3>6. ModifiersFollow'
      <4>1. Len(wire'.bytes) = 1 /\ wire'.key.ext
        BY <2>1, <3>2
      <4>2. wire' # Idle
        <5>1. wire'.bytes # Idle.bytes
          BY <3>2 DEF Idle
        <5> QED BY <5>1
      <4>3. /\ shift_pressed' = (\E h \in held' : h.kind = "shift")
            /\ ctrl_pressed' = (\E h \in held' : h.kind = "ctrl")
            /\ alt_pressed' = (\E h \in held' : h.kind = "alt")
        BY <3>1 DEF ModifiersFollow, modVars
      <4> QED BY <3>1, <4>1, <4>2, <4>3 DEF ModifiersFollow
    <3> QED BY <3>3, <3>4, <3>5, <3>6
  <2>2. CASE /\ wire' = Idle /\ held' = HeldAfter(wire)
             /\ extended = wire.key.ext
             /\ LET sc == Code(wire.key, wire.press)
                IN  ExtendedByte(sc) \/ ModifierByte(sc) \/ PlainByte(sc)
    <3>1. EventEnds(wire.key, wire.press)
      BY <2>0, <2>2, FinalByte
    <3> QED BY <2>0, <3>1, EventInv
  <2> QED BY <1>1, <2>1, <2>2, HandlerCases
<1>2. ASSUME NEW k \in Keys, KeyDown(k) PROVE Ps2Inv'
  BY <1>2, SendInv DEF KeyDown
<1>3. ASSUME NEW k \in Keys, KeyUp(k) PROVE Ps2Inv'
  BY <1>3, SendInv DEF KeyUp, HeldOK
<1>4. CASE PollTest
  <2>1. UNCHANGED <<bufVars, modVars, extended, wire, held>>
    BY <1>4 DEF PollTest
  <2>2. Pending' = Pending /\ UNCHANGED <<keybuf, keybuf_head, keybuf_tail>>
    BY <2>1 DEF bufVars, Pending
  <2>3. poll' = [at |-> IF keybuf_head # keybuf_tail THEN "read" ELSE "out", c |-> NoKey]
    BY <1>4 DEF PollTest
  <2>4. keybuf_head # keybuf_tail => Pending > 0
    BY <1>a, PendingFacts, Ps2Assumption DEF Slot
  <2>5. PollSafe' /\ PendingKeys'
    BY <2>2, <2>3, <2>4 DEF PollSafe, PendingKeys
  <2>6. poll' \in [at : {"out", "read", "advance"}, c : {NoKey} \cup 1..277]
    BY <2>3
  <2> QED BY <1>a, <2>1, <2>2, <2>5, <2>6, PollInv
<1>5. CASE PollRead
  <2>1. UNCHANGED <<bufVars, modVars, extended, wire, held>> /\ poll.at = "read"
    BY <1>5 DEF PollRead
  <2>2. Pending' = Pending /\ UNCHANGED <<keybuf, keybuf_head, keybuf_tail>>
    BY <2>1 DEF bufVars, Pending
  <2>3. poll' = [at |-> "advance", c |-> keybuf[keybuf_tail]]
    BY <1>5 DEF PollRead
  <2>4. Pending > 0 /\ Pending \in Nat
    BY <1>a, <2>1, PendingFacts DEF PollSafe
  <2>5. PollSafe' /\ PendingKeys'
    BY <2>2, <2>3, <2>4 DEF PollSafe, PendingKeys
  <2>6. keybuf[keybuf_tail] \in 1..277
    <3>1. Place(0) = keybuf_tail
      BY <1>a, PendingFacts, Ps2Assumption DEF Slot
    <3>2. keybuf[Place(0)] # 0
      BY <2>4 DEF PendingKeys, Place
    <3> QED BY <1>a, <3>1, <3>2
  <2>7. poll' \in [at : {"out", "read", "advance"}, c : {NoKey} \cup 1..277]
    BY <2>3, <2>6
  <2> QED BY <1>a, <2>1, <2>2, <2>5, <2>7, PollInv
<1>6. CASE PollAdvance
  <2>1. /\ UNCHANGED <<keybuf, keybuf_head, modVars, extended, wire, held>>
        /\ keybuf_tail' = (keybuf_tail + 1) % KEYBUF_SIZE
        /\ poll.at = "advance" /\ poll' = [poll EXCEPT !.at = "out"]
    BY <1>6 DEF PollAdvance
  <2>2. Pending > 0 /\ Pending \in Nat
    BY <1>a, <2>1, PendingFacts DEF PollSafe
  <2>3. /\ keybuf_tail' \in Slot /\ Pending' = Pending - 1
        /\ \A i \in 0..(Pending - 2) : Place(i)' = Place(i + 1)
    BY <2>1, <2>2, AdvanceFacts
  <2>4. PendingKeys'
    <3>. SUFFICES ASSUME NEW i \in 0..(Pending - 2)
                  PROVE  keybuf'[(keybuf_tail' + i) % KEYBUF_SIZE] # 0
      BY <2>2, <2>3 DEF PendingKeys
    <3>1. i + 1 \in 0..(Pending - 1) /\ Place(i)' = Place(i + 1)
      BY <2>2, <2>3
    <3>2. keybuf[Place(i + 1)] # 0
      BY <3>1 DEF PendingKeys, Place
    <3> QED BY <2>1, <3>1, <3>2 DEF Place
  <2>5. poll'.at = "out"
    BY <1>a, <2>1
  <2>6. PollSafe'
    BY <2>5 DEF PollSafe
  <2>7. poll' \in [at : {"out", "read", "advance"}, c : {NoKey} \cup 1..277]
    BY <1>a, <2>1
  <2> QED BY <1>a, <2>1, <2>3, <2>4, <2>6, <2>7, PollInv
<1> QED BY <1>0, <1>1, <1>2, <1>3, <1>4, <1>5, <1>6 DEF Next

(* Ps2Inv holds in every behaviour of the driver.                             *)
LEMMA Ps2Invariant == Spec => []Ps2Inv
BY Ps2Init, Ps2Step, PTL DEF Spec

(* The indices stay inside keybuf, and ps2_poll never returns 0.               *)
THEOREM Ps2Types == Spec => []TypeOK
<1>1. Ps2Inv => TypeOK
  BY DEF Ps2Inv
<1> QED BY <1>1, Ps2Invariant, PTL

(* Whatever bytes come in whatever order of key events, a modifier is on         *)
(* exactly while its key is down.                                           *)
THEOREM FlagsFollowKeys == Spec => []ModifiersFollow
<1>1. Ps2Inv => ModifiersFollow
  BY DEF Ps2Inv
<1> QED BY <1>1, Ps2Invariant, PTL

(* Wherever in ps2_poll the interrupt comes, the key that is being read stays     *)
(* where it is.                                                            *)
THEOREM PollIsSafe == Spec => []PollSafe
<1>1. Ps2Inv => PollSafe
  BY DEF Ps2Inv
<1> QED BY <1>1, Ps2Invariant, PTL

-----------------------------------------------------------------------------
(***************************************************************************)
(* The refinement: the driver implements module KeyQueue.                     *)
(***************************************************************************)
(* What the handler makes of a key under its flags is what the queue makes of   *)
(* it under the keys that are down.                                          *)
LEMMA TypedIsMeaning ==
  ASSUME Ps2Inv, NEW k \in Keys, k.kind \in {"letter", "char", "special"}
  PROVE  Typed(k) = Queue!Meaning(k)
<1>1. /\ KeyMeans(k)
      /\ k.lo \in 0..277 /\ k.hi \in 0..277
  BY KeyFacts
<1>2. /\ shift_pressed \in BOOLEAN /\ ctrl_pressed \in BOOLEAN /\ caps_pressed \in BOOLEAN
      /\ shift_pressed = Queue!Held("shift") /\ ctrl_pressed = Queue!Held("ctrl")
  BY DEF Ps2Inv, TypeOK, ModifiersFollow, Queue!Held
<1>3. CASE k.kind = "special"
  <2>1. Typed(k) = k.lo
    BY <1>1, <1>3 DEF KeyMeans, Typed, PlainKey
  <2>2. Queue!Meaning(k) = k.lo
    BY <1>3 DEF Queue!Meaning
  <2> QED BY <2>1, <2>2
<1>4. CASE k.kind = "char"
  <2>1. Typed(k) = IF shift_pressed THEN k.hi ELSE k.lo
    BY <1>1, <1>2, <1>4 DEF KeyMeans, Typed, PlainKey, WithCaps, WithCtrl, IsLower, IsUpper, IsLetter
  <2>2. Queue!Meaning(k) = IF Queue!Held("shift") THEN k.hi ELSE k.lo
    BY <1>4 DEF Queue!Meaning
  <2> QED BY <1>2, <2>1, <2>2
<1>5. CASE k.kind = "letter"
  <2>1. Typed(k) = IF ctrl_pressed THEN k.hi - 64
                   ELSE IF caps_pressed # shift_pressed THEN k.hi ELSE k.lo
    BY <1>1, <1>2, <1>5 DEF KeyMeans, Typed, PlainKey, WithCaps, WithCtrl, IsLower, IsUpper
  <2>2. Queue!Meaning(k) = IF Queue!Held("ctrl") THEN k.hi - 64
                           ELSE IF caps_pressed # Queue!Held("shift") THEN k.hi ELSE k.lo
    BY <1>5 DEF Queue!Meaning
  <2> QED BY <1>2, <2>1, <2>2
<1> QED BY <1>3, <1>4, <1>5

(* The queue is a sequence of the keys that wait.                             *)
QueueOK ==
  /\ Pending \in 0..(KEYBUF_SIZE - 1)
  /\ Queued \in Seq(0..277) /\ Len(Queued) = Pending
  /\ \A i \in 1..Pending : Queued[i] = keybuf[Place(i - 1)]

(* The queue that the ring buffer stands for is well formed.             *)
LEMMA QueuedFacts == TypeOK => QueueOK
<1>. SUFFICES ASSUME TypeOK PROVE QueueOK
  OBVIOUS
<1>0. keybuf_head \in Slot /\ keybuf_tail \in Slot /\ keybuf \in [Slot -> 0..277]
  BY DEF TypeOK
<1>1. /\ Pending \in 0..(KEYBUF_SIZE - 1)
      /\ \A i \in 0..(KEYBUF_SIZE - 1) : Place(i) \in Slot
      /\ keybuf_tail \in Int /\ KEYBUF_SIZE \in Nat \ {0}
  <2>1. keybuf_tail \in Int /\ KEYBUF_SIZE \in Nat \ {0}
    BY <1>0, Ps2Assumption DEF Slot
  <2> QED BY <1>0, <2>1, PendingFacts
<1>2. ASSUME NEW i \in 1..Pending
      PROVE  /\ Queued[i] = keybuf[Place(i - 1)] /\ Queued[i] \in 0..277
  <2>1. i - 1 \in 0..(KEYBUF_SIZE - 1) /\ keybuf_tail + i - 1 = keybuf_tail + (i - 1)
    BY <1>1
  <2>2. Queued[i] = keybuf[(keybuf_tail + (i - 1)) % KEYBUF_SIZE]
    BY <2>1 DEF Queued
  <2> QED BY <1>0, <1>1, <2>1, <2>2 DEF Place
<1>3. Queued = [i \in 1..Pending |-> Queued[i]]
  BY DEF Queued
<1>4. Queued \in [1..Pending -> 0..277]
  BY <1>2, <1>3
<1> QED BY <1>1, <1>2, <1>4 DEF QueueOK

(* The same of the next state.                                              *)
LEMMA QueuedPrimed == TypeOK' => QueueOK'
BY QueuedFacts, PTL

(* A step that leaves the buffer alone leaves the queue alone.                  *)
LEMMA QueuedKept ==
  ASSUME UNCHANGED bufVars
  PROVE  Queued' = Queued
BY DEF bufVars, Queued, Pending

(* A press that finds room appends its key; one that does not is dropped.       *)
LEMMA QueuedPut ==
  ASSUME TypeOK, TypeOK', NEW v \in 1..277, buf_put(v)
  PROVE  Queued' = IF Len(Queued) < KEYBUF_SIZE - 1 THEN Append(Queued, v) ELSE Queued
<1>1. /\ Pending \in 0..(KEYBUF_SIZE - 1) /\ KEYBUF_SIZE \in Nat
      /\ Queued \in Seq(0..277) /\ Len(Queued) = Pending
      /\ \A i \in 1..Pending : Queued[i] = keybuf[Place(i - 1)]
  BY QueuedFacts, Ps2Assumption DEF QueueOK
<1>2. /\ Queued' \in Seq(0..277) /\ Len(Queued') = Pending'
      /\ \A i \in 1..(Pending') : Queued'[i] = keybuf'[Place(i - 1)']
  BY QueuedPrimed DEF QueueOK
<1>3. UNCHANGED keybuf_tail
  BY PutFacts
<1>4. CASE Pending = KEYBUF_SIZE - 1 /\ UNCHANGED bufVars
  BY <1>1, <1>4, QueuedKept
<1>5. CASE /\ Pending < KEYBUF_SIZE - 1
           /\ Pending' = Pending + 1
           /\ \A i \in 0..(Pending - 1) : keybuf'[Place(i)] = keybuf[Place(i)]
           /\ keybuf'[Place(Pending)] = v
  <2>1. \A i : Place(i)' = Place(i)
    BY <1>3 DEF Place
  <2>2. Append(Queued, v) \in Seq(0..277) /\ Len(Append(Queued, v)) = Pending + 1
    BY <1>1
  <2>3. ASSUME NEW i \in 1..(Pending + 1)
        PROVE  Queued'[i] = Append(Queued, v)[i]
    <3>1. Queued'[i] = keybuf'[Place(i - 1)]
      BY <1>2, <1>5, <2>1
    <3>2. CASE i = Pending + 1
      <4>1. i - 1 = Pending
        BY <1>1, <3>2
      <4>2. Append(Queued, v)[i] = v
        BY <1>1, <3>2
      <4> QED BY <1>5, <3>1, <4>1, <4>2
    <3>3. CASE i \in 1..Pending
      <4>1. i - 1 \in 0..(Pending - 1)
        BY <1>1, <3>3
      <4>2. Append(Queued, v)[i] = Queued[i]
        BY <1>1, <3>3
      <4> QED BY <1>1, <1>5, <3>1, <3>3, <4>1, <4>2
    <3> QED BY <1>1, <3>2, <3>3
  <2>4. Queued' = Append(Queued, v)
    BY <1>2, <1>5, <2>2, <2>3, SeqEqual
  <2> QED BY <1>1, <1>5, <2>4
<1> QED BY <1>4, <1>5, PutFacts, ZenonT(40)

(* Storing the new tail takes the first key off the queue.                      *)
LEMMA QueuedAdvance ==
  ASSUME TypeOK, TypeOK', Pending > 0, keybuf_tail' = (keybuf_tail + 1) % KEYBUF_SIZE,
         UNCHANGED <<keybuf, keybuf_head>>
  PROVE  /\ Queued # <<>> /\ Head(Queued) = keybuf[keybuf_tail]
         /\ Queued' = Tail(Queued)
<1>1. /\ Pending \in 0..(KEYBUF_SIZE - 1) /\ KEYBUF_SIZE \in Nat
      /\ Queued \in Seq(0..277) /\ Len(Queued) = Pending
      /\ \A i \in 1..Pending : Queued[i] = keybuf[Place(i - 1)]
  BY QueuedFacts, Ps2Assumption DEF QueueOK
<1>2. /\ Queued' \in Seq(0..277) /\ Len(Queued') = Pending'
      /\ \A i \in 1..(Pending') : Queued'[i] = keybuf'[Place(i - 1)']
  BY QueuedPrimed DEF QueueOK
<1>3. /\ Pending' = Pending - 1
      /\ \A i \in 0..(Pending - 2) : Place(i)' = Place(i + 1)
      /\ Place(0) = keybuf_tail
  BY AdvanceFacts
<1>4. Queued # <<>> /\ Head(Queued) = Queued[1]
  BY <1>1
<1>5. Queued[1] = keybuf[Place(0)]
  BY <1>1
<1>6. Tail(Queued) \in Seq(0..277) /\ Len(Tail(Queued)) = Pending - 1
  BY <1>1, <1>4
<1>7. ASSUME NEW i \in 1..(Pending - 1)
      PROVE  Queued'[i] = Tail(Queued)[i]
  <2>1. i - 1 \in 0..(Pending - 2) /\ (i - 1) + 1 = i /\ (i + 1) - 1 = i /\ i + 1 \in 1..Pending
    BY <1>1
  <2>2. Place(i - 1)' = Place((i - 1) + 1)
    BY <1>3, <2>1
  <2>3. Queued'[i] = keybuf[Place(i)]
    BY <1>2, <1>3, <2>1, <2>2
  <2>4. Queued[i + 1] = keybuf[Place((i + 1) - 1)]
    BY <1>1, <2>1
  <2>5. Tail(Queued)[i] = Queued[i + 1]
    BY <1>1, <1>4
  <2> QED BY <2>1, <2>3, <2>4, <2>5
<1>8. Queued' = Tail(Queued)
  BY <1>2, <1>3, <1>6, <1>7, SeqEqual
<1> QED BY <1>3, <1>4, <1>5, <1>8

(* The buffer starts as the empty queue.                                      *)
LEMMA QueueInit == Init => Queue!Init
<1>. SUFFICES ASSUME Init PROVE Queue!Init
  OBVIOUS
<1>1. 0 \in Slot /\ KEYBUF_SIZE \in Nat \ {0}
  BY Ps2Assumption DEF Slot
<1>2. Pending = 0
  BY <1>1, PendingFacts DEF Init
<1>3. Queued = <<>>
  BY <1>2 DEF Queued
<1> QED BY <1>3 DEF Init, Queue!Init, Got, NoKey, Queue!NoKey

(* Every step of the driver is a step of the queue or none.                     *)
LEMMA QueueStep == Ps2Inv /\ Ps2Inv' /\ [Next]_vars => [Queue!Next]_(Queue!vars)
<1>. SUFFICES ASSUME Ps2Inv, Ps2Inv', [Next]_vars PROVE [Queue!Next]_(Queue!vars)
  OBVIOUS
<1>a. /\ TypeOK /\ TypeOK' /\ PollSafe
      /\ poll \in [at : {"out", "read", "advance"}, c : {NoKey} \cup 1..277]
  BY DEF Ps2Inv, TypeOK
<1>b. ASSUME UNCHANGED <<bufVars, held, caps_pressed>>, Got' = Got
      PROVE  [Queue!Next]_(Queue!vars)
  BY <1>b, QueuedKept DEF Queue!vars
<1>0. CASE UNCHANGED vars
  <2>1. UNCHANGED <<bufVars, held, caps_pressed>> /\ UNCHANGED poll
    BY <1>0 DEF vars, modVars
  <2> QED BY <1>b, <2>1 DEF Got
<1>1. CASE keyboard_handler
  <2>0. wire.key \in Keys /\ wire.press \in BOOLEAN /\ UNCHANGED poll
    BY <1>1, HandlerCases
  <2>a. Got' = Got
    BY <2>0 DEF Got
  <2>1. CASE wire.key.ext /\ ~extended /\ PrefixByte /\ UNCHANGED held
    <3>1. UNCHANGED <<bufVars, held, caps_pressed>>
      BY <2>1 DEF PrefixByte, modVars
    <3> QED BY <1>b, <2>a, <3>1
  <2>2. CASE /\ wire' = Idle /\ held' = HeldAfter(wire)
             /\ extended = wire.key.ext
             /\ LET sc == Code(wire.key, wire.press)
                IN  ExtendedByte(sc) \/ ModifierByte(sc) \/ PlainByte(sc)
    <3>. DEFINE k == wire.key
    <3>1. EventEnds(k, wire.press)
      BY <1>a, <2>0, <2>2, FinalByte
    <3>2. caps_pressed' = (caps_pressed # (wire.press /\ k.kind = "caps"))
      BY <3>1 DEF EventEnds
    <3>3. held' = IF k.kind \notin {"shift", "ctrl", "alt"} THEN held
                  ELSE IF wire.press THEN held \cup {k} ELSE held \ {k}
      BY <3>1 DEF EventEnds, HeldAfter
    <3>4. CASE wire.press
      <4>1. Queued' = IF k.kind \in {"letter", "char", "special"} /\ Len(Queued) < KEYBUF_SIZE - 1
                        THEN Append(Queued, Queue!Meaning(k)) ELSE Queued
        <5>1. CASE k.kind \in {"letter", "char", "special"}
          <6>1. Typed(k) \in 1..277 /\ buf_put(Typed(k))
            BY <3>1, <3>4, <5>1 DEF EventEnds
          <6>2. Typed(k) = Queue!Meaning(k)
            BY <2>0, <5>1, TypedIsMeaning
          <6> QED BY <1>a, <5>1, <6>1, <6>2, QueuedPut
        <5>2. CASE k.kind \notin {"letter", "char", "special"}
          <6>1. UNCHANGED bufVars
            BY <3>1, <5>2 DEF EventEnds
          <6> QED BY <5>2, <6>1, QueuedKept
        <5> QED BY <5>1, <5>2
      <4>2. held' = IF k.kind \in {"shift", "ctrl", "alt"} THEN held \cup {k} ELSE held
        BY <3>3, <3>4
      <4>3. caps_pressed' = (caps_pressed # (k.kind = "caps"))
        BY <3>2, <3>4
      <4>4. Queue!Press(k)
        BY <2>a, <4>1, <4>2, <4>3 DEF Queue!Press
      <4> QED BY <2>0, <4>4 DEF Queue!Next
    <3>5. CASE ~wire.press
      <4>1. UNCHANGED bufVars
        BY <3>1, <3>5 DEF EventEnds
      <4>2. held' = held \ {k}
        BY <3>3, <3>5 DEF Ps2Inv, HeldOK
      <4>3. caps_pressed' = caps_pressed
        BY <1>a, <3>2, <3>5 DEF TypeOK
      <4>4. Queue!Release(k)
        BY <2>a, <4>1, <4>2, <4>3, QueuedKept DEF Queue!Release
      <4> QED BY <2>0, <4>4 DEF Queue!Next
    <3> QED BY <2>0, <3>4, <3>5
  <2> QED BY <1>1, <2>1, <2>2, HandlerCases
<1>2. ASSUME NEW k \in Keys, NEW p \in BOOLEAN, Send(k, p)
      PROVE  [Queue!Next]_(Queue!vars)
  <2>1. UNCHANGED <<bufVars, held, caps_pressed>> /\ UNCHANGED poll
    BY <1>2 DEF Send, modVars
  <2> QED BY <1>b, <2>1 DEF Got
<1>3. CASE PollTest
  <2>1. UNCHANGED <<bufVars, held, caps_pressed>>
    BY <1>3 DEF PollTest, modVars
  <2>2. Got' = NoKey
    BY <1>3 DEF PollTest, Got
  <2>3. Queue!Await
    BY <2>1, <2>2, QueuedKept DEF Queue!Await, NoKey, Queue!NoKey
  <2> QED BY <2>3 DEF Queue!Next
<1>4. CASE PollRead
  <2>1. UNCHANGED <<bufVars, held, caps_pressed>>
    BY <1>4 DEF PollRead, modVars
  <2>2. Got' = NoKey /\ Got = NoKey
    BY <1>4 DEF PollRead, Got
  <2> QED BY <1>b, <2>1, <2>2
<1>5. CASE PollAdvance
  <2>1. /\ UNCHANGED <<keybuf, keybuf_head, held, caps_pressed>>
        /\ keybuf_tail' = (keybuf_tail + 1) % KEYBUF_SIZE
        /\ poll.at = "advance" /\ poll' = [poll EXCEPT !.at = "out"]
    BY <1>5 DEF PollAdvance, modVars
  <2>2. Pending > 0 /\ poll.c = keybuf[keybuf_tail]
    BY <1>a, <2>1 DEF PollSafe
  <2>3. Got' = poll.c
    BY <1>a, <2>1 DEF Got
  <2>4. Queue!Deliver
    BY <1>a, <2>1, <2>2, <2>3, QueuedAdvance DEF Queue!Deliver
  <2> QED BY <2>4 DEF Queue!Next
<1> QED BY <1>0, <1>1, <1>2, <1>3, <1>4, <1>5 DEF Next, KeyDown, KeyUp

(* The handler and ps2_poll together are a queue: each press that finds room is  *)
(* delivered once, in the order of the presses, as what the modifiers held      *)
(* when its last byte came make of it.                                       *)
THEOREM DriverIsQueue == Spec => ImplementsQueue
<1>1. ImplementsQueue <=> Queue!Init /\ [][Queue!Next]_(Queue!vars)
  BY DEF ImplementsQueue, Queue!Spec
<1> QED BY <1>1, Ps2Invariant, QueueInit, QueueStep, PTL DEF Spec


=============================================================================
