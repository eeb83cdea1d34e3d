------------------------------ MODULE KeyQueue ------------------------------
(***************************************************************************)
(* What the keyboard driver promises: each key press that means something    *)
(* is queued with the meaning that the modifiers then held give it, unless   *)
(* the queue is full; presses are delivered once each, in order.             *)
(*                                                                         *)
(* A key is a record: kind says what it does, lo and hi what it types alone   *)
(* and with Shift.                                                         *)
(***************************************************************************)
EXTENDS Integers, Sequences

CONSTANTS
  Keys,      (* the keys of the keyboard                                    *)
  Capacity   (* key presses the queue holds                                 *)

NoKey == -1

VARIABLES
  queue,   (* the presses not yet delivered                                 *)
  held,    (* the modifier keys that are down                               *)
  caps,    (* Caps Lock is on                                               *)
  got      (* what the last poll delivered                                  *)

vars == <<queue, held, caps, got>>

Held(kind) == \E k \in held : k.kind = kind

(* Ctrl makes a control code of a letter; Caps Lock inverts Shift for letters; *)
(* a key that is no character means itself.                                 *)
Meaning(k) ==
  CASE k.kind = "letter" /\ Held("ctrl") -> k.hi - 64
    [] k.kind = "letter" /\ ~Held("ctrl") -> IF caps # Held("shift") THEN k.hi ELSE k.lo
    [] k.kind = "char" -> IF Held("shift") THEN k.hi ELSE k.lo
    [] OTHER -> k.lo

Init ==
  /\ queue = <<>>
  /\ held = {}
  /\ caps = FALSE
  /\ got = NoKey

Press(k) ==
  /\ queue' = IF k.kind \in {"letter", "char", "special"} /\ Len(queue) < Capacity
                THEN Append(queue, Meaning(k)) ELSE queue
  /\ held' = IF k.kind \in {"shift", "ctrl", "alt"} THEN held \cup {k} ELSE held
  /\ caps' = (caps # (k.kind = "caps"))
  /\ UNCHANGED got

Release(k) ==
  /\ held' = held \ {k}
  /\ UNCHANGED <<queue, caps, got>>

Deliver ==
  /\ queue # <<>>
  /\ got' = Head(queue)
  /\ queue' = Tail(queue)
  /\ UNCHANGED <<held, caps>>

(* A poll begins, or ends without a key.                                     *)
Await ==
  /\ got' = NoKey
  /\ UNCHANGED <<queue, held, caps>>

Next ==
  \/ \E k \in Keys : Press(k) \/ Release(k)
  \/ Deliver
  \/ Await

Spec == Init /\ [][Next]_vars

=============================================================================
