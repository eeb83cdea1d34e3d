------------------------------- MODULE MCPs2 -------------------------------
(***************************************************************************)
(* A keyboard with a letter, a digit, the two Shift keys, Ctrl, Alt, Caps      *)
(* Lock, an extended key, and the right Ctrl key, which shares its scancode    *)
(* with the left one and means nothing to the driver.                        *)
(***************************************************************************)
EXTENDS Ps2

Key(kind, sc, ext, lo, hi) ==
  [kind |-> kind, sc |-> sc, ext |-> ext, lo |-> lo, hi |-> hi]

MCKeys ==
  {Key("letter", 30, FALSE, 97, 65),
   Key("char", 2, FALSE, 49, 33),
   Key("shift", 42, FALSE, 0, 0),
   Key("shift", 54, FALSE, 0, 0),
   Key("ctrl", 29, FALSE, 0, 0),
   Key("alt", 56, FALSE, 0, 0),
   Key("caps", 58, FALSE, 0, 0),
   Key("special", 72, TRUE, 256, 256),
   Key("none", 29, TRUE, 0, 0)}

=============================================================================
