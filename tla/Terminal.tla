------------------------------ MODULE Terminal ------------------------------
(***************************************************************************)
(* What the console promises: a tape of width * height cells, written from   *)
(* left to right and from top to bottom as if the lines were joined, and a   *)
(* position on it.  What runs off the end pushes the first line out.         *)
(***************************************************************************)
EXTENDS Integers

CONSTANTS
  TAB,      (* distance of the tab stops                                    *)
  Width,    (* the widths and                                              *)
  Height,   (* the heights a terminal may have                              *)
  Glyph     (* what a cell holds                                           *)

VARIABLES width, height, tape, pos

vars == <<width, height, tape, pos>>

Smaller(a, b) == IF a <= b THEN a ELSE b

(* The first cell of the line of cell p.                                     *)
Line(p, w) == (p \div w) * w

(* The tape t with position q, which may be one line too far.                *)
Settle(t, q) ==
  IF q < width * height
    THEN tape' = t /\ pos' = q
    ELSE /\ tape' = [i \in DOMAIN t |-> IF i + width \in DOMAIN t THEN t[i + width] ELSE " "]
         /\ pos' = q - width

Write(c) == Settle([tape EXCEPT ![pos] = c], pos + 1)

Newline == Settle(tape, Line(pos, width) + width)

Return == Settle(tape, Line(pos, width))

(* The tab stops restart on every line, and the next line is one.             *)
Tabulate ==
  Settle(tape, Line(pos, width)
                 + Smaller(width, ((pos % width) \div TAB + 1) * TAB))

Erase ==
  LET q == IF pos = 0 THEN 0 ELSE pos - 1
  IN  Settle([tape EXCEPT ![q] = " "], q)

Move(d) ==
  /\ pos + d \in DOMAIN tape
  /\ pos' = pos + d
  /\ UNCHANGED tape

(* The cells keep their line and column, as far as there is room.             *)
Resize(w, h) ==
  /\ width' = w
  /\ height' = h
  /\ tape' = [i \in 0..(w * h - 1) |->
                IF i % w < width /\ i \div w < height
                  THEN tape[(i \div w) * width + (i % w)] ELSE " "]
  /\ pos' = Smaller(pos \div width, h - 1) * w + Smaller(pos % width, w - 1)

Init ==
  /\ width \in Width
  /\ height \in Height
  /\ tape = [i \in 0..(width * height - 1) |-> " "]
  /\ pos = 0

Next ==
  \/ /\ \/ \E c \in Glyph : Write(c)
        \/ Newline
        \/ Return
        \/ Tabulate
        \/ Erase
        \/ \E d \in {-1, 1, -width, width} : Move(d)
     /\ UNCHANGED <<width, height>>
  \/ \E w \in Width, h \in Height : Resize(w, h)

Spec == Init /\ [][Next]_vars

=============================================================================
