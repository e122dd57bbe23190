------------------------------ MODULE MCDrawing ------------------------------
(***************************************************************************)
(* Drawing on a display of 4 x 6 pixels.  A byte has two bits and a glyph  *)
(* is two pixels wide and one high: three pages behind a window of two, so *)
(* that the second window is short.                                        *)
(***************************************************************************)
EXTENDS Drawing

CONSTANTS letter, unprintable

MCGlyph == [c \in {letter} |-> {<<0, 0>>}]

MCXs == {-2, -1, 0, 2, 4}
MCYs == {-1, 0, 1, 3, 5}
MCSizes == {-1, 0, 1, 3, 5}
MCBands == {1, 2, 3}

\* On all sides of the display.
MCEnds == (-3..6) \X {-3, -1, 0, 2, 4, 5, 6, 8}
MCCentres == (-6..5) \X (-2..7)
MCRadii == -1..8

\* Before and on the display, and at the end of int16_t.
MCStarts == {<<-3, 0>>, <<0, -1>>, <<1, 3>>, <<1, 5>>, <<10, 4>>, <<0, 10>>}
MCTexts == UNION {[1..n -> {letter, unprintable, "\n", "\r"}] : n \in 0..4}
==============================================================================
