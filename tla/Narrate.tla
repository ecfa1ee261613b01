------------------------------ MODULE Narrate ------------------------------
(***************************************************************************)
(* What becomes of a client's output on its way to the user                *)
(* (internal/narrate/narrate.go): a stream of bytes cut into lines, each   *)
(* shown and kept for a replay.  Pure: a narrator is a record, each        *)
(* operation what it is afterwards.                                        *)
(*                                                                         *)
(* Output is a sequence of glyphs, NL the newline; a line is the glyphs    *)
(* between two.  How a line is worded and styled is left out: every branch *)
(* of render and translate prints its line once.                           *)
(***************************************************************************)
EXTENDS Naturals, Sequences

CONSTANTS
  Glyph, NL,
  RawLimit   \* lines kept for a replay

ASSUME NarrateAssumption == RawLimit \in Nat \ {0} /\ NL \in Glyph

Quiet == [partial |-> <<>>, raw |-> <<>>, failed |-> FALSE, shown |-> <<>>]

Begin(n) == [Quiet EXCEPT !.partial = n.partial]

Keep(n, line) ==
  [n EXCEPT !.raw = Append(IF Len(@) >= RawLimit THEN Tail(@) ELSE @, line)]

Emit(n, line) == [Keep(n, line) EXCEPT !.shown = Append(@, line)]

\* Half a line waits for the rest.
Take(n, glyph) ==
  IF glyph = NL THEN Emit([n EXCEPT !.partial = <<>>], n.partial)
  ELSE [n EXCEPT !.partial = Append(@, glyph)]

\* The narrator after each of the glyphs.
Taken(n, glyphs) ==
  LET after[i \in 0 .. Len(glyphs)] == IF i = 0 THEN n ELSE Take(after[i - 1], glyphs[i])
  IN after

Write(n, glyphs) == Taken(n, glyphs)[Len(glyphs)]

Flush(n) == IF n.partial = <<>> THEN n ELSE Emit([n EXCEPT !.partial = <<>>], n.partial)

\* Mutant of End: a line left unterminated stays behind.
EndUnflushed(n, failed) == [n EXCEPT !.failed = failed]

End(n, failed) == [Flush(n) EXCEPT !.failed = failed]

\* What the process prints again when it ends with an error.
Replay(n) == IF n.failed THEN n.raw ELSE <<>>
=============================================================================
