------------------------------- MODULE LogLines -------------------------------
(***************************************************************************)
(* What one call to the logger writes: a line, with its number. In a       *)
(* synchronous logger it may trail what older, longer lines left in the    *)
(* buffer, their ends. A line on the disk may be broken off.               *)
(***************************************************************************)
EXTENDS Naturals, Sequences

WholeLine(no, trails) == [no |-> no, trails |-> trails, whole |-> TRUE]

\* The first n of these lines, the last of them broken off.
BrokenOff(lines, n) ==
  Append(SubSeq(lines, 1, n - 1), [lines[n] EXCEPT !.whole = FALSE])
=============================================================================
