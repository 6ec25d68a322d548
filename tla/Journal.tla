------------------------------- MODULE Journal -------------------------------
(***************************************************************************)
(* What the logger promises the program: lines come to the disk in the     *)
(* order in which they were logged, none twice and none left out; only the *)
(* oldest lines are ever removed from the disk; and lines that are not on  *)
(* the disk yet are lost only when the logger goes down, by its            *)
(* destruction or by the death of the process. A line here is what one     *)
(* call writes, with the ends of older lines it may trail (LogLines).       *)
(***************************************************************************)
EXTENDS LogLines

CONSTANT Lines

VARIABLES
  pending,       \* lines logged, not on the disk
  disk,          \* lines on the disk, the oldest first
  up             \* there is a logger

journalVars == <<pending, disk, up>>

JournalInit == pending = <<>> /\ disk = <<>> /\ up = FALSE

Log(line) ==
  /\ up
  /\ pending' = Append(pending, line)
  /\ UNCHANGED <<disk, up>>

\* The first n pending lines become the last lines of the disk.
Stored(n) == disk' = disk \o SubSeq(pending, 1, n)

Store(n) ==
  /\ up
  /\ Stored(n)
  /\ pending' = SubSeq(pending, n + 1, Len(pending))
  /\ UNCHANGED up

RemoveOld(n) ==
  /\ disk' = SubSeq(disk, n + 1, Len(disk))
  /\ UNCHANGED <<pending, up>>

GoUp == up = FALSE /\ up' = TRUE /\ UNCHANGED <<pending, disk>>

\* A dying process may have some of its last write on the disk, and a line in it
\* may be broken off.
GoDown(n) ==
  /\ up /\ up' = FALSE
  /\ Stored(n) \/ (n > 0 /\ disk' = disk \o BrokenOff(pending, n))
  /\ pending' = <<>>

JournalNext ==
  \/ \E line \in Lines : Log(line)
  \/ \E n \in 0..Len(pending) : Store(n) \/ GoDown(n)
  \/ \E n \in 0..Len(disk) : RemoveOld(n)
  \/ GoUp

JournalSpec == JournalInit /\ [][JournalNext]_journalVars
=============================================================================
