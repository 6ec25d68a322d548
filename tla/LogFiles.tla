------------------------------- MODULE LogFiles -------------------------------
(***************************************************************************)
(* The files of mmrUtil::CLogger and their rotation, CLogger::fileSizeCheck: *)
(* the log itself and up to m_fileNum older ones, .1 being the youngest.   *)
(* A rotation is several calls to the file system; the process may die     *)
(* between any two of them, and the files stay as they are.                *)
(*                                                                         *)
(* A file is the sequence of its lines, and its size is their number.      *)
(***************************************************************************)
EXTENDS Integers, Sequences

CONSTANT
  Settings       \* the pairs of m_fileNum and m_fileSize to choose from

ASSUME FilesAssumption == Settings \subseteq Nat \X Nat

VARIABLES
  m_fileNum,     \* a setting of the program, the same in all its runs
  m_fileSize,    \* another, in lines: a longer file is rotated
  files,         \* the files that exist: Current, and n for the file ".n"
  rot,           \* where fileSizeCheck is, "none" outside of it
  nLogNumIndex

settings == <<m_fileNum, m_fileSize>>
fileVars == <<settings, files, rot, nLogNumIndex>>

Current == -1    \* m_strFilePath

FilesInit ==
  /\ \E s \in Settings : m_fileNum = s[1] /\ m_fileSize = s[2]
  /\ files = [n \in {} |-> <<>>]
  /\ rot = "none" /\ nLogNumIndex = 0

Content(n) == IF n \in DOMAIN files THEN files[n] ELSE <<>>

\* open with app: the file is created if it is not there.
WithCurrent(fs) ==
  [n \in DOMAIN fs \cup {Current} |-> IF n \in DOMAIN fs THEN fs[n] ELSE <<>>]

\* write and flush, at the end of the file.
Written(lines) == [files EXCEPT ![Current] = @ \o lines]

RemoveFile(n) == files' = [k \in DOMAIN files \ {n} |-> files[k]]

\* access, then rename: nothing happens to a file that does not exist.
RenameFile(n, m) ==
  files' = IF n \in DOMAIN files
           THEN [k \in (DOMAIN files \ {n}) \cup {m} |->
                   IF k = m THEN files[n] ELSE files[k]]
           ELSE files

----------------------------------------------------------------------------
(* fileSizeCheck *)

SizeFine ==                                                    \* line 443
  /\ rot = "check" /\ Len(files[Current]) <= m_fileSize
  /\ rot' = "none"
  /\ UNCHANGED <<settings, files, nLogNumIndex>>

CloseFull ==                                                   \* lines 443-446
  /\ rot = "check" /\ Len(files[Current]) > m_fileSize
  /\ rot' = "remove"
  /\ UNCHANGED <<settings, files, nLogNumIndex>>

RemoveOldest ==                                                \* lines 450-470
  /\ rot = "remove"
  /\ RemoveFile(m_fileNum)
  /\ rot' = "shift"
  /\ nLogNumIndex' = m_fileNum - 1
  /\ UNCHANGED settings

ShiftUp ==                \* a slip: from the youngest file to the oldest
  /\ rot = "shift" /\ nLogNumIndex > 0
  /\ RenameFile(m_fileNum - nLogNumIndex, m_fileNum - nLogNumIndex + 1)
  /\ nLogNumIndex' = nLogNumIndex - 1
  /\ UNCHANGED <<settings, rot>>

\* Lines 471-479: ".n" becomes ".n+1", from the oldest to the youngest.
Shift ==
  /\ rot = "shift" /\ nLogNumIndex > 0
  /\ RenameFile(nLogNumIndex, nLogNumIndex + 1)
  /\ nLogNumIndex' = nLogNumIndex - 1
  /\ UNCHANGED <<settings, rot>>

\* Line 482. strNewName is ".1" by now, or ".0" if m_fileNum is 0.
RenameCurrent ==
  /\ rot = "shift" /\ nLogNumIndex <= 0
  /\ RenameFile(Current, IF m_fileNum = 0 THEN 0 ELSE 1)
  /\ rot' = "open"
  /\ UNCHANGED <<settings, nLogNumIndex>>

Reopen ==                                                      \* line 483
  /\ rot = "open"
  /\ files' = WithCurrent(files)
  /\ rot' = "none" /\ nLogNumIndex' = 0
  /\ UNCHANGED settings

fileSizeCheck ==
  SizeFine \/ CloseFull \/ RemoveOldest \/ Shift \/ RenameCurrent \/ Reopen

----------------------------------------------------------------------------
\* All that is on disk, from the oldest line to the youngest.
Disk ==
  LET from[n \in -1..m_fileNum] ==
        IF n = Current THEN Content(Current) ELSE Content(n) \o from[n - 1]
  IN  from[m_fileNum]

FilesTypeOK ==
  /\ <<m_fileNum, m_fileSize>> \in Settings
  /\ DOMAIN files \subseteq {Current} \cup 0..m_fileNum
  /\ rot \in {"none", "check", "remove", "shift", "open"}
  /\ nLogNumIndex \in -1..m_fileNum
=============================================================================
