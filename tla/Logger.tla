-------------------------------- MODULE Logger --------------------------------
(***************************************************************************)
(* mmrUtil::CLogger. In asynchronous mode threads write their lines into a *)
(* buffer, under m_mutWrite, and dealThread takes the buffers, full or     *)
(* not, and writes them to the file; in synchronous mode every line goes   *)
(* to the file at once, under m_mutWrite. The owner makes the logger and   *)
(* destroys it (Singleton), perhaps several times, or the process dies.    *)
(*                                                                         *)
(* A line is what one call puts into a buffer and so into the file: its    *)
(* number, in the order in which lines enter a buffer, and whether it      *)
(* trails the ends of older lines, see Trails. The bytes of a line matter  *)
(* only for the room it takes.                                             *)
(***************************************************************************)
EXTENDS LogFiles, LogLines, SequencesExt

CONSTANTS
  Writers,       \* threads that log
  owner,         \* the thread that makes and destroys the logger
  BufLen,        \* m_ulLen, one less than the bytes of a buffer
  MinAvaili,     \* MIN_AVAILI_SIZE
  LineSizes,     \* the bytes a line can take, with its time and newline: the
                 \* longest is 2073, twice what is kept back for it
  UIntRange,     \* 2^32
  BufEmptySize,  \* m_usBufEmptySize
  MaxLines,      \* bound on the lines the writers log
  MaxRuns        \* bound on the loggers made, one after the other

ASSUME LoggerAssumption ==
  /\ owner \notin Writers
  /\ BufLen \in Nat /\ MinAvaili \in Nat /\ MinAvaili < BufLen
  /\ UIntRange \in Nat /\ BufLen < UIntRange
  /\ LineSizes \subseteq 1..BufLen
  /\ BufEmptySize \in Nat /\ MaxLines \in Nat /\ MaxRuns \in Nat

VARIABLES
  life,            \* what the owner does with the logger
  m_bAsynLog,
  m_bRunning,
  writer,          \* where each thread is in logWrite
  m_pBufWrite,
  m_queBufsWrite,
  m_queBufsEmpty,
  m_queBufsDeal,
  m_pBufDeal,
  deal,            \* where dealThread is
  logged,          \* the number of the last line
  filled,          \* synchronous: the bytes of the buffer before the first zero
  promised,        \* history: its value when stop lowered m_bRunning
  torn,            \* history: some run died between the renames of a rotation
  runs

bufVars == <<m_pBufWrite, m_queBufsWrite, m_queBufsEmpty>>
dealBufVars == <<m_queBufsDeal, m_pBufDeal>>
ownerVars == <<life, m_bAsynLog, m_bRunning, promised, torn, runs>>
vars == <<fileVars, ownerVars, writer, bufVars, dealBufVars, deal, logged, filled>>

Threads == Writers \cup {owner}

Empty == [lines |-> <<>>, pos |-> 0]
Null == [lines |-> <<>>, pos |-> -1]       \* a unique_ptr that was moved from

Init ==
  /\ FilesInit
  /\ life = "none" /\ m_bAsynLog = FALSE /\ m_bRunning = FALSE
  /\ writer = [t \in Threads |-> "idle"]
  /\ m_pBufWrite = Null /\ m_queBufsWrite = <<>> /\ m_queBufsEmpty = <<>>
  /\ m_queBufsDeal = <<>> /\ m_pBufDeal = Null
  /\ deal = "none"
  /\ logged = 0 /\ filled = 0 /\ promised = 0 /\ torn = FALSE /\ runs = 0

\* Nobody holds m_mutWrite; dealThread holds it within single steps only.
Free == \A t \in Threads : writer[t] = "idle"

Goto(t, place) == writer' = [writer EXCEPT ![t] = place]

----------------------------------------------------------------------------
(* logWrite, and LOG_BY_LEVEL, which differs from it in a synchronous logger *)

\* The owner logs "start" and "stop"; the others log in between, and may still
\* do so while the owner is in stop.
MayLog(t) ==
  IF t = owner THEN life \in {"start", "stop"}
  ELSE life \notin {"none", "start"} /\ logged < MaxLines + 2 * runs - 1

\* getTryAvailid, of an unsigned type: one byte past BufLen it is a large number.
Room == (BufLen - m_pBufWrite.pos) % UIntRange

FullToTheBrim == m_bAsynLog /\ Room <= 0     \* a slip: nothing is kept back

Full == m_bAsynLog /\ Room <= MinAvaili

\* Lines 424-427, in updateBufWrite.
PushWrite(t) ==
  /\ Free /\ MayLog(t) /\ Full
  /\ m_queBufsWrite' = Append(m_queBufsWrite, m_pBufWrite)
  /\ m_pBufWrite' = Null
  /\ Goto(t, "take")
  /\ UNCHANGED <<fileVars, ownerVars, m_queBufsEmpty, dealBufVars, deal, logged, filled>>

\* Lines 428-438: the new write buffer is an empty one, or a new one.
TakeBuffer ==
  IF m_queBufsEmpty # <<>>
  THEN m_pBufWrite' = Head(m_queBufsEmpty) /\ m_queBufsEmpty' = Tail(m_queBufsEmpty)
  ELSE m_pBufWrite' = Empty /\ UNCHANGED m_queBufsEmpty

TakeEmpty(t) ==
  /\ writer[t] = "take"
  /\ TakeBuffer
  /\ Goto(t, "put")
  /\ UNCHANGED <<fileVars, ownerVars, m_queBufsWrite, dealBufVars, deal, logged, filled>>

\* logWrite ends. The owner's next step comes after its line.
LogDone(t) ==
  /\ Goto(t, "idle")
  /\ life' = IF t # owner THEN life ELSE IF life = "start" THEN "run" ELSE "lower"
  /\ UNCHANGED <<m_bAsynLog, m_bRunning, promised, torn, runs>>

\* LOG_BY_LEVEL (line 160) writes the buffer of a synchronous logger up to the first
\* zero, and so the bytes of older lines behind a shorter one: clear leaves them, and
\* doneTry puts a newline where the text had its zero. logWrite, by which the owner
\* logs, writes the line alone.
Trails(t, size) ==
  {trails \in BOOLEAN : trails => ~m_bAsynLog /\ t # owner /\ filled > size}

\* Lines 274-290, with or without the change of buffers before.
Put(t) ==
  /\ writer[t] = "put" \/ (Free /\ MayLog(t) /\ ~Full)
  /\ \E size \in LineSizes : \E trails \in Trails(t, size) :
       /\ m_pBufWrite' =
            [lines |-> Append(m_pBufWrite.lines, WholeLine(logged + 1, trails)),
             pos   |-> m_pBufWrite.pos + size]
       /\ filled' = IF ~m_bAsynLog /\ size > filled THEN size ELSE filled
  /\ logged' = logged + 1
  /\ IF m_bAsynLog THEN LogDone(t) ELSE Goto(t, "write") /\ UNCHANGED ownerVars
  /\ UNCHANGED <<fileVars, m_queBufsWrite, m_queBufsEmpty, dealBufVars, deal>>

\* Lines 292-297 and 158-164: a synchronous line is written at once.
WriteLine(t) ==
  /\ writer[t] = "write"
  /\ files' = Written(m_pBufWrite.lines)
  /\ m_pBufWrite' = Empty
  /\ rot' = "check"
  /\ Goto(t, "check")
  /\ UNCHANGED <<settings, nLogNumIndex, ownerVars, m_queBufsWrite,
                 m_queBufsEmpty, dealBufVars, deal, logged, filled>>

LineWritten(t) ==
  /\ writer[t] = "check" /\ rot = "none"
  /\ LogDone(t)
  /\ UNCHANGED <<fileVars, bufVars, dealBufVars, deal, logged, filled>>

logWrite(t) == PushWrite(t) \/ TakeEmpty(t) \/ Put(t) \/ WriteLine(t) \/ LineWritten(t)

----------------------------------------------------------------------------
(* dealThread *)

Deal(from, to) == deal = from /\ deal' = to

DealOnly == UNCHANGED <<fileVars, ownerVars, writer, bufVars, dealBufVars, logged, filled>>

\* A slip: the loop ends with m_bRunning, whatever is left in the buffers.
TestRunningOnly == Deal("test", IF m_bRunning THEN "wait" ELSE "exit") /\ DealOnly

\* Line 391. m_pBufWrite and the queue are read one after the other, without the
\* mutex. A null m_pBufWrite is dereferenced: the thread goes no further, see Die.
TestRunning == Deal("test", IF m_bRunning THEN "wait" ELSE "testBuf") /\ DealOnly

TestBuf ==
  /\ m_pBufWrite # Null
  /\ Deal("testBuf", IF m_pBufWrite.pos > 0 THEN "wait" ELSE "testQueue")
  /\ DealOnly

TestQueue ==
  /\ Deal("testQueue", IF m_queBufsWrite # <<>> THEN "wait" ELSE "exit")
  /\ DealOnly

Wait == Free /\ Deal("wait", "waiting") /\ DealOnly            \* lines 393-395

\* The wait has no condition: it ends by a notify or after 5 s, all the same.
WakeUp == Free /\ Deal("waiting", "look") /\ DealOnly

LookAtQueueOnly ==        \* a slip: a buffer that is not full is left alone
  /\ m_pBufWrite # Null
  /\ Deal("look", "lookQueue")
  /\ DealOnly

\* Line 397, without the mutex again.
Look ==
  /\ m_pBufWrite # Null
  /\ Deal("look", IF m_pBufWrite.pos > 0 THEN "swap" ELSE "lookQueue")
  /\ DealOnly

LookQueue ==
  /\ Deal("lookQueue", IF m_queBufsWrite # <<>> THEN "swap" ELSE "test")
  /\ DealOnly

SwapAhead ==              \* a slip: the new buffer gets ahead of the full ones
  /\ Free /\ Deal("swap", "next")
  /\ m_queBufsDeal' = <<m_pBufWrite>> \o m_queBufsWrite
  /\ m_queBufsWrite' = <<>>
  /\ TakeBuffer
  /\ UNCHANGED <<fileVars, ownerVars, writer, m_pBufDeal, logged, filled>>

\* Lines 399-403: updateBufWrite, then the queue is moved.
Swap ==
  /\ Free /\ Deal("swap", "next")
  /\ m_queBufsDeal' = Append(m_queBufsWrite, m_pBufWrite)
  /\ m_queBufsWrite' = <<>>
  /\ TakeBuffer
  /\ UNCHANGED <<fileVars, ownerVars, writer, m_pBufDeal, logged, filled>>

\* Lines 404-407.
NextBuf ==
  /\ IF m_queBufsDeal = <<>>
     THEN Deal("next", "test") /\ UNCHANGED dealBufVars
     ELSE /\ Deal("next", "write")
          /\ m_pBufDeal' = Head(m_queBufsDeal)
          /\ m_queBufsDeal' = Tail(m_queBufsDeal)
  /\ UNCHANGED <<fileVars, ownerVars, writer, bufVars, logged, filled>>

\* Lines 409-411: write, flush and clear.
WriteBuf ==
  /\ Deal("write", "check")
  /\ files' = Written(m_pBufDeal.lines)
  /\ m_pBufDeal' = Empty
  /\ rot' = "check"
  /\ UNCHANGED <<settings, nLogNumIndex, ownerVars, writer, bufVars,
                 m_queBufsDeal, logged, filled>>

Recycle ==                                                     \* lines 415-418
  /\ Free /\ rot = "none" /\ Deal("check", "next")
  /\ m_queBufsEmpty' = Append(m_queBufsEmpty, m_pBufDeal)
  /\ m_pBufDeal' = Null
  /\ UNCHANGED <<fileVars, ownerVars, writer, m_pBufWrite, m_queBufsWrite,
                 m_queBufsDeal, logged, filled>>

dealThread ==
  \/ TestRunning \/ TestBuf \/ TestQueue \/ Wait \/ WakeUp \/ Look \/ LookQueue
  \/ Swap \/ NextBuf \/ WriteBuf \/ Recycle

----------------------------------------------------------------------------
(* The owner: constructor and destructor *)

\* Lines 165-174 and 333-364. Without a thread m_bRunning is never written: it
\* has whatever value the memory had. So has the buffer: a zero at its beginning, or
\* bytes of no line to its end.
Start ==
  /\ life = "none" /\ runs < MaxRuns
  /\ runs' = runs + 1
  /\ m_bAsynLog' \in BOOLEAN
  /\ m_bRunning' \in IF m_bAsynLog' THEN {TRUE} ELSE BOOLEAN
  /\ deal' = IF m_bAsynLog' THEN "test" ELSE "none"
  /\ files' = WithCurrent(files)
  /\ m_pBufWrite' = Empty
  /\ m_queBufsEmpty' = [i \in 1..BufEmptySize |-> Empty]
  /\ filled' \in IF m_bAsynLog' THEN {0} ELSE {0, BufLen + 1}
  /\ life' = "start"
  /\ UNCHANGED <<settings, rot, nLogNumIndex, promised, torn, writer, m_queBufsWrite,
                 dealBufVars, logged>>

\* Line 372: stop logs a line of its own only if it finds m_bRunning true.
Stop ==
  /\ life = "run"
  /\ life' = IF m_bRunning THEN "stop" ELSE "close"
  /\ promised' = IF m_bRunning THEN promised ELSE logged
  /\ UNCHANGED <<fileVars, m_bAsynLog, m_bRunning, torn, runs, writer, bufVars,
                 dealBufVars, deal, logged, filled>>

Lower ==                                                       \* lines 375-376
  /\ life = "lower"
  /\ m_bRunning' = FALSE /\ promised' = logged
  /\ life' = "join"
  /\ UNCHANGED <<fileVars, m_bAsynLog, torn, runs, writer, bufVars, dealBufVars, deal,
                 logged, filled>>

Join ==                                                        \* lines 377-380
  /\ life = "join" /\ deal \in {"none", "exit"}
  /\ life' = "close"
  /\ UNCHANGED <<fileVars, m_bAsynLog, m_bRunning, promised, torn, runs, writer,
                 bufVars, dealBufVars, deal, logged, filled>>

\* The memory of the logger is gone; what is on the disk stays.
Gone ==
  /\ life' = "none" /\ deal' = "none" /\ rot' = "none"
  /\ writer' = [t \in Threads |-> "idle"]
  /\ m_pBufWrite' = Null /\ m_queBufsWrite' = <<>> /\ m_queBufsEmpty' = <<>>
  /\ m_queBufsDeal' = <<>> /\ m_pBufDeal' = Null
  /\ nLogNumIndex' = 0 /\ m_bAsynLog' = FALSE /\ m_bRunning' = FALSE /\ promised' = 0
  /\ filled' = 0
  /\ UNCHANGED <<settings, runs, logged>>

\* Lines 383-386 and the members' destructors. A call that is still inside
\* logWrite then is undefined, and left out.
Close == life = "close" /\ Free /\ Gone /\ UNCHANGED <<files, torn>>

\* The process dies, at any point: because dealThread read a null m_pBufWrite, or
\* for any other reason. A write may have come to the disk in part, and have
\* broken off within a line.
Writing ==
  IF deal = "write" THEN m_pBufDeal.lines
  ELSE IF \E t \in Threads : writer[t] = "write" THEN m_pBufWrite.lines ELSE <<>>

Die ==
  /\ life # "none"
  /\ Gone
  /\ torn' = (torn \/ rot = "shift")
  /\ \/ files' = files
     \/ \E n \in 1..Len(Writing) :
          files' \in {Written(SubSeq(Writing, 1, n)), Written(BrokenOff(Writing, n))}

----------------------------------------------------------------------------
FileStep ==
  /\ fileSizeCheck
  /\ UNCHANGED <<ownerVars, writer, bufVars, dealBufVars, deal, logged, filled>>

\* A line may run past the bytes of its buffer; what happens after it is undefined,
\* and not modelled.
Defined == m_pBufWrite.pos <= BufLen + 1

Next ==
  /\ Defined
  /\ \/ \E t \in Threads : logWrite(t)
     \/ dealThread \/ FileStep
     \/ Start \/ Stop \/ Lower \/ Join \/ Close \/ Die

\* Threads go on, mutexes are handed over (there are finitely many calls), and
\* the wait of dealThread ends. Nobody has to log, to start or to stop.
Fairness ==
  /\ \A t \in Threads :
       WF_vars(Defined /\ logWrite(t) /\ (t = owner \/ writer[t] # "idle"))
  /\ WF_vars(Defined /\ dealThread) /\ WF_vars(Defined /\ FileStep)
  /\ WF_vars(Defined /\ Lower) /\ WF_vars(Defined /\ Join) /\ WF_vars(Defined /\ Close)

Spec == Init /\ [][Next]_vars /\ Fairness

----------------------------------------------------------------------------
Lines == [no : 1..(MaxLines + 2 * MaxRuns), trails : BOOLEAN, whole : {TRUE}]

Flat(bufs) == FlattenSeq([i \in DOMAIN bufs |-> bufs[i].lines])

\* The lines that are in buffers, the oldest first.
Pending == m_pBufDeal.lines \o Flat(m_queBufsDeal) \o Flat(m_queBufsWrite)
             \o m_pBufWrite.lines

TypeOK == \* the buffers waiting for reuse are cleared; a null is where it may be
  /\ FilesTypeOK
  /\ life \in {"none", "start", "run", "stop", "lower", "join", "close"}
  /\ writer \in [Threads -> {"idle", "take", "put", "write", "check"}]
  /\ Range(m_queBufsEmpty) \subseteq {Empty}
  /\ m_pBufWrite = Null <=> (life = "none" \/ \E t \in Threads : writer[t] = "take")
  /\ m_pBufDeal # Null <=> deal \in {"write", "check"}
  /\ Null \notin Range(m_queBufsWrite) \cup Range(m_queBufsDeal)
  /\ (~m_bAsynLog => deal = "none") /\ (rot # "none" => life # "none")

\* However close to the end of the buffer the change of buffers comes, the position
\* passes it by a line longer than what is kept back and one byte more, and by no
\* other: until then the room does not wrap. (logWrite, lines 268-290.)
OverrunByLongLine ==
  [][m_pBufWrite.pos <= BufLen /\ m_pBufWrite'.pos > BufLen =>
       m_pBufWrite'.pos - m_pBufWrite.pos > MinAvaili + 1]_vars

\* What was logged before stop lowered m_bRunning is in the file when stop closes
\* it, though dealThread reads the flag, the buffer and the queue one by one and
\* without the mutex (stop, lines 369-386; dealThread, line 391).
StopKeepsLines ==
  life = "close" /\ Free => \A line \in Range(Pending) : line.no > promised

\* A file is removed only for m_fileNum younger ones, and these are full. One may be
\* missing if a process died between the renames of a rotation, not if it died
\* before or after them (fileSizeCheck).
RotationKeepsFiles ==
  /\ TypeOK
  /\ rot = "remove" /\ m_fileNum \in DOMAIN files =>
       \A n \in {Current} \cup 1..m_fileNum :
         IF n \in DOMAIN files THEN Len(files[n]) > m_fileSize ELSE torn

\* The buffers, the queues, the unlocked reads and the rotation implement the
\* journal, over deaths and restarts.
J == INSTANCE Journal WITH
       Lines <- Lines, pending <- Pending, disk <- Disk, up <- life # "none"
ImplementsJournal == J!JournalSpec

\* Every line that is logged comes to the disk, or the logger goes down: a line is
\* not left in a buffer because no other line follows it (dealThread, line 397).
\* The writers log a bounded number of lines, so the buffers run empty, unless a
\* line ran past the end of one.
LinesWritten == Pending # <<>> ~> Pending = <<>> \/ ~Defined
=============================================================================
