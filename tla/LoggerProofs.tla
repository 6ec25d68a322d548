------------------------------ MODULE LoggerProofs ------------------------------
(***************************************************************************)
(* Theorems about Logger, for any writers, sizes of buffers and settings,  *)
(* over any number of runs.                                                *)
(***************************************************************************)
EXTENDS Logger, SequenceTheorems, WellFoundedInduction, TLAPS

\* A line as it is on the disk or in a buffer, whole or broken off.
LogLine == [no : Nat, trails : BOOLEAN, whole : BOOLEAN]

\* Buffers, and null.
Fitting == [lines : Seq(LogLine), pos : Int]

QueuesFit ==
  /\ m_pBufWrite \in Fitting /\ m_pBufDeal \in Fitting
  /\ m_queBufsWrite \in Seq(Fitting) /\ m_queBufsDeal \in Seq(Fitting)
  /\ m_queBufsEmpty \in Seq({Empty})

\* One thread at a time is in logWrite; it puts its line into an empty buffer when
\* it has changed buffers.
OneWriter ==
  /\ writer \in [Threads -> {"idle", "take", "put", "write", "check"}]
  /\ \A t, u \in Threads : writer[t] # "idle" /\ writer[u] # "idle" => t = u
  /\ \A t \in Threads : writer[t] = "put" => m_pBufWrite.pos = 0
  /\ life = "none" => Free

\* A synchronous buffer holds a line only until the same call has written it.
SyncEmpty ==
  /\ m_bAsynLog \in BOOLEAN
  /\ ~m_bAsynLog => deal = "none"
  /\ ~m_bAsynLog /\ m_pBufWrite.pos > 0 => \E t \in Threads : writer[t] = "write"

PositionInv == /\ QueuesFit
               /\ OneWriter
               /\ SyncEmpty
               /\ logged \in Nat

LEMMA EmptyFits == Empty \in Fitting /\ Null \in Fitting /\ Empty.pos = 0
<1>1. <<>> \in Seq(LogLine)
  BY EmptySeq
<1> QED BY <1>1, LoggerAssumption DEF Empty, Null, Fitting

LEMMA PositionInit == Init => PositionInv
<1> SUFFICES ASSUME Init PROVE PositionInv
  OBVIOUS
<1>1. <<>> \in Seq(Fitting) /\ <<>> \in Seq({Empty})
  BY EmptySeq
<1>2. Null.pos = -1
  BY DEF Null
<1>3. QueuesFit
  BY <1>1, EmptyFits DEF Init, QueuesFit
<1>4. OneWriter
  BY DEF Init, OneWriter, Free
<1>5. SyncEmpty
  <2>1. ~(m_pBufWrite.pos > 0)
    BY <1>2 DEF Init
  <2>2. m_bAsynLog \in BOOLEAN /\ deal = "none"
    BY DEF Init
  <2> QED BY <2>1, <2>2 DEF SyncEmpty
<1>6. logged \in Nat
  BY DEF Init
<1> QED BY <1>3, <1>4, <1>5, <1>6 DEF PositionInv

LEMMA TakeFits ==
  ASSUME QueuesFit, TakeBuffer
  PROVE  /\ m_pBufWrite' \in Fitting /\ m_pBufWrite'.pos = 0
         /\ m_queBufsEmpty' \in Seq({Empty})
<1>1. CASE m_queBufsEmpty # <<>>
  <2>1. Head(m_queBufsEmpty) = Empty /\ Tail(m_queBufsEmpty) \in Seq({Empty})
    BY <1>1, HeadTailProperties DEF QueuesFit
  <2> QED BY <1>1, <2>1, EmptyFits DEF TakeBuffer
<1>2. CASE m_queBufsEmpty = <<>>
  BY <1>2, EmptyFits DEF TakeBuffer, QueuesFit
<1> QED BY <1>1, <1>2

LEMMA WholeLineType ==
  ASSUME NEW n \in Nat, NEW t \in Threads, NEW size \in LineSizes,
         NEW trails \in Trails(t, size)
  PROVE  /\ WholeLine(n, trails) \in LogLine /\ WholeLine(n, trails).no = n
         /\ trails \in BOOLEAN
<1>1. trails \in BOOLEAN
  BY DEF Trails
<1> QED BY <1>1 DEF WholeLine, LogLine

\* What Put does to the write buffer.
LEMMA PutLine ==
  ASSUME NEW t \in Threads, Put(t), logged \in Nat
  PROVE  \E size \in LineSizes, trails \in BOOLEAN :
           /\ WholeLine(logged + 1, trails) \in LogLine
           /\ m_pBufWrite' = [lines |-> Append(m_pBufWrite.lines, WholeLine(logged + 1, trails)),
                              pos   |-> m_pBufWrite.pos + size]
<1>0. PICK size \in LineSizes : \E trails \in Trails(t, size) :
        m_pBufWrite' = [lines |-> Append(m_pBufWrite.lines, WholeLine(logged + 1, trails)),
                        pos   |-> m_pBufWrite.pos + size]
  BY DEF Put
<1>1. PICK trails \in Trails(t, size) :
        m_pBufWrite' = [lines |-> Append(m_pBufWrite.lines, WholeLine(logged + 1, trails)),
                        pos   |-> m_pBufWrite.pos + size]
  BY <1>0
<1>2. logged + 1 \in Nat
  OBVIOUS
<1>3. WholeLine(logged + 1, trails) \in LogLine /\ trails \in BOOLEAN
  BY <1>2, WholeLineType
<1> QED BY <1>1, <1>3

\* A line that goes past the end of a buffer is longer than what was kept back there.
LEMMA PutRoom ==
  ASSUME PositionInv, NEW t \in Threads, NEW size \in LineSizes,
         writer[t] = "put" \/ (Free /\ ~Full),
         m_pBufWrite.pos <= BufLen, m_pBufWrite.pos + size > BufLen
  PROVE  size > MinAvaili + 1
<1>1. size \in Nat /\ size <= BufLen
  BY LoggerAssumption
<1>2. m_pBufWrite.pos \in Int
  BY DEF PositionInv, QueuesFit, Fitting
<1>3. BufLen \in Nat /\ UIntRange \in Nat /\ MinAvaili \in Nat /\ BufLen < UIntRange
  BY LoggerAssumption
<1>4. m_pBufWrite.pos > 0
  BY <1>1, <1>2, <1>3
<1>5. CASE m_bAsynLog
  <2>1. writer[t] # "put"
    BY <1>4 DEF PositionInv, OneWriter
  <2>2. ~(Room <= MinAvaili)
    BY <1>5, <2>1 DEF Full
  <2>3. BufLen - m_pBufWrite.pos \in 0..(UIntRange - 1)
    BY <1>2, <1>3, <1>4
  <2>4. Room = BufLen - m_pBufWrite.pos
    BY <1>3, <2>3 DEF Room
  <2> QED BY <1>1, <1>2, <1>3, <2>2, <2>4
<1>6. CASE ~m_bAsynLog
  <2>1. PICK u \in Threads : writer[u] = "write"
    BY <1>4, <1>6 DEF PositionInv, SyncEmpty
  <2>2. writer[t] = "put" /\ writer[u] # "idle" /\ writer[t] # "idle"
    BY <2>1 DEF Free
  <2>3. t = u
    BY <2>1, <2>2 DEF PositionInv, OneWriter
  <2> QED BY <2>1, <2>2, <2>3
<1>7. m_bAsynLog \in BOOLEAN
  BY DEF PositionInv, SyncEmpty
<1> QED BY <1>5, <1>6, <1>7

-----------------------------------------------------------------------------
(* The steps of logWrite. *)

LEMMA QueueFits ==
  ASSUME QueuesFit
  PROVE  /\ Append(m_queBufsWrite, m_pBufWrite) \in Seq(Fitting)
         /\ <<>> \in Seq(Fitting)
BY AppendProperties, EmptySeq DEF QueuesFit

LEMMA LogDoneLife ==
  ASSUME NEW t \in Threads, life # "none", LogDone(t)
  PROVE  life' # "none" /\ UNCHANGED m_bAsynLog /\ writer' = [writer EXCEPT ![t] = "idle"]
BY DEF LogDone, Goto

LEMMA PushWriteStep ==
  ASSUME PositionInv, NEW t \in Threads, PushWrite(t)
  PROVE  PositionInv'
<1> USE DEF PushWrite, Goto
<1>1. QueuesFit'
  BY QueueFits, EmptyFits DEF PositionInv, QueuesFit, dealBufVars
<1>2. life # "none"
  BY DEF MayLog
<1>3. OneWriter'
  BY <1>2 DEF PositionInv, OneWriter, Free, ownerVars
<1>4. SyncEmpty'
  BY DEF PositionInv, SyncEmpty, Full, ownerVars
<1> QED BY <1>1, <1>3, <1>4 DEF PositionInv

LEMMA TakeEmptyStep ==
  ASSUME PositionInv, NEW t \in Threads, TakeEmpty(t)
  PROVE  PositionInv'
<1> USE DEF TakeEmpty, Goto
<1>1. m_pBufWrite' \in Fitting /\ m_pBufWrite'.pos = 0 /\ m_queBufsEmpty' \in Seq({Empty})
  BY TakeFits DEF PositionInv
<1>2. QueuesFit'
  BY <1>1 DEF PositionInv, QueuesFit, dealBufVars
<1>3. life # "none"
  BY DEF PositionInv, OneWriter, Free
<1>4. OneWriter'
  BY <1>1, <1>3 DEF PositionInv, OneWriter, Free, ownerVars
<1>5. SyncEmpty'
  BY <1>1 DEF PositionInv, SyncEmpty, ownerVars
<1> QED BY <1>2, <1>4, <1>5 DEF PositionInv

LEMMA PutStep ==
  ASSUME PositionInv, NEW t \in Threads, Put(t)
  PROVE  PositionInv'
<1> USE DEF Put
<1>1. m_pBufWrite' \in Fitting
  <2>1. PICK size \in LineSizes, trails \in BOOLEAN :
          /\ WholeLine(logged + 1, trails) \in LogLine
          /\ m_pBufWrite' = [lines |-> Append(m_pBufWrite.lines, WholeLine(logged + 1, trails)),
                             pos   |-> m_pBufWrite.pos + size]
    BY PutLine DEF PositionInv
  <2>2. m_pBufWrite.pos + size \in Int /\ m_pBufWrite.lines \in Seq(LogLine)
    BY LoggerAssumption DEF PositionInv, QueuesFit, Fitting
  <2>3. Append(m_pBufWrite.lines, WholeLine(logged + 1, trails)) \in Seq(LogLine)
    BY <2>1, <2>2, AppendProperties
  <2> QED BY <2>1, <2>2, <2>3 DEF Fitting
<1>2. QueuesFit'
  BY <1>1 DEF PositionInv, QueuesFit, dealBufVars
<1>3. life # "none" /\ (writer[t] = "put" \/ Free)
  BY DEF PositionInv, OneWriter, Free, MayLog
<1>4. CASE m_bAsynLog
  <2>1. LogDone(t)
    BY <1>4
  <2>2. life' # "none" /\ m_bAsynLog' = m_bAsynLog /\ writer' = [writer EXCEPT ![t] = "idle"]
    BY <1>3, <2>1, LogDoneLife
  <2>3. OneWriter'
    BY <1>3, <2>2 DEF PositionInv, OneWriter, Free
  <2>4. SyncEmpty'
    BY <1>4, <2>2 DEF PositionInv, SyncEmpty
  <2> QED BY <1>2, <2>3, <2>4 DEF PositionInv
<1>5. CASE ~m_bAsynLog
  <2>1. writer' = [writer EXCEPT ![t] = "write"] /\ UNCHANGED ownerVars
    BY <1>5 DEF Goto
  <2>2. OneWriter'
    BY <1>3, <2>1 DEF PositionInv, OneWriter, Free, ownerVars
  <2>3. SyncEmpty'
    BY <2>1 DEF PositionInv, SyncEmpty, OneWriter, ownerVars
  <2> QED BY <1>2, <2>2, <2>3 DEF PositionInv
<1>6. m_bAsynLog \in BOOLEAN
  BY DEF PositionInv, SyncEmpty
<1> QED BY <1>4, <1>5, <1>6

LEMMA WriteLineStep ==
  ASSUME PositionInv, NEW t \in Threads, WriteLine(t) \/ LineWritten(t)
  PROVE  PositionInv'
<1>1. life # "none"
  BY DEF PositionInv, OneWriter, Free, WriteLine, LineWritten
<1>2. CASE WriteLine(t)
  <2> USE <1>2 DEF WriteLine, Goto
  <2>1. QueuesFit'
    BY EmptyFits DEF PositionInv, QueuesFit, dealBufVars
  <2>2. OneWriter'
    BY <1>1, EmptyFits DEF PositionInv, OneWriter, Free, ownerVars
  <2>3. SyncEmpty'
    BY EmptyFits DEF PositionInv, SyncEmpty, ownerVars
  <2> QED BY <2>1, <2>2, <2>3 DEF PositionInv
<1>3. CASE LineWritten(t)
  <2> USE <1>3 DEF LineWritten
  <2>1. life' # "none" /\ m_bAsynLog' = m_bAsynLog /\ writer' = [writer EXCEPT ![t] = "idle"]
    BY <1>1, LogDoneLife
  <2>2. QueuesFit'
    BY DEF PositionInv, QueuesFit, bufVars, dealBufVars
  <2>3. OneWriter'
    BY <2>1 DEF PositionInv, OneWriter, Free, bufVars
  <2>4. SyncEmpty'
    BY <2>1 DEF PositionInv, SyncEmpty, OneWriter, bufVars
  <2> QED BY <2>2, <2>3, <2>4 DEF PositionInv
<1> QED BY <1>2, <1>3

-----------------------------------------------------------------------------
(* The steps of dealThread, of the owner and of the rotation. *)

LEMMA SwapStep ==
  ASSUME PositionInv, Swap
  PROVE  PositionInv'
<1> USE DEF Swap, Deal
<1>1. m_pBufWrite' \in Fitting /\ m_pBufWrite'.pos = 0 /\ m_queBufsEmpty' \in Seq({Empty})
  BY TakeFits DEF PositionInv
<1>2. QueuesFit'
  BY <1>1, QueueFits DEF PositionInv, QueuesFit
<1>3. OneWriter'
  BY <1>1 DEF PositionInv, OneWriter, Free, ownerVars
<1>4. SyncEmpty'
  BY <1>1 DEF PositionInv, SyncEmpty, ownerVars
<1> QED BY <1>2, <1>3, <1>4 DEF PositionInv

LEMMA NextBufStep ==
  ASSUME PositionInv, NextBuf
  PROVE  PositionInv'
<1> USE DEF NextBuf, Deal
<1>1. m_pBufDeal' \in Fitting /\ m_queBufsDeal' \in Seq(Fitting)
  BY HeadTailProperties DEF PositionInv, QueuesFit, dealBufVars
<1>2. QueuesFit'
  BY <1>1 DEF PositionInv, QueuesFit, bufVars
<1>3. OneWriter'
  BY DEF PositionInv, OneWriter, Free, ownerVars, bufVars
<1>4. SyncEmpty'
  BY DEF PositionInv, SyncEmpty, ownerVars, bufVars
<1> QED BY <1>2, <1>3, <1>4 DEF PositionInv

\* A buffer that waits for reuse is cleared: Recycle takes only one that WriteBuf
\* has cleared.
DealtEmpty == deal = "check" => m_pBufDeal = Empty

LEMMA WriteBufStep ==
  ASSUME PositionInv, DealtEmpty, WriteBuf \/ Recycle
  PROVE  PositionInv'
<1>1. m_pBufDeal' \in Fitting /\ m_queBufsEmpty' \in Seq({Empty})
  BY EmptyFits, AppendProperties
     DEF WriteBuf, Recycle, Deal, DealtEmpty, PositionInv, QueuesFit, bufVars
<1>2. QueuesFit'
  BY <1>1 DEF PositionInv, QueuesFit, WriteBuf, Recycle, bufVars
<1>3. OneWriter'
  BY DEF PositionInv, OneWriter, Free, WriteBuf, Recycle, ownerVars, bufVars
<1>4. SyncEmpty'
  BY DEF PositionInv, SyncEmpty, WriteBuf, Recycle, Deal, ownerVars, bufVars
<1> QED BY <1>2, <1>3, <1>4 DEF PositionInv, WriteBuf, Recycle

\* The steps of dealThread that only look.
Looking == TestRunning \/ TestBuf \/ TestQueue \/ Wait \/ WakeUp \/ Look \/ LookQueue

LEMMA LookingStep ==
  ASSUME PositionInv, Looking
  PROVE  PositionInv'
<1>1. DealOnly /\ deal # "none"
  BY DEF Looking, TestRunning, TestBuf, TestQueue, Wait, WakeUp, Look, LookQueue, Deal
<1>2. QueuesFit'
  BY <1>1 DEF PositionInv, QueuesFit, DealOnly, bufVars, dealBufVars
<1>3. OneWriter'
  BY <1>1 DEF PositionInv, OneWriter, Free, DealOnly, bufVars, ownerVars
<1>4. SyncEmpty'
  BY <1>1 DEF PositionInv, SyncEmpty, DealOnly, bufVars, ownerVars
<1> QED BY <1>1, <1>2, <1>3, <1>4 DEF PositionInv, DealOnly

LEMMA StartStep ==
  ASSUME PositionInv, Start
  PROVE  PositionInv'
<1> USE DEF Start
<1>1. [i \in 1..BufEmptySize |-> Empty] \in Seq({Empty})
  BY LoggerAssumption
<1>2. QueuesFit'
  BY <1>1, EmptyFits DEF PositionInv, QueuesFit, dealBufVars
<1>3. OneWriter'
  BY EmptyFits DEF PositionInv, OneWriter, Free
<1>4. SyncEmpty'
  BY EmptyFits DEF PositionInv, SyncEmpty
<1> QED BY <1>2, <1>3, <1>4 DEF PositionInv

LEMMA GoneStep ==
  ASSUME PositionInv, Gone
  PROVE  PositionInv'
<1> USE DEF Gone
<1>1. Null \in Fitting /\ <<>> \in Seq(Fitting) /\ <<>> \in Seq({Empty})
  BY EmptyFits, EmptySeq
<1>2. QueuesFit'
  BY <1>1 DEF QueuesFit
<1>3. OneWriter'
  BY DEF OneWriter, Free
<1>4. SyncEmpty'
  <2>1. ~(m_pBufWrite'.pos > 0)
    BY DEF Null
  <2> QED BY <2>1 DEF SyncEmpty
<1> QED BY <1>2, <1>3, <1>4 DEF PositionInv

LEMMA OwnerStep ==
  ASSUME PositionInv, Stop \/ Lower \/ Join \/ FileStep \/ UNCHANGED vars
  PROVE  PositionInv'
<1>1. /\ UNCHANGED <<m_bAsynLog, writer, bufVars, dealBufVars, deal, logged>>
      /\ life' = "none" => life = "none"
  BY DEF Stop, Lower, Join, FileStep, vars, ownerVars
<1>2. QueuesFit'
  BY <1>1 DEF PositionInv, QueuesFit, bufVars, dealBufVars
<1>3. OneWriter'
  BY <1>1 DEF PositionInv, OneWriter, Free, bufVars
<1>4. SyncEmpty'
  BY <1>1 DEF PositionInv, SyncEmpty, bufVars
<1> QED BY <1>1, <1>2, <1>3, <1>4 DEF PositionInv

LEMMA DealtEmptyStep ==
  ASSUME DealtEmpty, [Next]_vars
  PROVE  DealtEmpty'
<1>1. CASE \E t \in Threads : logWrite(t)
  BY <1>1 DEF DealtEmpty, logWrite, PushWrite, TakeEmpty, Put, WriteLine, LineWritten, dealBufVars
<1>2. CASE dealThread
  BY <1>2 DEF DealtEmpty, dealThread, TestRunning, TestBuf, TestQueue, Wait, WakeUp, Look,
       LookQueue, Swap, NextBuf, WriteBuf, Recycle, Deal
<1>3. CASE Start \/ Stop \/ Lower \/ Join \/ FileStep \/ UNCHANGED vars
  BY <1>3 DEF DealtEmpty, Start, Stop, Lower, Join, FileStep, dealBufVars, vars
<1>4. CASE Close \/ Die
  BY <1>4 DEF DealtEmpty, Close, Die, Gone
<1> QED BY <1>1, <1>2, <1>3, <1>4 DEF Next

LEMMA PositionStep ==
  ASSUME PositionInv, DealtEmpty, [Next]_vars
  PROVE  PositionInv'
<1>1. CASE \E t \in Threads : logWrite(t)
  BY <1>1, PushWriteStep, TakeEmptyStep, PutStep, WriteLineStep DEF logWrite
<1>2. CASE dealThread
  BY <1>2, LookingStep, SwapStep, NextBufStep, WriteBufStep DEF dealThread, Looking
<1>3. CASE Start
  BY <1>3, StartStep
<1>4. CASE Close \/ Die
  BY <1>4, GoneStep DEF Close, Die
<1>5. CASE Stop \/ Lower \/ Join \/ FileStep \/ UNCHANGED vars
  BY <1>5, OwnerStep
<1> QED BY <1>1, <1>2, <1>3, <1>4, <1>5 DEF Next

LEMMA OverrunStep ==
  ASSUME PositionInv, [Next]_vars, m_pBufWrite.pos <= BufLen, m_pBufWrite'.pos > BufLen
  PROVE  m_pBufWrite'.pos - m_pBufWrite.pos > MinAvaili + 1
<1>1. BufLen \in Nat /\ m_pBufWrite.pos \in Int /\ Empty.pos = 0 /\ Null.pos = -1
  BY LoggerAssumption DEF PositionInv, QueuesFit, Fitting, Empty, Null
<1>2. m_pBufWrite' # m_pBufWrite /\ m_pBufWrite' # Empty /\ m_pBufWrite' # Null
  BY <1>1
<1>3. TakeBuffer => m_pBufWrite'.pos = 0
  BY TakeFits DEF PositionInv
<1>4. \E t \in Threads : Put(t)
  <2>1. CASE \E t \in Threads : logWrite(t)
    BY <1>1, <1>2, <1>3, <2>1 DEF logWrite, PushWrite, TakeEmpty, WriteLine, LineWritten, bufVars
  <2>2. CASE dealThread
    BY <1>1, <1>2, <1>3, <2>2 DEF dealThread, TestRunning, TestBuf, TestQueue, Wait, WakeUp, Look,
       LookQueue, DealOnly, Swap, NextBuf, WriteBuf, Recycle, bufVars
  <2>3. CASE Start \/ Stop \/ Lower \/ Join \/ FileStep \/ UNCHANGED vars
    BY <1>2, <2>3 DEF Start, Stop, Lower, Join, FileStep, bufVars, vars
  <2>4. CASE Close \/ Die
    BY <1>2, <2>4 DEF Close, Die, Gone
  <2> QED BY <2>1, <2>2, <2>3, <2>4 DEF Next
<1>5. PICK t \in Threads : Put(t)
  BY <1>4
<1>6. PICK size \in LineSizes : m_pBufWrite'.pos = m_pBufWrite.pos + size
  BY <1>5 DEF Put
<1>7. size \in Nat /\ (writer[t] = "put" \/ (Free /\ ~Full))
  BY <1>5, LoggerAssumption DEF Put
<1>8. size > MinAvaili + 1
  BY <1>6, <1>7, PutRoom
<1>9. m_pBufWrite'.pos - m_pBufWrite.pos = size
  BY <1>1, <1>6, <1>7
<1> QED BY <1>8, <1>9

\* A buffer is run past its end only by a line longer than what is kept back and one
\* byte, whatever threads log, however the buffers change hands and however often the
\* logger is made anew (logWrite, lines 268-290).
THEOREM OverrunByLongLineCorrect == Spec => OverrunByLongLine
<1>1. Init => PositionInv /\ DealtEmpty
  BY PositionInit DEF Init, DealtEmpty
<1>2. PositionInv /\ DealtEmpty /\ [Next]_vars => PositionInv' /\ DealtEmpty'
  BY PositionStep, DealtEmptyStep
<1>3. PositionInv /\ [Next]_vars =>
        [m_pBufWrite.pos <= BufLen /\ m_pBufWrite'.pos > BufLen =>
           m_pBufWrite'.pos - m_pBufWrite.pos > MinAvaili + 1]_vars
  BY OverrunStep
<1> QED BY <1>1, <1>2, <1>3, PTL DEF Spec, OverrunByLongLine

-----------------------------------------------------------------------------
(* Where the buffers are, who holds the mutex and who rotates the files.   *)

\* Every size is positive, so a buffer at position 0 holds no line.
RealBuf == {b \in [lines : Seq(LogLine), pos : Nat] : b.pos = 0 => b.lines = <<>>}

BuffersPlaced ==
  /\ m_queBufsWrite \in Seq(RealBuf) /\ m_queBufsDeal \in Seq(RealBuf)
  /\ m_queBufsEmpty \in Seq({Empty})
  /\ IF life = "none" \/ \E t \in Threads : writer[t] = "take"
     THEN m_pBufWrite = Null ELSE m_pBufWrite \in RealBuf
  /\ IF deal \in {"write", "check"} THEN m_pBufDeal \in RealBuf ELSE m_pBufDeal = Null
  /\ deal = "check" => m_pBufDeal = Empty
  /\ logged \in Nat

\* One thread at a time holds m_mutWrite, and the owner has it only for the lines
\* of start and stop.
MutexHeld ==
  /\ writer \in [Threads -> {"idle", "take", "put", "write", "check"}]
  /\ \A t, u \in Threads : writer[t] # "idle" /\ writer[u] # "idle" => t = u
  /\ life = "none" => Free
  /\ writer[owner] # "idle" => life \in {"start", "stop"}
  /\ \A t \in Threads : writer[t] \in {"write", "check"} => ~m_bAsynLog

Places == {"none", "test", "testBuf", "testQueue", "wait", "waiting", "look", "lookQueue",
           "swap", "next", "write", "check", "exit"}

\* dealThread lives from start to stop, and only in asynchronous mode.
ThreadLives ==
  /\ life \in {"none", "start", "run", "stop", "lower", "join", "close"}
  /\ m_bAsynLog \in BOOLEAN /\ m_bRunning \in BOOLEAN /\ torn \in BOOLEAN
  /\ deal \in Places
  /\ deal # "none" <=> life # "none" /\ m_bAsynLog
  /\ m_bAsynLog /\ life \in {"start", "run", "stop", "lower"} => m_bRunning
  /\ m_bAsynLog /\ life = "close" => deal = "exit"

\* A rotation runs in the call that wrote: in dealThread, or in a synchronous
\* logWrite.
RotationOwned ==
  rot # "none" =>
    IF m_bAsynLog THEN deal = "check" ELSE \E t \in Threads : writer[t] = "check"

Placed == BuffersPlaced /\ MutexHeld /\ ThreadLives /\ RotationOwned

-----------------------------------------------------------------------------
(* The files. *)

\* From Shift's point of view nLogNumIndex + 1 is the hole the next file moves to.
FilesTyped ==
  /\ FilesTypeOK
  /\ files \in [DOMAIN files -> Seq(LogLine)]
  /\ rot = "shift" => nLogNumIndex < m_fileNum /\ (m_fileNum > 0 => nLogNumIndex >= 0)
  /\ life # "none" /\ rot # "open" => Current \in DOMAIN files

Gapless(hole) == \A n \in DOMAIN files : \A k \in 1..n : k = hole \/ k \in DOMAIN files

\* A numbered file is a full one, and so is the log that is about to become one.
FilesFull ==
  /\ \A n \in DOMAIN files \ {Current} : Len(files[n]) > m_fileSize
  /\ rot \in {"remove", "shift"} => Len(files[Current]) > m_fileSize

\* Unless a run died between the renames of a rotation, all files younger than a
\* numbered one exist.
FilesKept ==
  ~torn =>
    /\ rot # "shift" => Gapless(0)
    /\ rot = "shift" => /\ nLogNumIndex + 1 \notin DOMAIN files
                        /\ Gapless(nLogNumIndex + 1)

-----------------------------------------------------------------------------
(* The steps keep the buffers, the mutex, the thread and the rotation. *)

LEMMA EmptyIsReal == Empty \in RealBuf /\ Empty # Null /\ Null \notin RealBuf /\ Empty.lines = <<>>
<1>1. <<>> \in Seq(LogLine)
  BY EmptySeq
<1> QED BY <1>1 DEF Empty, Null, RealBuf

LEMMA TakeReal ==
  ASSUME m_queBufsEmpty \in Seq({Empty}), TakeBuffer
  PROVE  m_pBufWrite' = Empty /\ m_queBufsEmpty' \in Seq({Empty})
<1>1. CASE m_queBufsEmpty # <<>>
  <2>1. Head(m_queBufsEmpty) = Empty /\ Tail(m_queBufsEmpty) \in Seq({Empty})
    BY <1>1, HeadTailProperties
  <2> QED BY <1>1, <2>1 DEF TakeBuffer
<1>2. CASE m_queBufsEmpty = <<>>
  BY <1>2 DEF TakeBuffer
<1> QED BY <1>1, <1>2

LEMMA PutReal ==
  ASSUME NEW b \in RealBuf, NEW line \in LogLine, NEW size \in LineSizes
  PROVE  [lines |-> Append(b.lines, line), pos |-> b.pos + size] \in RealBuf
<1>1. size \in Nat /\ size > 0
  BY LoggerAssumption
<1>2. b.lines \in Seq(LogLine) /\ b.pos \in Nat
  BY DEF RealBuf
<1>3. Append(b.lines, line) \in Seq(LogLine)
  BY <1>2, AppendProperties
<1>4. b.pos + size \in Nat /\ b.pos + size # 0
  BY <1>1, <1>2
<1> QED BY <1>3, <1>4 DEF RealBuf

LEMMA PlacedInit == Init => Placed
<1> SUFFICES ASSUME Init PROVE Placed
  OBVIOUS
<1>1. <<>> \in Seq(RealBuf) /\ <<>> \in Seq({Empty})
  BY EmptySeq
<1> QED BY <1>1 DEF Init, FilesInit, Placed, BuffersPlaced, MutexHeld, Free, ThreadLives,
       Places, RotationOwned, Threads

LEMMA PlacedPushWrite ==
  ASSUME Placed, NEW t \in Threads, PushWrite(t)
  PROVE  Placed'
<1> USE DEF Placed, PushWrite, Goto, ownerVars, dealBufVars, fileVars
<1>1. life # "none" /\ m_bAsynLog /\ (t = owner => life \in {"start", "stop"})
  BY DEF MayLog, Full
<1>2. m_pBufWrite \in RealBuf
  BY <1>1 DEF BuffersPlaced, Free
<1>3. Append(m_queBufsWrite, m_pBufWrite) \in Seq(RealBuf)
  BY <1>2, AppendProperties DEF BuffersPlaced
<1>4. writer'[t] = "take"
  BY DEF MutexHeld
<1>5. BuffersPlaced'
  BY <1>1, <1>3, <1>4 DEF BuffersPlaced
<1>6. MutexHeld'
  BY <1>1 DEF MutexHeld, Free
<1>7. ThreadLives'
  BY DEF ThreadLives
<1>8. RotationOwned'
  BY <1>1 DEF RotationOwned, MutexHeld
<1> QED BY <1>5, <1>6, <1>7, <1>8

LEMMA PlacedTakeEmpty ==
  ASSUME Placed, NEW t \in Threads, TakeEmpty(t)
  PROVE  Placed'
<1> USE DEF Placed, TakeEmpty, Goto, ownerVars, dealBufVars, fileVars
<1>1. life # "none"
  BY DEF MutexHeld, Free
<1>2. m_pBufWrite' = Empty /\ m_queBufsEmpty' \in Seq({Empty})
  BY TakeReal DEF BuffersPlaced
<1>3. \A u \in Threads : writer'[u] # "take"
  BY DEF MutexHeld
<1>4. BuffersPlaced'
  BY <1>1, <1>2, <1>3, EmptyIsReal DEF BuffersPlaced
<1>5. MutexHeld'
  BY <1>1 DEF MutexHeld, Free
<1>6. ThreadLives'
  BY DEF ThreadLives
<1>7. RotationOwned'
  BY DEF RotationOwned, MutexHeld
<1> QED BY <1>4, <1>5, <1>6, <1>7

LEMMA LogDoneKeeps ==
  ASSUME NEW t \in Threads, Placed, writer[t] # "idle" \/ (Free /\ MayLog(t)), LogDone(t)
  PROVE  /\ MutexHeld' /\ life' # "none" /\ life # "none"
         /\ \A u \in Threads : writer'[u] = "idle"
         /\ life \in {"start", "stop"} \/ life' = life
         /\ life = "start" => life' \in {"start", "run"}
         /\ life = "stop" => life' \in {"stop", "lower"}
         /\ UNCHANGED <<m_bAsynLog, m_bRunning, promised, torn, runs>>
<1> USE DEF Placed, LogDone, Goto
<1>1. life # "none" /\ (t = owner => life \in {"start", "stop"})
  BY DEF MutexHeld, Free, MayLog
<1>2. \A u \in Threads : writer'[u] = "idle"
  BY DEF MutexHeld, Free
<1>3. life' # "none" /\ (writer'[owner] = "idle")
  BY <1>1, <1>2 DEF Threads
<1>4. MutexHeld'
  BY <1>1, <1>2, <1>3 DEF MutexHeld, Free
<1> QED BY <1>1, <1>2, <1>3, <1>4

LEMMA PlacedPut ==
  ASSUME Placed, NEW t \in Threads, Put(t)
  PROVE  Placed'
<1>0. \E size \in LineSizes : \E line \in LogLine :
        m_pBufWrite' = [lines |-> Append(m_pBufWrite.lines, line), pos |-> m_pBufWrite.pos + size]
  BY PutLine DEF Placed, BuffersPlaced
<1> USE DEF Placed, Put, dealBufVars, fileVars
<1>1. life # "none" /\ (t = owner => life \in {"start", "stop"})
  BY DEF MutexHeld, Free, MayLog
<1>2. m_pBufWrite \in RealBuf /\ logged \in Nat
  BY <1>1 DEF BuffersPlaced, MutexHeld, Free
<1>3. m_pBufWrite' \in RealBuf /\ logged' \in Nat
  BY <1>0, <1>2, PutReal
<1>4. CASE m_bAsynLog
  <2>1. LogDone(t)
    BY <1>4
  <2>2. /\ MutexHeld' /\ life' # "none"
        /\ \A u \in Threads : writer'[u] = "idle"
        /\ life \in {"start", "stop"} \/ life' = life
        /\ life = "start" => life' \in {"start", "run"}
        /\ life = "stop" => life' \in {"stop", "lower"}
        /\ UNCHANGED <<m_bAsynLog, m_bRunning, promised, torn, runs>>
    BY <2>1, LogDoneKeeps
  <2>3. BuffersPlaced'
    BY <1>1, <1>3, <2>2 DEF BuffersPlaced
  <2>4. ThreadLives'
    BY <1>1, <2>2 DEF ThreadLives
  <2>5. RotationOwned'
    BY <1>4, <2>2 DEF RotationOwned
  <2> QED BY <2>2, <2>3, <2>4, <2>5
<1>5. CASE ~m_bAsynLog
  <2>1. writer' = [writer EXCEPT ![t] = "write"] /\ UNCHANGED ownerVars
    BY <1>5 DEF Goto
  <2>2. \A u \in Threads : writer'[u] # "take"
    BY <2>1 DEF MutexHeld, Free
  <2>3. BuffersPlaced'
    BY <1>1, <1>3, <2>1, <2>2 DEF BuffersPlaced, ownerVars
  <2>4. MutexHeld'
    BY <1>1, <1>5, <2>1 DEF MutexHeld, Free, ownerVars
  <2>5. ThreadLives'
    BY <2>1 DEF ThreadLives, ownerVars
  <2>6. RotationOwned'
    BY <2>1 DEF RotationOwned, MutexHeld, Free, ownerVars
  <2> QED BY <2>3, <2>4, <2>5, <2>6
<1>6. m_bAsynLog \in BOOLEAN
  BY DEF ThreadLives
<1> QED BY <1>4, <1>5, <1>6

LEMMA PlacedWriteLine ==
  ASSUME Placed, NEW t \in Threads, WriteLine(t)
  PROVE  Placed' /\ rot = "none"
<1> USE DEF Placed, WriteLine, Goto, ownerVars, dealBufVars
<1>1. life # "none" /\ ~m_bAsynLog /\ (t = owner => life \in {"start", "stop"})
  BY DEF MutexHeld, Free
<1>2. rot = "none"
  BY <1>1 DEF RotationOwned, MutexHeld
<1>3. writer'[t] = "check" /\ \A u \in Threads : writer'[u] # "take"
  BY DEF MutexHeld
<1>4. BuffersPlaced'
  BY <1>1, <1>3, EmptyIsReal DEF BuffersPlaced
<1>5. MutexHeld'
  BY <1>1 DEF MutexHeld, Free
<1>6. ThreadLives'
  BY DEF ThreadLives
<1>7. RotationOwned'
  BY <1>1, <1>3 DEF RotationOwned
<1> QED BY <1>2, <1>4, <1>5, <1>6, <1>7

LEMMA PlacedLineWritten ==
  ASSUME Placed, NEW t \in Threads, LineWritten(t)
  PROVE  Placed'
<1> USE DEF Placed, LineWritten, bufVars, dealBufVars, fileVars
<1>1. /\ MutexHeld' /\ life' # "none" /\ life # "none"
      /\ \A u \in Threads : writer'[u] = "idle"
      /\ life \in {"start", "stop"} \/ life' = life
      /\ life = "start" => life' \in {"start", "run"}
      /\ life = "stop" => life' \in {"stop", "lower"}
      /\ UNCHANGED <<m_bAsynLog, m_bRunning, promised, torn, runs>>
  BY LogDoneKeeps
<1>2. BuffersPlaced'
  BY <1>1 DEF BuffersPlaced, MutexHeld
<1>3. ThreadLives'
  BY <1>1 DEF ThreadLives
<1>4. RotationOwned'
  BY DEF RotationOwned
<1> QED BY <1>1, <1>2, <1>3, <1>4

LEMMA PlacedSwap ==
  ASSUME Placed, Swap
  PROVE  Placed'
<1> USE DEF Placed, Swap, Deal, ownerVars, fileVars
<1>1. life # "none" /\ m_bAsynLog
  BY DEF ThreadLives
<1>2. m_pBufWrite \in RealBuf
  BY <1>1 DEF BuffersPlaced, Free
<1>3. Append(m_queBufsWrite, m_pBufWrite) \in Seq(RealBuf) /\ <<>> \in Seq(RealBuf)
  BY <1>2, AppendProperties, EmptySeq DEF BuffersPlaced
<1>4. m_pBufWrite' = Empty /\ m_queBufsEmpty' \in Seq({Empty})
  BY TakeReal DEF BuffersPlaced
<1>5. BuffersPlaced'
  BY <1>1, <1>3, <1>4, EmptyIsReal DEF BuffersPlaced, Free
<1>6. MutexHeld'
  BY DEF MutexHeld, Free
<1>7. ThreadLives'
  BY DEF ThreadLives, Places
<1>8. RotationOwned'
  BY <1>1 DEF RotationOwned
<1> QED BY <1>5, <1>6, <1>7, <1>8

LEMMA PlacedNextBuf ==
  ASSUME Placed, NextBuf
  PROVE  Placed'
<1> USE DEF Placed, NextBuf, Deal, ownerVars, fileVars, bufVars, dealBufVars
<1>1. life # "none" /\ m_bAsynLog
  BY DEF ThreadLives
<1>2. BuffersPlaced'
  BY <1>1, HeadTailProperties DEF BuffersPlaced
<1>3. MutexHeld'
  BY DEF MutexHeld, Free
<1>4. ThreadLives'
  BY DEF ThreadLives, Places
<1>5. RotationOwned'
  BY <1>1 DEF RotationOwned
<1> QED BY <1>2, <1>3, <1>4, <1>5

LEMMA PlacedWriteBuf ==
  ASSUME Placed, WriteBuf
  PROVE  Placed' /\ rot = "none"
<1> USE DEF Placed, WriteBuf, Deal, ownerVars, bufVars
<1>1. life # "none" /\ m_bAsynLog
  BY DEF ThreadLives
<1>2. rot = "none"
  BY <1>1 DEF RotationOwned
<1>3. BuffersPlaced'
  BY <1>1, EmptyIsReal DEF BuffersPlaced
<1>4. MutexHeld'
  BY DEF MutexHeld, Free
<1>5. ThreadLives'
  BY DEF ThreadLives, Places
<1>6. RotationOwned'
  BY <1>1 DEF RotationOwned
<1> QED BY <1>2, <1>3, <1>4, <1>5, <1>6

LEMMA PlacedRecycle ==
  ASSUME Placed, Recycle
  PROVE  Placed'
<1> USE DEF Placed, Recycle, Deal, ownerVars, fileVars
<1>1. life # "none" /\ m_bAsynLog
  BY DEF ThreadLives
<1>2. Append(m_queBufsEmpty, m_pBufDeal) \in Seq({Empty})
  BY AppendProperties DEF BuffersPlaced
<1>3. BuffersPlaced'
  BY <1>1, <1>2 DEF BuffersPlaced
<1>4. MutexHeld'
  BY DEF MutexHeld, Free
<1>5. ThreadLives'
  BY DEF ThreadLives, Places
<1>6. RotationOwned'
  BY DEF RotationOwned
<1> QED BY <1>3, <1>4, <1>5, <1>6

LEMMA PlacedLooking ==
  ASSUME Placed, Looking
  PROVE  Placed'
<1> USE DEF Placed
<1>1. /\ DealOnly
      /\ deal \in Places \ {"none", "write", "check", "exit"}
      /\ deal' \in Places \ {"none", "write", "check"}
  BY DEF Looking, TestRunning, TestBuf, TestQueue, Wait, WakeUp, Look, LookQueue, Deal, Places
<1>2. life # "none" /\ m_bAsynLog
  BY <1>1 DEF ThreadLives
<1> USE DEF DealOnly, ownerVars, fileVars, bufVars, dealBufVars
<1>3. BuffersPlaced'
  BY <1>1, <1>2 DEF BuffersPlaced
<1>4. MutexHeld'
  BY <1>1 DEF MutexHeld, Free
<1>5. ThreadLives'
  BY <1>1, <1>2 DEF ThreadLives
<1>6. RotationOwned'
  BY <1>1, <1>2 DEF RotationOwned
<1> QED BY <1>3, <1>4, <1>5, <1>6

LEMMA PlacedStart ==
  ASSUME Placed, Start
  PROVE  Placed'
<1> USE DEF Placed, Start, dealBufVars
<1>1. Free /\ deal = "none"
  BY DEF MutexHeld, ThreadLives
<1>2. [i \in 1..BufEmptySize |-> Empty] \in Seq({Empty})
  BY LoggerAssumption
<1>3. BuffersPlaced'
  BY <1>1, <1>2, EmptyIsReal DEF BuffersPlaced, Free
<1>4. MutexHeld'
  BY <1>1 DEF MutexHeld, Free, Threads
<1>5. ThreadLives'
  BY DEF ThreadLives, Places
<1>6. rot = "none"
  BY <1>1 DEF RotationOwned, Free, ThreadLives
<1>7. RotationOwned'
  BY <1>6 DEF RotationOwned
<1> QED BY <1>3, <1>4, <1>5, <1>7

LEMMA PlacedGone ==
  ASSUME Placed, Gone, torn' \in BOOLEAN
  PROVE  Placed'
<1> USE DEF Placed, Gone
<1>1. <<>> \in Seq(RealBuf) /\ <<>> \in Seq({Empty})
  BY EmptySeq
<1>2. BuffersPlaced'
  BY <1>1 DEF BuffersPlaced
<1>3. MutexHeld' /\ ThreadLives' /\ RotationOwned'
  BY DEF MutexHeld, Free, Threads, ThreadLives, Places, RotationOwned
<1> QED BY <1>2, <1>3

LEMMA PlacedOwner ==
  ASSUME Placed, Stop \/ Lower \/ Join
  PROVE  Placed'
<1> USE DEF Placed, Stop, Lower, Join, fileVars, bufVars, dealBufVars
<1>1. life # "none" /\ life' # "none" /\ UNCHANGED <<writer, m_bAsynLog, deal, rot, bufVars,
                                                     dealBufVars>>
  OBVIOUS
<1>2. BuffersPlaced'
  BY <1>1 DEF BuffersPlaced
<1>3. MutexHeld'
  BY <1>1 DEF MutexHeld, Free
<1>4. ThreadLives'
  BY <1>1 DEF ThreadLives
<1>5. RotationOwned'
  BY <1>1 DEF RotationOwned
<1> QED BY <1>2, <1>3, <1>4, <1>5

LEMMA PlacedFileStep ==
  ASSUME Placed, FileStep
  PROVE  Placed'
<1> USE DEF Placed, FileStep, ownerVars, bufVars, dealBufVars
<1>1. rot # "none"
  BY DEF fileSizeCheck, SizeFine, CloseFull, RemoveOldest, Shift, RenameCurrent, Reopen
<1>2. BuffersPlaced' /\ ThreadLives'
  BY DEF BuffersPlaced, ThreadLives
<1>3. MutexHeld'
  BY DEF MutexHeld, Free
<1>4. RotationOwned'
  BY <1>1 DEF RotationOwned
<1> QED BY <1>2, <1>3, <1>4

LEMMA PlacedStep ==
  ASSUME Placed, [Next]_vars
  PROVE  Placed'
<1>1. CASE \E t \in Threads : logWrite(t)
  BY <1>1, PlacedPushWrite, PlacedTakeEmpty, PlacedPut, PlacedWriteLine, PlacedLineWritten
     DEF logWrite
<1>2. CASE dealThread
  BY <1>2, PlacedLooking, PlacedSwap, PlacedNextBuf, PlacedWriteBuf, PlacedRecycle
     DEF dealThread, Looking
<1>3. CASE Start \/ Stop \/ Lower \/ Join \/ FileStep
  BY <1>3, PlacedStart, PlacedOwner, PlacedFileStep
<1>4. CASE Close \/ Die
  BY <1>4, PlacedGone DEF Close, Die, Placed, ThreadLives
<1>5. CASE UNCHANGED vars
  BY <1>5 DEF vars, ownerVars, fileVars, bufVars, dealBufVars, Placed, BuffersPlaced,
       MutexHeld, Free, ThreadLives, RotationOwned
<1> QED BY <1>1, <1>2, <1>3, <1>4, <1>5 DEF Next

-----------------------------------------------------------------------------
(* The steps keep the files. *)

FilesInv == FilesTyped /\ FilesFull /\ FilesKept

LEMMA SettingsNat ==
  ASSUME FilesTypeOK
  PROVE  m_fileNum \in Nat /\ m_fileSize \in Nat
BY FilesAssumption DEF FilesTypeOK

\* A write makes no file shorter, and none appears.
LEMMA WrittenKeeps ==
  ASSUME files \in [DOMAIN files -> Seq(LogLine)], NEW lines \in Seq(LogLine),
         files' = Written(lines)
  PROVE  /\ files' \in [DOMAIN files -> Seq(LogLine)]
         /\ \A n \in DOMAIN files \ {Current} : files'[n] = files[n]
<1>1. Current \in DOMAIN files => files[Current] \o lines \in Seq(LogLine)
  BY ConcatProperties
<1> QED BY <1>1 DEF Written

LEMMA OpenedKeeps ==
  ASSUME files \in [DOMAIN files -> Seq(LogLine)], files' = WithCurrent(files)
  PROVE  /\ files' \in [DOMAIN files \cup {Current} -> Seq(LogLine)]
         /\ \A n \in DOMAIN files : files'[n] = files[n]
<1>1. <<>> \in Seq(LogLine)
  BY EmptySeq
<1> QED BY <1>1 DEF WithCurrent

LEMMA FilesInitHolds == Init => FilesInv
<1> SUFFICES ASSUME Init PROVE FilesInv
  OBVIOUS
<1>1. files = [n \in {} |-> <<>>] /\ DOMAIN files = {} /\ rot = "none" /\ nLogNumIndex = 0
  BY DEF Init, FilesInit
<1>2. PICK s \in Settings : m_fileNum = s[1] /\ m_fileSize = s[2]
  BY DEF Init, FilesInit
<1>3. <<m_fileNum, m_fileSize>> \in Settings /\ m_fileNum \in Nat
  BY <1>2, FilesAssumption
<1>4. FilesTypeOK
  BY <1>1, <1>3 DEF FilesTypeOK
<1>5. FilesTyped
  BY <1>1, <1>4 DEF FilesTyped, Init
<1>6. FilesKept /\ FilesFull
  BY <1>1 DEF FilesKept, FilesFull, Gapless
<1> QED BY <1>5, <1>6 DEF FilesInv

\* The lines of a buffer go to the end of the log.
LEMMA FilesWritten ==
  ASSUME FilesInv, rot = "none", NEW lines \in Seq(LogLine), files' = Written(lines),
         rot' \in {"none", "check"}, UNCHANGED <<settings, torn>>,
         nLogNumIndex' \in {nLogNumIndex, 0}, life' \in {life, "none"}
  PROVE  FilesInv'
<1> USE DEF FilesInv, settings
<1>1. m_fileNum \in Nat
  BY SettingsNat DEF FilesTyped
<1>2. /\ files' \in [DOMAIN files -> Seq(LogLine)]
      /\ \A n \in DOMAIN files \ {Current} : files'[n] = files[n]
  BY WrittenKeeps DEF FilesTyped
<1>3. FilesTyped'
  BY <1>1, <1>2 DEF FilesTyped, FilesTypeOK
<1>4. FilesKept' /\ FilesFull'
  BY <1>2 DEF FilesKept, FilesFull, Gapless
<1> QED BY <1>3, <1>4

LEMMA FilesSizeFine ==
  ASSUME FilesInv, SizeFine \/ CloseFull, UNCHANGED <<life, torn>>, life # "none"
  PROVE  FilesInv'
<1> USE DEF FilesInv, SizeFine, CloseFull, settings
<1>1. m_fileNum \in Nat /\ m_fileSize \in Nat /\ Len(files[Current]) \in Nat
  BY SettingsNat DEF FilesTyped
<1>2. FilesTyped'
  BY DEF FilesTyped, FilesTypeOK
<1>3. FilesKept' /\ FilesFull'
  BY <1>1 DEF FilesKept, FilesFull, Gapless
<1> QED BY <1>2, <1>3

LEMMA FilesRemoveOldest ==
  ASSUME FilesInv, RemoveOldest, UNCHANGED <<life, torn>>, life # "none"
  PROVE  FilesInv'
<1> USE DEF FilesInv, RemoveOldest, RemoveFile, settings
<1>1. m_fileNum \in Nat /\ m_fileNum # Current
  BY SettingsNat DEF FilesTyped, Current
<1>2. /\ DOMAIN files' = DOMAIN files \ {m_fileNum}
      /\ \A n \in DOMAIN files' : files'[n] = files[n]
  OBVIOUS
<1>3. FilesTyped'
  BY <1>1, <1>2 DEF FilesTyped, FilesTypeOK
<1>4. FilesKept'
  <2> SUFFICES ASSUME ~torn PROVE FilesKept'
    BY DEF FilesKept
  <2>1. nLogNumIndex' + 1 = m_fileNum
    BY <1>1
  <2>3. Gapless(0)
    BY DEF FilesKept
  <2>4. Gapless(nLogNumIndex + 1)'
    <3> SUFFICES ASSUME NEW n \in DOMAIN files', NEW k \in 1..n
                 PROVE  k = m_fileNum \/ k \in DOMAIN files'
      BY <2>1 DEF Gapless
    <3>1. k \in DOMAIN files
      BY <1>2, <2>3 DEF Gapless
    <3> QED BY <1>2, <3>1
  <2> QED BY <1>2, <2>1, <2>4 DEF FilesKept
<1>5. FilesFull'
  <2>1. Current \in DOMAIN files'
    BY <1>1, <1>2 DEF FilesTyped
  <2> QED BY <1>2, <2>1 DEF FilesFull
<1> QED BY <1>3, <1>4, <1>5

LEMMA FilesShift ==
  ASSUME FilesInv, Shift, UNCHANGED <<life, torn>>, life # "none"
  PROVE  FilesInv'
<1> DEFINE i == nLogNumIndex
<1> USE DEF FilesInv, Shift, RenameFile, settings
<1>1. m_fileNum \in Nat /\ i \in 1..(m_fileNum - 1) /\ i # Current /\ i + 1 # Current
  BY SettingsNat DEF FilesTyped, FilesTypeOK, Current
<1>2. Current \in DOMAIN files
  BY DEF FilesTyped
<1>3. CASE i \notin DOMAIN files
  <2>1. files' = files
    BY <1>3
  <2>2. FilesTyped'
    BY <1>1, <2>1 DEF FilesTyped, FilesTypeOK
  <2>3. FilesKept'
    <3> SUFFICES ASSUME ~torn PROVE FilesKept'
      BY DEF FilesKept
    <3>1. i + 1 \notin DOMAIN files /\ Gapless(i + 1)
      BY DEF FilesKept
    <3>2. Gapless(i)
      <4> SUFFICES ASSUME NEW n \in DOMAIN files, NEW k \in 1..n, k = i + 1
                   PROVE  FALSE
        BY <3>1 DEF Gapless
      <4>1. n \in Int /\ n > i + 1
        BY <1>1, <3>1 DEF FilesTyped, FilesTypeOK, Current
      <4>2. i \in 1..n /\ i # i + 1
        BY <1>1, <4>1
      <4> QED BY <1>3, <3>1, <4>2 DEF Gapless
    <3>3. nLogNumIndex' + 1 = i
      BY <1>1
    <3> QED BY <1>3, <2>1, <3>2, <3>3 DEF FilesKept, Gapless
  <2>4. FilesFull'
    BY <2>1 DEF FilesFull
  <2> QED BY <2>2, <2>3, <2>4
<1>4. CASE i \in DOMAIN files
  <2>1. /\ DOMAIN files' = (DOMAIN files \ {i}) \cup {i + 1}
        /\ files'[i + 1] = files[i]
        /\ \A n \in DOMAIN files \ {i, i + 1} : files'[n] = files[n]
        /\ files' = [n \in DOMAIN files' |-> files'[n]]
    BY <1>1, <1>4
  <2>2. FilesTyped'
    <3>1. files' \in [DOMAIN files' -> Seq(LogLine)]
      BY <1>4, <2>1 DEF FilesTyped
    <3>2. FilesTypeOK'
      BY <1>1, <2>1 DEF FilesTyped, FilesTypeOK
    <3> QED BY <1>1, <1>2, <2>1, <3>1, <3>2 DEF FilesTyped
  <2>3. FilesKept'
    <3> SUFFICES ASSUME ~torn PROVE FilesKept'
      BY DEF FilesKept
    <3>1. i + 1 \notin DOMAIN files /\ Gapless(i + 1)
      BY DEF FilesKept
    <3>2. i \notin DOMAIN files'
      BY <1>1, <2>1
    <3>3. ASSUME NEW n \in DOMAIN files', NEW k \in 1..n, k # i
          PROVE  k \in DOMAIN files'
      <4>1. CASE k = i + 1
        BY <2>1, <4>1
      <4>2. CASE k # i + 1
        <5>1. k \in DOMAIN files
          <6>1. CASE n \in DOMAIN files
            BY <3>1, <4>2, <6>1 DEF Gapless
          <6>2. CASE n = i + 1
            <7>1. k \in 1..i
              BY <1>1, <4>2, <6>2
            <7> QED BY <1>4, <3>1, <4>2, <7>1 DEF Gapless
          <6> QED BY <2>1, <6>1, <6>2
        <5> QED BY <2>1, <3>3, <5>1
      <4> QED BY <4>1, <4>2
    <3>5. nLogNumIndex' + 1 = i
      BY <1>1
    <3>6. Gapless(nLogNumIndex + 1)'
      BY <3>3, <3>5 DEF Gapless
    <3> QED BY <3>2, <3>5, <3>6 DEF FilesKept
  <2>4. FilesFull'
    <3>1. \A n \in DOMAIN files' \ {Current} : Len(files'[n]) > m_fileSize
      BY <1>1, <1>4, <2>1 DEF FilesFull
    <3>2. Len(files'[Current]) > m_fileSize
      BY <1>1, <1>2, <2>1 DEF FilesFull
    <3> QED BY <3>1, <3>2 DEF FilesFull
  <2> QED BY <2>2, <2>3, <2>4
<1> QED BY <1>3, <1>4

LEMMA FilesRenameCurrent ==
  ASSUME FilesInv, RenameCurrent, UNCHANGED <<life, torn>>, life # "none"
  PROVE  FilesInv'
<1> DEFINE new == IF m_fileNum = 0 THEN 0 ELSE 1
<1> USE DEF FilesInv, RenameCurrent, RenameFile, settings
<1>1. m_fileNum \in Nat /\ m_fileSize \in Nat /\ new \in 0..m_fileNum /\ new # Current
  BY SettingsNat DEF FilesTyped, Current
<1>2. nLogNumIndex + 1 = new
  BY <1>1 DEF FilesTyped, FilesTypeOK
<1>3. Current \in DOMAIN files
  BY DEF FilesTyped
<1>4. /\ DOMAIN files' = (DOMAIN files \ {Current}) \cup {new}
      /\ files'[new] = files[Current]
      /\ \A n \in DOMAIN files \ {Current, new} : files'[n] = files[n]
      /\ files' = [n \in DOMAIN files' |-> files'[n]]
  BY <1>1, <1>3
<1>5. FilesTyped'
  <2>1. files' \in [DOMAIN files' -> Seq(LogLine)]
    BY <1>3, <1>4 DEF FilesTyped
  <2>2. FilesTypeOK'
    BY <1>1, <1>4 DEF FilesTyped, FilesTypeOK
  <2> QED BY <2>1, <2>2 DEF FilesTyped
<1>6. FilesKept'
  <2> SUFFICES ASSUME ~torn PROVE FilesKept'
    BY DEF FilesKept
  <2>2. ASSUME NEW n \in DOMAIN files', NEW k \in 1..n
        PROVE  k \in DOMAIN files'
    <3>1. CASE n = new
      BY <1>1, <1>4, <3>1
    <3>2. CASE n \in DOMAIN files
      <4>1. k = new \/ k \in DOMAIN files
        BY <1>2, <3>2 DEF FilesKept, Gapless
      <4>2. k # Current
        BY DEF Current
      <4> QED BY <1>4, <4>1, <4>2
    <3> QED BY <1>4, <3>1, <3>2
  <2>3. Gapless(0)'
    BY <2>2 DEF Gapless
  <2> QED BY <2>3 DEF FilesKept
<1>7. FilesFull'
  BY <1>1, <1>4 DEF FilesFull
<1> QED BY <1>5, <1>6, <1>7

\* open creates the log if it is not there.
LEMMA FilesOpened ==
  ASSUME FilesInv, files' = WithCurrent(files), UNCHANGED <<settings, torn>>,
         rot \in {"none", "open"}, rot' = "none", nLogNumIndex' \in {nLogNumIndex, 0}
  PROVE  FilesInv'
<1> USE DEF FilesInv, settings
<1>1. m_fileNum \in Nat
  BY SettingsNat DEF FilesTyped
<1>2. /\ files' \in [DOMAIN files \cup {Current} -> Seq(LogLine)]
      /\ \A n \in DOMAIN files : files'[n] = files[n]
  BY OpenedKeeps DEF FilesTyped
<1>3. FilesTyped'
  BY <1>1, <1>2 DEF FilesTyped, FilesTypeOK
<1>4. FilesKept'
  <2> SUFFICES ASSUME ~torn PROVE FilesKept'
    BY DEF FilesKept
  <2>1. Gapless(0)
    BY DEF FilesKept
  <2>2. ASSUME NEW n \in DOMAIN files', NEW k \in 1..n
        PROVE  k \in DOMAIN files'
    <3>1. n # Current
      BY DEF Current
    <3> QED BY <1>2, <2>1, <3>1 DEF Gapless
  <2>3. Gapless(0)'
    BY <2>2 DEF Gapless
  <2> QED BY <1>2, <2>3 DEF FilesKept
<1>5. FilesFull'
  BY <1>2 DEF FilesFull
<1> QED BY <1>3, <1>4, <1>5

\* The first n lines, the last one broken off or not: as many, with the same numbers.
LEMMA FirstLines ==
  ASSUME NEW q \in Seq(LogLine), NEW n \in 1..Len(q),
         NEW a \in {SubSeq(q, 1, n), BrokenOff(q, n)}
  PROVE  a \in Seq(LogLine) /\ Len(a) = n /\ \A i \in 1..n : a[i].no = q[i].no
<1>1. Len(q) \in Nat /\ n \in Nat /\ n - 1 \in Nat /\ n \in DOMAIN q
  BY LenProperties
<1>2. ASSUME NEW m \in 0..Len(q)
      PROVE  /\ SubSeq(q, 1, m) \in Seq(LogLine) /\ Len(SubSeq(q, 1, m)) = m
             /\ \A i \in 1..m : SubSeq(q, 1, m)[i] = q[i]
  <2>1. /\ 1 \in 1..(Len(q) + 1) /\ m \in (1 - 1)..Len(q)
        /\ m - 1 + 1 = m /\ \A i \in 1..m : 1 + i - 1 = i
    BY <1>1
  <2> DEFINE b == SubSeq(q, 1, m)
  <2>2. /\ b \in Seq(LogLine) /\ Len(b) = IF 1 <= m THEN m - 1 + 1 ELSE 0
        /\ \A i \in 1..(m - 1 + 1) : b[i] = q[1 + i - 1]
    BY <2>1, SubSeqProperties
  <2> HIDE DEF b
  <2>3. Len(b) = m
    BY <1>1, <2>2
  <2> QED BY <2>1, <2>2, <2>3 DEF b
<1>3. CASE a = SubSeq(q, 1, n)
  <2>1. n \in 0..Len(q)
    BY <1>1
  <2> QED BY <1>2, <1>3, <2>1
<1>4. CASE a = BrokenOff(q, n)
  <2> DEFINE b == SubSeq(q, 1, n - 1)
             l == [q[n] EXCEPT !.whole = FALSE]
  <2>1. n - 1 \in 0..Len(q)
    BY <1>1
  <2>2. b \in Seq(LogLine) /\ Len(b) = n - 1 /\ \A i \in 1..(n - 1) : b[i] = q[i]
    BY <1>2, <2>1
  <2>3. q[n] \in LogLine
    BY ElementOfSeq
  <2>4. l \in LogLine /\ l.no = q[n].no
    BY <2>3 DEF LogLine
  <2>5. a = Append(b, l)
    BY <1>4 DEF BrokenOff
  <2> HIDE DEF b, l
  <2>6. /\ a \in Seq(LogLine) /\ Len(a) = Len(b) + 1
        /\ \A i \in 1..Len(b) : a[i] = b[i]
        /\ a[Len(b) + 1] = l
    BY <2>2, <2>4, <2>5, AppendProperties
  <2>7. \A i \in 1..n : i \in 1..(n - 1) \/ i = n
    BY <1>1
  <2>8. Len(b) + 1 = n
    BY <1>1, <2>2
  <2> QED BY <2>2, <2>4, <2>6, <2>7, <2>8
<1> QED BY <1>3, <1>4

\* A death leaves the files, and what it was writing in part.
LEMMA FilesDie ==
  ASSUME Placed, FilesInv, Die
  PROVE  FilesInv'
<1> USE DEF Die, Gone, settings
<1>1. Writing \in Seq(LogLine)
  <2>1. CASE deal = "write"
    BY <2>1 DEF Writing, Placed, BuffersPlaced, RealBuf
  <2>2. CASE deal # "write" /\ \E t \in Threads : writer[t] = "write"
    <3>1. m_pBufWrite \in RealBuf
      BY <2>2 DEF Placed, BuffersPlaced, MutexHeld
    <3> QED BY <2>2, <3>1 DEF Writing, RealBuf
  <2>3. CASE deal # "write" /\ ~\E t \in Threads : writer[t] = "write"
    BY <2>3, EmptySeq DEF Writing
  <2> QED BY <2>1, <2>2, <2>3
<1>4. /\ DOMAIN files' = DOMAIN files
      /\ files' \in [DOMAIN files -> Seq(LogLine)]
      /\ \A k \in DOMAIN files \ {Current} : files'[k] = files[k]
  <2>1. CASE files' = files
    BY <2>1 DEF FilesInv, FilesTyped
  <2>2. CASE files' # files
    <3>0. PICK n \in 1..Len(Writing) :
            files' \in {Written(SubSeq(Writing, 1, n)), Written(BrokenOff(Writing, n))}
      BY <2>2
    <3>1. PICK a \in {SubSeq(Writing, 1, n), BrokenOff(Writing, n)} : files' = Written(a)
      BY <3>0
    <3>2. a \in Seq(LogLine)
      BY <1>1, FirstLines
    <3> QED BY <3>1, <3>2, WrittenKeeps DEF FilesInv, FilesTyped
  <2> QED BY <2>1, <2>2
<1>5. m_fileNum \in Nat
  BY SettingsNat DEF FilesInv, FilesTyped
<1>6. FilesTyped'
  BY <1>4, <1>5 DEF FilesInv, FilesTyped, FilesTypeOK
<1>7. FilesKept'
  <2> SUFFICES ASSUME ~torn, rot # "shift" PROVE FilesKept'
    BY DEF FilesKept
  <2> QED BY <1>4 DEF FilesInv, FilesKept, Gapless
<1>8. FilesFull'
  BY <1>4 DEF FilesInv, FilesFull
<1> QED BY <1>6, <1>7, <1>8 DEF FilesInv

LEMMA FilesStep ==
  ASSUME Placed, FilesInv, [Next]_vars
  PROVE  FilesInv'
<1>1. CASE \E t \in Threads : WriteLine(t)
  <2> PICK t \in Threads : WriteLine(t)
    BY <1>1
  <2>1. rot = "none"
    BY PlacedWriteLine
  <2>2. m_pBufWrite \in RealBuf
    BY DEF WriteLine, Placed, BuffersPlaced, MutexHeld, Free
  <2>3. m_pBufWrite.lines \in Seq(LogLine)
    BY <2>2 DEF RealBuf
  <2> QED BY <2>1, <2>3, FilesWritten DEF WriteLine, ownerVars
<1>2. CASE WriteBuf
  <2>1. rot = "none"
    BY <1>2, PlacedWriteBuf
  <2>2. m_pBufDeal.lines \in Seq(LogLine)
    BY <1>2 DEF WriteBuf, Deal, Placed, BuffersPlaced, RealBuf
  <2> QED BY <1>2, <2>1, <2>2, FilesWritten DEF WriteBuf, ownerVars
<1>3. CASE FileStep
  <2>1. rot # "none"
    BY <1>3 DEF FileStep, fileSizeCheck, SizeFine, CloseFull, RemoveOldest, Shift,
         RenameCurrent, Reopen
  <2>2. life # "none"
    BY <2>1 DEF Placed, RotationOwned, ThreadLives, MutexHeld, Free
  <2>3. UNCHANGED <<life, torn>>
    BY <1>3 DEF FileStep, ownerVars
  <2>4. CASE Reopen
    BY <2>3, <2>4, FilesOpened DEF Reopen
  <2> QED BY <1>3, <2>2, <2>3, <2>4, FilesSizeFine, FilesRemoveOldest, FilesShift,
             FilesRenameCurrent DEF FileStep, fileSizeCheck
<1>4. CASE Start
  <2>1. rot = "none"
    BY <1>4 DEF Start, Placed, RotationOwned, ThreadLives, MutexHeld, Free
  <2> QED BY <1>4, <2>1, FilesOpened DEF Start, settings
<1>5. CASE Die
  BY <1>5, FilesDie
<1>6. CASE \/ \E t \in Threads : PushWrite(t) \/ TakeEmpty(t) \/ Put(t) \/ LineWritten(t)
           \/ Looking \/ Swap \/ NextBuf \/ Recycle
           \/ Stop \/ Lower \/ Join \/ Close \/ UNCHANGED vars
  <2>1. UNCHANGED <<settings, files, torn>>
    BY <1>6 DEF PushWrite, TakeEmpty, Put, LineWritten, LogDone, Looking, TestRunning,
         TestBuf, TestQueue, Wait, WakeUp, Look, LookQueue, DealOnly, Swap, NextBuf,
         Recycle, Stop, Lower, Join, Close, Gone, vars, fileVars, ownerVars
  <2>2. life = "none" => life' = "none"
    <3>1. CASE \E t \in Threads : PushWrite(t) \/ TakeEmpty(t) \/ Put(t) \/ LineWritten(t)
      BY <3>1 DEF PushWrite, TakeEmpty, Put, LineWritten, MayLog, Placed, MutexHeld, Free
    <3>2. CASE Looking \/ Swap \/ NextBuf \/ Recycle \/ Stop \/ Lower \/ Join \/ Close
                 \/ UNCHANGED vars
      BY <3>2 DEF Looking, TestRunning, TestBuf, TestQueue, Wait, WakeUp, Look, LookQueue,
           DealOnly, Swap, NextBuf, Recycle, Stop, Lower, Join, Close, Gone, vars, ownerVars
    <3> QED BY <1>6, <3>1, <3>2
  <2>3. UNCHANGED <<rot, nLogNumIndex>> \/ (rot = "none" /\ rot' = "none" /\ nLogNumIndex' = 0)
    BY <1>6 DEF PushWrite, TakeEmpty, Put, LineWritten, Looking, TestRunning,
         TestBuf, TestQueue, Wait, WakeUp, Look, LookQueue, DealOnly, Swap, NextBuf,
         Recycle, Stop, Lower, Join, Close, Gone, vars, fileVars, ownerVars,
         Free, Placed, RotationOwned, ThreadLives, Places
  <2>4. m_fileNum \in Nat
    BY SettingsNat DEF FilesInv, FilesTyped
  <2> QED BY <2>1, <2>2, <2>3, <2>4
          DEF FilesInv, FilesTyped, FilesTypeOK, FilesKept, FilesFull, Gapless, settings
<1> QED BY <1>1, <1>2, <1>3, <1>4, <1>5, <1>6
        DEF Next, logWrite, dealThread, Looking

-----------------------------------------------------------------------------
LEMMA TypesHold == Placed /\ FilesInv => TypeOK
<1> SUFFICES ASSUME Placed, FilesInv PROVE TypeOK
  OBVIOUS
<1>1. \A S : \A q \in Seq(S) : Range(q) \subseteq S
  BY DEF Range
<1>2. Range(m_queBufsEmpty) \subseteq {Empty}
  BY <1>1 DEF Placed, BuffersPlaced
<1>3. Null \notin Range(m_queBufsWrite) \cup Range(m_queBufsDeal)
  BY <1>1, EmptyIsReal DEF Placed, BuffersPlaced
<1>4. m_pBufWrite = Null <=> (life = "none" \/ \E t \in Threads : writer[t] = "take")
  BY EmptyIsReal DEF Placed, BuffersPlaced
<1>5. m_pBufDeal # Null <=> deal \in {"write", "check"}
  BY EmptyIsReal DEF Placed, BuffersPlaced
<1>6. rot # "none" => life # "none"
  BY DEF Placed, RotationOwned, ThreadLives, MutexHeld, Free
<1> QED BY <1>2, <1>3, <1>4, <1>5, <1>6
        DEF TypeOK, Placed, FilesInv, FilesTyped, MutexHeld, ThreadLives

LEMMA RotationHolds == Placed /\ FilesInv => RotationKeepsFiles
<1> SUFFICES ASSUME Placed, FilesInv PROVE RotationKeepsFiles
  OBVIOUS
<1>1. TypeOK
  BY TypesHold
<1>2. ASSUME rot = "remove", m_fileNum \in DOMAIN files,
             NEW n \in {Current} \cup 1..m_fileNum
      PROVE  IF n \in DOMAIN files THEN Len(files[n]) > m_fileSize ELSE torn
  <2>1. n \in DOMAIN files \/ torn
    <3>1. CASE n = Current
      BY <1>1, <1>2, <3>1 DEF TypeOK, FilesInv, FilesTyped
    <3>2. CASE n \in 1..m_fileNum /\ ~torn
      <4>1. m_fileNum \in Nat /\ n # 0
        BY <3>2, SettingsNat DEF FilesInv, FilesTyped
      <4> QED BY <1>2, <3>2, <4>1 DEF FilesInv, FilesKept, Gapless
    <3> QED BY <3>1, <3>2
  <2>2. n \in DOMAIN files => Len(files[n]) > m_fileSize
    BY <1>2 DEF FilesInv, FilesFull
  <2> QED BY <2>1, <2>2
<1> QED BY <1>1, <1>2 DEF RotationKeepsFiles

\* A rotation removes a file only for younger ones that are full, in either mode,
\* whoever logs, and for m_fileNum of them unless an earlier run died between two
\* renames (fileSizeCheck, lines 441-486).
THEOREM RotationKeepsFilesCorrect == Spec => []RotationKeepsFiles
<1>1. Init => Placed /\ FilesInv
  BY PlacedInit, FilesInitHolds
<1>2. Placed /\ FilesInv /\ [Next]_vars => Placed' /\ FilesInv'
  BY PlacedStep, FilesStep
<1> QED BY <1>1, <1>2, RotationHolds, PTL DEF Spec

-----------------------------------------------------------------------------
\* Induction over the naturals: a set of them that is not empty has a least element,
\* so one that has 0 and, with each, the next one has them all.
LEMMA LeastNatural ==
  ASSUME NEW T \in SUBSET Nat, T # {}
  PROVE  \E x \in T : \A y \in T : x <= y
<1>1. PICK x \in T : \A y \in T : ~(<<y, x>> \in OpToRel(<, Nat))
  BY Zenon, WFMin, NatLessThanWellFounded
<1>2. \A y \in T : ~(y < x)
  BY <1>1 DEF OpToRel
<1> QED BY <1>2

LEMMA AllNaturals ==
  ASSUME NEW T \in SUBSET Nat, 0 \in T, \A n \in T : n + 1 \in T
  PROVE  T = Nat
<1> SUFFICES ASSUME T # Nat PROVE FALSE
  OBVIOUS
<1>1. PICK x \in Nat \ T : \A y \in Nat \ T : x <= y
  BY LeastNatural
<1>2. x - 1 \in T
  BY <1>1
<1> QED BY <1>1, <1>2

-----------------------------------------------------------------------------
(* FlattenSeq, whose definition is a recursive function.                   *)

AreSeqs(Q, S) == Q \subseteq Seq(S)

Flattens(f, s, m) ==
  \A i \in 1..m : f[i] = IF i = 1 THEN s[i] ELSE f[i - 1] \o s[i]

LEMMA FlattensExists ==
  ASSUME NEW S, NEW Q, AreSeqs(Q, S), NEW s \in Seq(Q), NEW n \in 0..Len(s)
  PROVE  \E f \in [1..n -> Seq(S)] : Flattens(f, s, n)
<1> DEFINE T == {m \in Nat : m <= Len(s) => \E f \in [1..m -> Seq(S)] : Flattens(f, s, m)}
<1>1. 0 \in T
  <2>1. [i \in 1..0 |-> <<>>] \in [1..0 -> Seq(S)]
    OBVIOUS
  <2>2. Flattens([i \in 1..0 |-> <<>>], s, 0)
    BY DEF Flattens
  <2> QED BY <2>1, <2>2
<1>2. ASSUME NEW m \in T PROVE m + 1 \in T
  <2> SUFFICES ASSUME m + 1 <= Len(s)
               PROVE  \E f \in [1..(m + 1) -> Seq(S)] : Flattens(f, s, m + 1)
    OBVIOUS
  <2>1. PICK f \in [1..m -> Seq(S)] : Flattens(f, s, m)
    OBVIOUS
  <2> DEFINE last == IF m = 0 THEN s[1] ELSE f[m] \o s[m + 1]
             g == [i \in 1..(m + 1) |-> IF i = m + 1 THEN last ELSE f[i]]
  <2>2. last \in Seq(S)
    <3>1. s[m + 1] \in Seq(S)
      BY DEF AreSeqs
    <3>2. m # 0 => f[m] \in Seq(S)
      OBVIOUS
    <3> QED BY <3>1, <3>2, ConcatProperties
  <2>3. g \in [1..(m + 1) -> Seq(S)]
    BY <2>2
  <2>4. Flattens(g, s, m + 1)
    <3> SUFFICES ASSUME NEW i \in 1..(m + 1)
                 PROVE  g[i] = IF i = 1 THEN s[i] ELSE g[i - 1] \o s[i]
      BY DEF Flattens
    <3>1. CASE i = m + 1
      BY <3>1
    <3>2. CASE i # m + 1
      <4>1. i \in 1..m /\ g[i] = f[i] /\ (i # 1 => g[i - 1] = f[i - 1])
        BY <3>2
      <4>2. f[i] = IF i = 1 THEN s[i] ELSE f[i - 1] \o s[i]
        BY <2>1, <4>1 DEF Flattens
      <4> QED BY <4>1, <4>2
    <3> QED BY <3>1, <3>2
  <2> QED BY <2>3, <2>4
<1>3. T = Nat
  <2> HIDE DEF T
  <2>1. T \in SUBSET Nat
    BY DEF T
  <2> QED BY <1>1, <1>2, <2>1, AllNaturals
<1>4. n \in T
  <2> HIDE DEF T
  <2> QED BY <1>3
<1> QED BY <1>4

LEMMA FlattensUnique ==
  ASSUME NEW s, NEW n \in Nat, NEW f, NEW g, Flattens(f, s, n), Flattens(g, s, n), NEW k \in 1..n
  PROVE  f[k] = g[k]
<1> DEFINE T == {m \in Nat : m \in 1..n => f[m] = g[m]}
<1>1. 0 \in T
  OBVIOUS
<1>2. ASSUME NEW m \in T PROVE m + 1 \in T
  <2> SUFFICES ASSUME m + 1 \in 1..n PROVE f[m + 1] = g[m + 1]
    OBVIOUS
  <2>1. /\ f[m + 1] = IF m + 1 = 1 THEN s[m + 1] ELSE f[m + 1 - 1] \o s[m + 1]
        /\ g[m + 1] = IF m + 1 = 1 THEN s[m + 1] ELSE g[m + 1 - 1] \o s[m + 1]
    BY DEF Flattens
  <2>2. m + 1 # 1 => f[m + 1 - 1] = g[m + 1 - 1]
    OBVIOUS
  <2> QED BY <2>1, <2>2
<1>3. T = Nat
  <2> HIDE DEF T
  <2>1. T \in SUBSET Nat
    BY DEF T
  <2> QED BY <1>1, <1>2, <2>1, AllNaturals
<1>4. k \in T
  <2> HIDE DEF T
  <2> QED BY <1>3
<1> QED BY <1>4

LEMMA FlattensLast ==
  ASSUME NEW s, NEW n \in Nat, n > 0, NEW f, Flattens(f, s, n + 1)
  PROVE  f[n + 1] = f[n] \o s[n + 1]
<1> DEFINE k == n + 1
<1>1. k \in 1..k /\ k # 1 /\ k - 1 = n /\ Flattens(f, s, k)
  OBVIOUS
<1> HIDE DEF k
<1>2. f[k] = f[k - 1] \o s[k]
  BY <1>1 DEF Flattens
<1>3. f[k] = f[n] \o s[k]
  BY <1>1, <1>2
<1> QED BY <1>3 DEF k

LEMMA FlattenedBy ==
  ASSUME NEW S, NEW Q, AreSeqs(Q, S), NEW s \in Seq(Q), Len(s) > 0
  PROVE  \E f \in [1..Len(s) -> Seq(S)] : Flattens(f, s, Len(s)) /\ FlattenSeq(s) = f[Len(s)]
<1> DEFINE F == CHOOSE f : f = [i \in 1..Len(s) |-> IF i = 1 THEN s[i] ELSE f[i - 1] \o s[i]]
<1>1. FlattenSeq(s) = F[Len(s)]
  BY DEF FlattenSeq
<1>2. PICK f \in [1..Len(s) -> Seq(S)] : Flattens(f, s, Len(s))
  BY FlattensExists
<1>3. f = [i \in 1..Len(s) |-> IF i = 1 THEN s[i] ELSE f[i - 1] \o s[i]]
  BY <1>2 DEF Flattens
<1>4. F = [i \in 1..Len(s) |-> IF i = 1 THEN s[i] ELSE F[i - 1] \o s[i]]
  BY <1>3
<1>5. Flattens(F, s, Len(s))
  <2> HIDE DEF F
  <2> QED BY <1>4 DEF Flattens
<1>6. F[Len(s)] = f[Len(s)]
  <2> HIDE DEF F
  <2>1. Len(s) \in Nat /\ Len(s) \in 1..Len(s)
    OBVIOUS
  <2> QED BY <1>2, <1>5, <2>1, FlattensUnique
<1> QED BY <1>1, <1>2, <1>6

LEMMA FlattenEmpty ==
  ASSUME NEW S, NEW s \in Seq(S), Len(s) = 0
  PROVE  FlattenSeq(s) = <<>>
BY DEF FlattenSeq

LEMMA FlattenType ==
  ASSUME NEW S, NEW Q, AreSeqs(Q, S), NEW s \in Seq(Q)
  PROVE  FlattenSeq(s) \in Seq(S)
<1>1. CASE Len(s) = 0
  BY <1>1, FlattenEmpty, EmptySeq
<1>2. CASE Len(s) > 0
  <2>1. PICK f \in [1..Len(s) -> Seq(S)] : FlattenSeq(s) = f[Len(s)]
    BY <1>2, FlattenedBy
  <2> QED BY <1>2, <2>1
<1> QED BY <1>1, <1>2

LEMMA FlattenAppend ==
  ASSUME NEW S, NEW Q, AreSeqs(Q, S), NEW s \in Seq(Q), NEW q \in Q
  PROVE  FlattenSeq(Append(s, q)) = FlattenSeq(s) \o q
<1> DEFINE n == Len(s)
           r == Append(s, q)
<1>1. n \in Nat /\ r \in Seq(Q) /\ Len(r) = n + 1 /\ r[n + 1] = q /\ \A i \in 1..n : r[i] = s[i]
  OBVIOUS
<1> HIDE DEF r
<1>2. PICK f \in [1..Len(r) -> Seq(S)] : Flattens(f, r, Len(r)) /\ FlattenSeq(r) = f[Len(r)]
  <2>1. Len(r) > 0
    BY <1>1
  <2> QED BY <1>1, <2>1, FlattenedBy
<1>3. CASE n = 0
  <2>1. f[1] = r[1]
    BY <1>1, <1>2, <1>3 DEF Flattens
  <2>2. FlattenSeq(s) = <<>>
    BY <1>3, FlattenEmpty
  <2> QED BY <1>1, <1>2, <1>3, <2>1, <2>2 DEF r
<1>4. CASE n > 0
  <2>1. PICK g \in [1..Len(s) -> Seq(S)] : Flattens(g, s, Len(s)) /\ FlattenSeq(s) = g[Len(s)]
    BY <1>4, FlattenedBy
  <2>2. Flattens(f, s, Len(s))
    <3> SUFFICES ASSUME NEW i \in 1..n
                 PROVE  f[i] = IF i = 1 THEN s[i] ELSE f[i - 1] \o s[i]
      BY DEF Flattens
    <3>1. i \in 1..Len(r) /\ r[i] = s[i]
      BY <1>1
    <3>2. f[i] = IF i = 1 THEN r[i] ELSE f[i - 1] \o r[i]
      BY <1>2, <3>1 DEF Flattens
    <3> QED BY <3>1, <3>2
  <2>3. n \in Nat /\ n \in 1..n
    BY <1>1, <1>4
  <2>4. f[n] = g[n]
    BY <2>1, <2>2, <2>3, FlattensUnique
  <2>5. f[n + 1] = f[n] \o r[n + 1]
    BY <1>1, <1>2, <1>4, FlattensLast
  <2> QED BY <1>1, <1>2, <2>1, <2>4, <2>5 DEF r
<1>5. n = 0 \/ n > 0
  BY <1>1
<1> QED BY <1>3, <1>4, <1>5

LEMMA FlattenOne ==
  ASSUME NEW S, NEW Q, AreSeqs(Q, S), NEW q \in Q
  PROVE  FlattenSeq(<<q>>) = q
<1>1. <<>> \in Seq(Q) /\ Append(<<>>, q) = <<q>> /\ Len(<<>>) = 0
  OBVIOUS
<1>2. FlattenSeq(<<q>>) = FlattenSeq(<<>>) \o q
  BY <1>1, FlattenAppend
<1>3. FlattenSeq(<<>>) = <<>>
  BY <1>1, FlattenEmpty
<1>4. q \in Seq(S)
  BY DEF AreSeqs
<1> QED BY <1>2, <1>3, <1>4, ConcatEmptySeq

LEMMA OneElement ==
  ASSUME NEW Q, NEW r \in Seq(Q), Len(r) = 1
  PROVE  /\ r = <<r[1]>> /\ r[1] \in Q /\ Head(r) = r[1]
         /\ Tail(r) \in Seq(Q) /\ Len(Tail(r)) = 0
<1>1. r[1] \in Q /\ Head(r) = r[1] /\ Tail(r) \in Seq(Q) /\ Len(Tail(r)) = 0
  OBVIOUS
<1>2. <<r[1]>> \in Seq(Q) /\ Len(<<r[1]>>) = 1 /\ <<r[1]>>[1] = r[1]
  BY <1>1
<1> QED BY <1>1, <1>2, SeqEqual

\* A longer sequence, without its last element.
LEMMA WithoutLast ==
  ASSUME NEW Q, NEW r \in Seq(Q), NEW m \in Nat, Len(r) = m + 1 + 1
  PROVE  \E p \in Seq(Q), q \in Q :
           /\ Len(p) = m + 1 /\ r = Append(p, q)
           /\ Head(r) = Head(p) /\ Tail(r) = Append(Tail(p), q)
           /\ Head(p) \in Q /\ Tail(p) \in Seq(Q)
<1>1. r # <<>>
  OBVIOUS
<1>2. PICK p \in Seq(Q), q \in Q : r = Append(p, q)
  BY <1>1, SequenceEmptyOrAppend
<1>3. Len(p) = m + 1
  BY <1>2
<1>4. p # <<>>
  BY <1>3
<1> QED BY <1>2, <1>3, <1>4, HeadTailAppend, HeadTailProperties

LEMMA Regroup ==
  ASSUME NEW S, NEW h \in Seq(S), NEW t \in Seq(S), NEW q \in Seq(S),
         NEW x, NEW y, NEW z, x = y \o q, y = h \o t, z = t \o q
  PROVE  x = h \o z
BY ConcatAssociative

Split(r) == FlattenSeq(r) = Head(r) \o FlattenSeq(Tail(r))

LEMMA SplitOne ==
  ASSUME NEW S, NEW Q, AreSeqs(Q, S), NEW r \in Seq(Q), Len(r) = 1
  PROVE  Split(r)
<1>1. r = <<r[1]>> /\ r[1] \in Q /\ Head(r) = r[1] /\ Tail(r) \in Seq(Q) /\ Len(Tail(r)) = 0
  BY OneElement
<1>2. FlattenSeq(r) = r[1]
  BY <1>1, FlattenOne
<1>3. FlattenSeq(Tail(r)) = <<>>
  BY <1>1, FlattenEmpty
<1>4. r[1] \o <<>> = r[1]
  BY <1>1, ConcatEmptySeq DEF AreSeqs
<1> QED BY <1>1, <1>2, <1>3, <1>4 DEF Split

LEMMA SplitMore ==
  ASSUME NEW S, NEW Q, AreSeqs(Q, S), NEW r \in Seq(Q), NEW m \in Nat, Len(r) = m + 1 + 1,
         \A p \in Seq(Q) : Len(p) = m + 1 => Split(p)
  PROVE  Split(r)
<1>1. PICK p \in Seq(Q), q \in Q :
           /\ Len(p) = m + 1 /\ r = Append(p, q)
           /\ Head(r) = Head(p) /\ Tail(r) = Append(Tail(p), q)
           /\ Head(p) \in Q /\ Tail(p) \in Seq(Q)
  BY WithoutLast
<1>2. FlattenSeq(p) = Head(p) \o FlattenSeq(Tail(p))
  BY <1>1 DEF Split
<1>3. FlattenSeq(r) = FlattenSeq(p) \o q
  BY <1>1, FlattenAppend
<1>4. FlattenSeq(Tail(r)) = FlattenSeq(Tail(p)) \o q
  BY <1>1, FlattenAppend
<1>5. FlattenSeq(Tail(p)) \in Seq(S)
  BY <1>1, FlattenType
<1>6. Head(p) \in Seq(S) /\ q \in Seq(S)
  BY <1>1 DEF AreSeqs
<1>7. FlattenSeq(r) = Head(p) \o FlattenSeq(Tail(r))
  <2> DEFINE t == FlattenSeq(Tail(p))
             h == Head(p)
             x == FlattenSeq(r)
             y == FlattenSeq(p)
             z == FlattenSeq(Tail(r))
  <2>1. x = y \o q /\ y = h \o t /\ z = t \o q /\ h \in Seq(S) /\ t \in Seq(S) /\ q \in Seq(S)
    BY <1>2, <1>3, <1>4, <1>5, <1>6
  <2> HIDE DEF t, h, x, y, z
  <2>2. x = h \o z
    BY <2>1, Regroup
  <2> QED BY <2>2, Zenon DEF x, h, z
<1> QED BY <1>1, <1>7 DEF Split

LEMMA FlattenHead ==
  ASSUME NEW S, NEW Q, AreSeqs(Q, S), NEW s \in Seq(Q), s # <<>>
  PROVE  FlattenSeq(s) = Head(s) \o FlattenSeq(Tail(s))
<1> DEFINE T == {m \in Nat : \A r \in Seq(Q) : Len(r) = m + 1 => Split(r)}
<1>1. 0 \in T
  BY SplitOne
<1>2. ASSUME NEW m \in T PROVE m + 1 \in T
  BY SplitMore
<1>3. T = Nat
  <2> HIDE DEF T
  <2>1. T \in SUBSET Nat
    BY DEF T
  <2> QED BY <1>1, <1>2, <2>1, AllNaturals
<1>4. Len(s) - 1 \in T /\ Len(s) = (Len(s) - 1) + 1
  <2> HIDE DEF T
  <2> QED BY <1>3
<1> QED BY <1>4 DEF Split

-----------------------------------------------------------------------------
(* The lines of a row of buffers. *)

HaveLines(B, S) == \A b \in B : b.lines \in Seq(S)

LinesOf(bufs) == [i \in DOMAIN bufs |-> bufs[i].lines]

LEMMA LinesOfSeq ==
  ASSUME NEW B, NEW S, HaveLines(B, S), NEW bufs \in Seq(B)
  PROVE  /\ AreSeqs({b.lines : b \in B}, S)
         /\ LinesOf(bufs) \in Seq({b.lines : b \in B})
         /\ Len(LinesOf(bufs)) = Len(bufs)
         /\ \A i \in 1..Len(bufs) : LinesOf(bufs)[i] = bufs[i].lines
<1>1. AreSeqs({b.lines : b \in B}, S)
  BY DEF AreSeqs, HaveLines
<1>2. DOMAIN bufs = 1..Len(bufs) /\ Len(bufs) \in Nat /\ \A i \in 1..Len(bufs) : bufs[i] \in B
  OBVIOUS
<1> QED BY <1>1, <1>2 DEF LinesOf

LEMMA FlatEmpty == Flat(<<>>) = <<>>
<1>1. [i \in DOMAIN <<>> |-> <<>>[i].lines] = <<>>
  OBVIOUS
<1>2. FlattenSeq(<<>>) = <<>>
  BY EmptySeq DEF FlattenSeq
<1> QED BY <1>1, <1>2 DEF Flat

LEMMA FlatType ==
  ASSUME NEW B, NEW S, HaveLines(B, S), NEW bufs \in Seq(B)
  PROVE  Flat(bufs) \in Seq(S)
<1> DEFINE Q == {b.lines : b \in B}
<1>1. AreSeqs(Q, S) /\ LinesOf(bufs) \in Seq(Q)
  BY LinesOfSeq
<1> HIDE DEF Q
<1>2. FlattenSeq(LinesOf(bufs)) \in Seq(S)
  BY <1>1, FlattenType
<1> QED BY <1>2 DEF Flat, LinesOf

LEMMA FlatAppend ==
  ASSUME NEW B, NEW S, HaveLines(B, S), NEW bufs \in Seq(B), NEW b \in B
  PROVE  Flat(Append(bufs, b)) = Flat(bufs) \o b.lines
<1> DEFINE Q == {c.lines : c \in B}
           more == Append(bufs, b)
<1>1. AreSeqs(Q, S) /\ LinesOf(bufs) \in Seq(Q) /\ b.lines \in Q
  BY LinesOfSeq
<1>2. /\ more \in Seq(B) /\ Len(more) = Len(bufs) + 1
      /\ \A i \in 1..Len(bufs) : more[i] = bufs[i]
      /\ more[Len(bufs) + 1] = b
  BY AppendProperties
<1>3. /\ LinesOf(more) \in Seq(Q) /\ Len(LinesOf(more)) = Len(more)
      /\ \A i \in 1..Len(more) : LinesOf(more)[i] = more[i].lines
      /\ Len(LinesOf(bufs)) = Len(bufs)
      /\ \A i \in 1..Len(bufs) : LinesOf(bufs)[i] = bufs[i].lines
  BY <1>2, LinesOfSeq
<1> HIDE DEF Q, more
<1>4. LinesOf(more) = Append(LinesOf(bufs), b.lines)
  <2> DEFINE l == LinesOf(bufs)
             r == Append(l, b.lines)
  <2>1. /\ r \in Seq(Q) /\ Len(r) = Len(l) + 1 /\ r[Len(l) + 1] = b.lines
        /\ \A i \in 1..Len(l) : r[i] = l[i]
    BY <1>1, AppendProperties
  <2> HIDE DEF l, r
  <2>2. Len(bufs) \in Nat
    OBVIOUS
  <2>3. Len(r) = Len(LinesOf(more))
    BY <1>2, <1>3, <2>1 DEF l
  <2>4. ASSUME NEW i \in 1..Len(r) PROVE r[i] = LinesOf(more)[i]
    <3>1. CASE i = Len(bufs) + 1
      <4>1. more[i] = b
        BY <1>2, <3>1
      <4>2. i \in 1..Len(more)
        BY <1>2, <2>3, <1>3
      <4>3. i = Len(l) + 1
        BY <1>3, <3>1 DEF l
      <4> QED BY <1>3, <2>1, <4>1, <4>2, <4>3
    <3>2. CASE i # Len(bufs) + 1
      <4>1. i \in 1..Len(bufs) /\ i \in 1..Len(more)
        BY <1>2, <1>3, <2>2, <2>3, <3>2
      <4>2. r[i] = bufs[i].lines
        BY <1>3, <2>1, <4>1 DEF l
      <4> QED BY <1>2, <1>3, <4>1, <4>2
    <3> QED BY <3>1, <3>2
  <2>5. LinesOf(more) = r
    BY <1>3, <2>1, <2>3, <2>4, SeqEqual
  <2> QED BY <2>5 DEF r, l
<1>5. FlattenSeq(LinesOf(more)) = FlattenSeq(LinesOf(bufs)) \o b.lines
  BY <1>1, <1>4, FlattenAppend
<1> QED BY <1>5 DEF Flat, LinesOf, more

LEMMA FlatHead ==
  ASSUME NEW B, NEW S, HaveLines(B, S), NEW bufs \in Seq(B), bufs # <<>>
  PROVE  Flat(bufs) = Head(bufs).lines \o Flat(Tail(bufs))
<1> DEFINE Q == {c.lines : c \in B}
           l == LinesOf(bufs)
           less == Tail(bufs)
<1>1. /\ AreSeqs(Q, S) /\ l \in Seq(Q) /\ Len(l) = Len(bufs)
      /\ \A i \in 1..Len(bufs) : l[i] = bufs[i].lines
  BY LinesOfSeq
<1>2. /\ less \in Seq(B) /\ Len(less) = Len(bufs) - 1 /\ Len(bufs) \in Nat \ {0}
      /\ \A i \in 1..Len(less) : less[i] = bufs[i + 1]
      /\ Head(bufs) = bufs[1]
  BY HeadTailProperties, EmptySeq
<1>3. /\ LinesOf(less) \in Seq(Q) /\ Len(LinesOf(less)) = Len(less)
      /\ \A i \in 1..Len(less) : LinesOf(less)[i] = less[i].lines
  BY <1>2, LinesOfSeq
<1> HIDE DEF Q, l, less
<1>4. l # <<>> /\ Head(l) = Head(bufs).lines
  BY <1>1, <1>2
<1>5. /\ Tail(l) \in Seq(Q) /\ Len(Tail(l)) = Len(l) - 1
      /\ \A i \in 1..Len(Tail(l)) : Tail(l)[i] = l[i + 1]
  BY <1>1, <1>4, HeadTailProperties
<1>6. Tail(l) = LinesOf(less)
  <2>1. Len(Tail(l)) = Len(LinesOf(less))
    BY <1>1, <1>2, <1>3, <1>5
  <2>2. ASSUME NEW i \in 1..Len(Tail(l)) PROVE Tail(l)[i] = LinesOf(less)[i]
    <3>1. i \in 1..Len(less) /\ i + 1 \in 1..Len(bufs)
      BY <1>1, <1>2, <1>5
    <3> QED BY <1>1, <1>2, <1>3, <1>5, <3>1
  <2> QED BY <1>3, <1>5, <2>1, <2>2, SeqEqual
<1>7. FlattenSeq(l) = Head(l) \o FlattenSeq(Tail(l))
  BY <1>1, <1>4, FlattenHead
<1> QED BY <1>4, <1>6, <1>7 DEF Flat, LinesOf, l, less

-----------------------------------------------------------------------------
(* What dealThread has read when it ends. *)

\* The lines logged after stop has lowered m_bRunning: it does not wait for them.
Late == {line \in LogLine : line.no > promised}
LateBuf == {b \in RealBuf : b.lines \in Seq(Late)}

\* Once dealThread has found m_bRunning lowered, what it has seen empty stays empty
\* of the lines it has to write; and a synchronous line is in the buffer for one
\* call only.
Drained ==
  /\ promised \in Nat /\ promised <= logged
  /\ life = "none" => ~m_bAsynLog
  /\ deal \in {"testBuf", "testQueue", "exit"} => ~m_bRunning /\ life \in {"join", "close"}
  /\ deal \notin {"next", "write", "check"} => m_queBufsDeal = <<>>
  /\ deal \in {"testQueue", "exit"} => m_pBufWrite.lines \in Seq(Late)
  /\ deal = "exit" => m_queBufsWrite \in Seq(LateBuf)
  /\ ~m_bAsynLog => /\ m_queBufsWrite = <<>>
                    /\ m_pBufWrite.lines # <<>> => \E t \in Threads : writer[t] = "write"

\* The lines of a run: one of the owner at the start, one at the end, and those of
\* the writers.
LineCount ==
  /\ runs \in 0..MaxRuns
  /\ logged <= MaxLines + 2 * runs
  /\ life # "none" => runs > 0
  /\ life \in {"start", "run"} \/ (life = "stop" /\ writer[owner] \notin {"write", "check"}) =>
       logged < MaxLines + 2 * runs
  /\ life = "start" /\ writer[owner] \notin {"write", "check"} =>
       logged + 1 < MaxLines + 2 * runs
  /\ \A t \in Writers : writer[t] \in {"take", "put"} =>
       life # "start" /\ logged + 1 < MaxLines + 2 * runs

\* With or without gaps: a file is renamed to a name that is free, and if there are
\* numbered files from 1 on there is none with number 0.
NameFree ==
  /\ rot = "shift" => nLogNumIndex + 1 \notin DOMAIN files
  /\ m_fileNum > 0 => 0 \notin DOMAIN files

LEMMA DrainedInit == Init => Drained
<1> SUFFICES ASSUME Init PROVE Drained
  OBVIOUS
<1>1. m_pBufWrite.lines = <<>>
  BY DEF Init, Null
<1> QED BY <1>1 DEF Init, Drained

\* Where the write buffer is a real one.
LEMMA WriteBufReal ==
  ASSUME Placed, (Free /\ life # "none") \/ \E t \in Threads : writer[t] \notin {"idle", "take"}
  PROVE  m_pBufWrite \in RealBuf /\ life # "none"
BY DEF Placed, BuffersPlaced, MutexHeld, Free

LEMMA DrainedLog ==
  ASSUME Placed, Drained, NEW t \in Threads, PushWrite(t) \/ TakeEmpty(t) \/ Put(t)
  PROVE  Drained'
<1> USE DEF Placed
<1>1. /\ UNCHANGED <<m_bAsynLog, m_bRunning, promised, deal, m_queBufsDeal>>
      /\ logged \in Nat /\ logged' \in {logged, logged + 1}
  BY DEF PushWrite, TakeEmpty, Put, LogDone, ownerVars, dealBufVars, BuffersPlaced
<1>2. Late' = Late /\ LateBuf' = LateBuf
  BY <1>1 DEF Late, LateBuf
<1>3. life' = life \/ life \in {"start", "stop"}
  BY LogDoneKeeps DEF PushWrite, TakeEmpty, Put, ownerVars, Placed
<1>4. <<>> \in Seq(Late)
  BY EmptySeq
<1>5. CASE PushWrite(t)
  <2> USE <1>5 DEF PushWrite
  <2>1. m_bAsynLog /\ life # "none"
    BY DEF Full, MayLog
  <2>2. m_pBufWrite \in RealBuf
    BY <2>1, WriteBufReal
  <2>3. m_pBufWrite'.lines \in Seq(Late)
    BY <1>4 DEF Null
  <2>4. deal = "exit" => m_queBufsWrite' \in Seq(LateBuf)
    BY <2>2, AppendProperties DEF Drained, LateBuf
  <2>5. life' = life
    BY DEF ownerVars
  <2> QED BY <1>1, <1>2, <2>1, <2>3, <2>4, <2>5 DEF Drained
<1>6. CASE TakeEmpty(t)
  <2> USE <1>6 DEF TakeEmpty
  <2>1. m_pBufWrite' = Empty /\ life' = life
    BY TakeReal DEF BuffersPlaced, ownerVars
  <2>2. m_pBufWrite'.lines = <<>>
    BY <2>1 DEF Empty
  <2> QED BY <1>1, <1>2, <1>4, <2>1, <2>2 DEF Drained
<1>7. CASE Put(t)
  <2>0. PICK trails \in BOOLEAN :
          /\ WholeLine(logged + 1, trails) \in LogLine
          /\ m_pBufWrite'.lines = Append(m_pBufWrite.lines, WholeLine(logged + 1, trails))
    BY <1>1, <1>7, PutLine
  <2> USE <1>7 DEF Put
  <2>1. m_pBufWrite \in RealBuf /\ life # "none"
    BY WriteBufReal DEF MayLog
  <2>2. m_pBufWrite.lines \in Seq(Late) => m_pBufWrite'.lines \in Seq(Late)
    <3>2. WholeLine(logged + 1, trails).no = logged + 1
      BY DEF WholeLine
    <3>3. WholeLine(logged + 1, trails) \in Late
      BY <1>1, <2>0, <3>2 DEF Drained, Late
    <3> QED BY <2>0, <3>3, AppendProperties
  <2>3. ~m_bAsynLog => writer'[t] = "write"
    BY DEF Goto, MutexHeld
  <2>4. m_bAsynLog => writer' = [writer EXCEPT ![t] = "idle"]
    BY DEF LogDone, Goto
  <2>5. life' # "none"
    BY <2>1, LogDoneKeeps DEF ownerVars, Placed
  <2> QED BY <1>1, <1>2, <1>3, <2>1, <2>2, <2>3, <2>5 DEF Drained
<1> QED BY <1>5, <1>6, <1>7

LEMMA DrainedWriteLine ==
  ASSUME Placed, Drained, NEW t \in Threads, WriteLine(t) \/ LineWritten(t)
  PROVE  Drained'
<1> USE DEF Placed
<1>1. /\ ~m_bAsynLog /\ deal = "none"
      /\ UNCHANGED <<m_bAsynLog, m_bRunning, promised, deal, m_queBufsDeal, m_queBufsWrite, logged>>
  BY DEF WriteLine, LineWritten, LogDone, ownerVars, bufVars, dealBufVars, MutexHeld, ThreadLives
<1>2. CASE WriteLine(t)
  BY <1>1, <1>2 DEF WriteLine, Empty, Drained, ownerVars
<1>3. CASE LineWritten(t)
  <2>1. m_pBufWrite' = m_pBufWrite
    BY <1>3 DEF LineWritten, bufVars
  <2>2. m_pBufWrite.lines = <<>>
    <3>1. \A u \in Threads : writer[u] # "write"
      BY <1>3 DEF LineWritten, MutexHeld
    <3> QED BY <1>1, <3>1 DEF Drained
  <2> QED BY <1>1, <2>1, <2>2 DEF Drained
<1> QED BY <1>2, <1>3

LEMMA DrainedDeal ==
  ASSUME Placed, Drained, dealThread
  PROVE  Drained'
<1> USE DEF Placed, Deal
<1>1. /\ life # "none" /\ m_bAsynLog
      /\ UNCHANGED <<ownerVars, logged>>
  BY DEF dealThread, TestRunning, TestBuf, TestQueue, Wait, WakeUp, Look, LookQueue, DealOnly,
     Swap, NextBuf, WriteBuf, Recycle, ThreadLives
<1>2. Late' = Late /\ LateBuf' = LateBuf
  BY <1>1 DEF Late, LateBuf, ownerVars
<1> USE DEF ownerVars
<1>3. CASE TestRunning
  <2>1. ~m_bRunning => life \in {"join", "close"}
    BY <1>1 DEF ThreadLives
  <2> QED BY <1>1, <1>2, <1>3, <2>1 DEF TestRunning, DealOnly, Drained, bufVars, dealBufVars
<1>4. CASE TestBuf
  <2>1. m_pBufWrite \in RealBuf
    BY <1>1, <1>4 DEF TestBuf, BuffersPlaced
  <2>2. m_pBufWrite.pos > 0 \/ m_pBufWrite.lines = <<>>
    BY <2>1 DEF RealBuf
  <2>3. <<>> \in Seq(Late)
    BY EmptySeq
  <2>4. deal' = "wait" \/ (deal' = "testQueue" /\ m_pBufWrite.lines \in Seq(Late))
    BY <1>4, <2>2, <2>3 DEF TestBuf
  <2>5. deal = "testBuf" /\ UNCHANGED <<bufVars, dealBufVars>>
    BY <1>4 DEF TestBuf, DealOnly
  <2> QED BY <1>1, <1>2, <2>4, <2>5 DEF Drained, bufVars, dealBufVars
<1>5. CASE TestQueue
  <2>1. <<>> \in Seq(LateBuf)
    BY EmptySeq
  <2>2. deal' = "wait" \/ (deal' = "exit" /\ m_queBufsWrite \in Seq(LateBuf))
    BY <1>5, <2>1 DEF TestQueue
  <2>3. deal = "testQueue" /\ UNCHANGED <<bufVars, dealBufVars>>
    BY <1>5 DEF TestQueue, DealOnly
  <2> QED BY <1>1, <1>2, <2>2, <2>3 DEF Drained, bufVars, dealBufVars
<1>6. CASE Wait \/ WakeUp \/ Look \/ LookQueue
  BY <1>1, <1>2, <1>6 DEF Wait, WakeUp, Look, LookQueue, DealOnly, Drained, bufVars, dealBufVars
<1>7. CASE Swap \/ NextBuf \/ WriteBuf \/ Recycle
  BY <1>1, <1>2, <1>7 DEF Swap, NextBuf, WriteBuf, Recycle, Drained, bufVars, dealBufVars
<1> QED BY <1>3, <1>4, <1>5, <1>6, <1>7 DEF dealThread

LEMMA DrainedOwner ==
  ASSUME Placed, Drained, Start \/ Stop \/ Lower \/ Join \/ FileStep \/ UNCHANGED vars
  PROVE  Drained'
<1> USE DEF Placed
<1>1. CASE Start
  BY <1>1 DEF Start, Drained, dealBufVars, ThreadLives, Empty
<1>2. CASE Stop
  <2>1. deal \notin {"testBuf", "testQueue", "exit"} /\ logged \in Nat
    BY <1>2 DEF Stop, Drained, BuffersPlaced
  <2> QED BY <1>2, <2>1 DEF Stop, Drained, bufVars, dealBufVars
<1>3. CASE Lower
  <2>1. deal \notin {"testBuf", "testQueue", "exit"} /\ logged \in Nat
    BY <1>3 DEF Lower, Drained, BuffersPlaced
  <2> QED BY <1>3, <2>1 DEF Lower, Drained, bufVars, dealBufVars
<1>4. CASE Join \/ FileStep \/ UNCHANGED vars
  <2>1. /\ UNCHANGED <<m_bAsynLog, m_bRunning, promised, deal, writer, bufVars, dealBufVars,
                       logged>>
        /\ life' = life \/ life' = "close"
    BY <1>4 DEF Join, FileStep, vars, ownerVars
  <2>2. Late' = Late /\ LateBuf' = LateBuf
    BY <2>1 DEF Late, LateBuf
  <2> QED BY <2>1, <2>2 DEF Drained, bufVars, dealBufVars
<1> QED BY <1>1, <1>2, <1>3, <1>4

LEMMA DrainedStep ==
  ASSUME Placed, Drained, [Next]_vars
  PROVE  Drained'
<1>1. CASE \E t \in Threads : logWrite(t)
  BY <1>1, DrainedLog, DrainedWriteLine DEF logWrite
<1>2. CASE dealThread
  BY <1>2, DrainedDeal
<1>3. CASE Start \/ Stop \/ Lower \/ Join \/ FileStep \/ UNCHANGED vars
  BY <1>3, DrainedOwner
<1>4. CASE Close \/ Die
  <2>1. m_pBufWrite'.lines = <<>> /\ logged \in Nat
    BY <1>4 DEF Close, Die, Gone, Null, Placed, BuffersPlaced
  <2> QED BY <1>4, <2>1 DEF Close, Die, Gone, Drained
<1> QED BY <1>1, <1>2, <1>3, <1>4 DEF Next

LEMMA NoLinesIn == Null.lines = <<>> /\ Empty.lines = <<>>
BY DEF Null, Empty

LEMMA StopHolds == Placed /\ Drained => StopKeepsLines
<1> SUFFICES ASSUME Placed, Drained, life = "close", Free
             PROVE  \A line \in Range(Pending) : line.no > promised
  BY DEF StopKeepsLines
<1>1. <<>> \in Seq(Late)
  BY EmptySeq
<1>2. m_pBufDeal.lines \in Seq(Late) /\ m_queBufsDeal = <<>> /\ m_pBufWrite.lines \in Seq(Late)
      /\ m_queBufsWrite \in Seq(LateBuf)
  <2>1. CASE m_bAsynLog
    <3>1. deal = "exit"
      BY <2>1 DEF Placed, ThreadLives
    <3> QED BY <1>1, <3>1, NoLinesIn DEF Drained, Placed, BuffersPlaced
  <2>2. CASE ~m_bAsynLog
    <3>1. deal = "none"
      BY <2>2 DEF Placed, ThreadLives
    <3>2. m_pBufWrite.lines = <<>>
      BY <2>2 DEF Drained, Free
    <3>3. <<>> \in Seq(LateBuf)
      BY EmptySeq
    <3> QED BY <1>1, <2>2, <3>1, <3>2, <3>3, NoLinesIn DEF Drained, Placed, BuffersPlaced
  <2> QED BY <2>1, <2>2 DEF Placed, ThreadLives
<1>3. HaveLines(LateBuf, Late)
  BY DEF HaveLines, LateBuf
<1>4. Flat(m_queBufsDeal) \in Seq(Late) /\ Flat(m_queBufsWrite) \in Seq(Late)
  BY <1>1, <1>2, <1>3, FlatEmpty, FlatType
<1>5. Pending \in Seq(Late)
  <2> DEFINE a == m_pBufDeal.lines
             b == Flat(m_queBufsDeal)
             c == Flat(m_queBufsWrite)
             d == m_pBufWrite.lines
  <2>1. a \in Seq(Late) /\ b \in Seq(Late) /\ c \in Seq(Late) /\ d \in Seq(Late)
    BY <1>2, <1>4
  <2> HIDE DEF a, b, c, d
  <2>2. a \o b \o c \o d \in Seq(Late)
    BY <2>1, ConcatProperties
  <2> QED BY <2>2 DEF Pending, a, b, c, d
<1> QED BY <1>5, RangeOfSeq DEF Late

\* Whatever a thread logged before stop lowers m_bRunning is in the file when stop
\* closes it (stop, lines 369-386; dealThread, lines 387-421).
THEOREM StopKeepsLinesCorrect == Spec => []StopKeepsLines
<1>1. Init => Placed /\ Drained
  BY PlacedInit, DrainedInit
<1>2. Placed /\ Drained /\ [Next]_vars => Placed' /\ Drained'
  BY PlacedStep, DrainedStep
<1> QED BY <1>1, <1>2, StopHolds, PTL DEF Spec

-----------------------------------------------------------------------------
LEMMA LineCountInit == Init => LineCount
BY LoggerAssumption DEF Init, LineCount, Threads

LEMMA LineCountLog ==
  ASSUME Placed, LineCount, NEW t \in Threads, logWrite(t)
  PROVE  LineCount'
<1> USE DEF Placed
<1>1. MaxLines \in Nat /\ MaxRuns \in Nat /\ logged \in Nat /\ runs \in Nat
  BY LoggerAssumption DEF BuffersPlaced, LineCount
<1>2. CASE PushWrite(t) \/ TakeEmpty(t) \/ WriteLine(t)
  <2>1. UNCHANGED <<runs, logged, life>>
    BY <1>2 DEF PushWrite, TakeEmpty, WriteLine, ownerVars
  <2>2. writer[owner] \in {"write", "check"} => writer'[owner] \in {"write", "check"}
    BY <1>2 DEF PushWrite, TakeEmpty, WriteLine, Goto, MutexHeld, Free, Threads
  <2>3. ASSUME NEW u \in Writers, writer'[u] \in {"take", "put"}
        PROVE  life # "start" /\ logged + 1 < MaxLines + 2 * runs
    <3>1. u \in Threads /\ u # owner
      BY LoggerAssumption DEF Threads
    <3>2. CASE writer[u] \in {"take", "put"}
      BY <3>2 DEF LineCount
    <3>3. CASE writer[u] \notin {"take", "put"}
      <4>1. u = t /\ PushWrite(t)
        BY <1>2, <2>3, <3>1, <3>3 DEF PushWrite, TakeEmpty, WriteLine, Goto, MutexHeld
      <4> QED BY <1>1, <3>1, <4>1 DEF PushWrite, MayLog
    <3> QED BY <3>2, <3>3
  <2> QED BY <1>1, <2>1, <2>2, <2>3 DEF LineCount
<1>3. CASE LineWritten(t)
  <2>1. UNCHANGED <<runs, logged>> /\ life # "none"
    BY <1>3, LogDoneKeeps DEF LineWritten, Placed
  <2>2. life' = IF t # owner THEN life ELSE IF life = "start" THEN "run" ELSE "lower"
    BY <1>3 DEF LineWritten, LogDone
  <2>3. \A u \in Writers : writer'[u] = "idle"
    BY <1>3, LogDoneKeeps DEF LineWritten, Placed, Threads
  <2>4. CASE t = owner
    <3>1. life \in {"start", "stop"} /\ writer[owner] = "check"
      BY <1>3, <2>4 DEF LineWritten, MutexHeld
    <3> QED BY <1>1, <2>1, <2>2, <2>3, <2>4, <3>1 DEF LineCount
  <2>5. CASE t # owner
    <3>1. writer'[owner] = writer[owner]
      BY <1>3, <2>5 DEF LineWritten, LogDone, Goto, MutexHeld, Threads
    <3> QED BY <1>1, <2>1, <2>2, <2>3, <2>5, <3>1 DEF LineCount
  <2> QED BY <2>4, <2>5
<1>4. CASE Put(t)
  <2> USE <1>4 DEF Put
  <2>1. logged' = logged + 1 /\ runs' = runs
    BY DEF LogDone, ownerVars
  <2>2. life # "none" /\ (t = owner => life \in {"start", "stop"})
    BY DEF MutexHeld, Free, MayLog
  <2>3. t = owner => writer[owner] \notin {"write", "check"}
    BY DEF Free
  <2>4. t # owner => /\ writer[owner] = "idle" /\ writer'[owner] = "idle"
                     /\ life' = life
    BY DEF MutexHeld, Free, Goto, LogDone, ownerVars, Threads
  <2>5. \A u \in Writers : writer'[u] \notin {"take", "put"}
    BY DEF MutexHeld, Free, Goto, LogDone, Threads
  <2>6. CASE t = owner
    <3>1. logged + 1 < MaxLines + 2 * runs \/ (life = "stop" /\ logged < MaxLines + 2 * runs)
      BY <1>1, <2>2, <2>3, <2>6 DEF LineCount
    <3>2. CASE m_bAsynLog
      <4>1. life' = IF life = "start" THEN "run" ELSE "lower"
        BY <2>6, <3>2 DEF LogDone
      <4> QED BY <1>1, <2>1, <2>2, <2>5, <3>1, <4>1 DEF LineCount
    <3>3. CASE ~m_bAsynLog
      <4>1. life' = life /\ writer'[owner] = "write"
        BY <2>6, <3>3 DEF Goto, MutexHeld, Threads, ownerVars
      <4> QED BY <1>1, <2>1, <2>2, <2>5, <3>1, <4>1 DEF LineCount
    <3> QED BY <3>2, <3>3
  <2>7. CASE t # owner
    <3>1. life \notin {"none", "start"} /\ logged + 1 < MaxLines + 2 * runs
      <4>1. CASE writer[t] = "put"
        BY <2>2, <2>7, <4>1 DEF LineCount, Threads
      <4>2. CASE MayLog(t)
        BY <1>1, <2>7, <4>2 DEF MayLog
      <4> QED BY <4>1, <4>2
    <3> QED BY <1>1, <2>1, <2>4, <2>5, <2>7, <3>1 DEF LineCount
  <2> QED BY <2>6, <2>7
<1> QED BY <1>2, <1>3, <1>4, <1>2 DEF logWrite

LEMMA LineCountStep ==
  ASSUME Placed, LineCount, [Next]_vars
  PROVE  LineCount'
<1>1. MaxLines \in Nat /\ MaxRuns \in Nat /\ logged \in Nat /\ runs \in Nat
  BY LoggerAssumption DEF Placed, BuffersPlaced, LineCount
<1>2. CASE \E t \in Threads : logWrite(t)
  BY <1>2, LineCountLog
<1>3. CASE dealThread \/ FileStep \/ UNCHANGED vars
  <2>1. UNCHANGED <<runs, logged, life, writer>>
    BY <1>3 DEF dealThread, TestRunning, TestBuf, TestQueue, Wait, WakeUp, Look, LookQueue,
       DealOnly, Swap, NextBuf, WriteBuf, Recycle, FileStep, vars, ownerVars
  <2> QED BY <2>1 DEF LineCount
<1>4. CASE Start
  <2>1. /\ runs' = runs + 1 /\ runs < MaxRuns /\ logged' = logged
        /\ \A u \in Writers : writer'[u] = "idle"
    BY <1>4 DEF Start, Placed, MutexHeld, Free, Threads
  <2> QED BY <1>1, <2>1 DEF LineCount
<1>5. CASE Stop
  <2>1. UNCHANGED <<runs, logged, writer>> /\ life = "run" /\ life' \in {"stop", "close"}
    BY <1>5 DEF Stop
  <2> QED BY <1>1, <2>1 DEF LineCount
<1>6. CASE Lower \/ Join
  <2>1. UNCHANGED <<runs, logged, writer>> /\ life # "none" /\ life' \in {"join", "close"}
    BY <1>6 DEF Lower, Join
  <2> QED BY <1>1, <2>1 DEF LineCount
<1>7. CASE Close \/ Die
  <2>1. /\ UNCHANGED <<runs, logged>> /\ life' = "none"
        /\ \A u \in Writers : writer'[u] = "idle"
    BY <1>7 DEF Close, Die, Gone, Threads
  <2> QED BY <1>1, <2>1 DEF LineCount
<1> QED BY <1>2, <1>3, <1>4, <1>5, <1>6, <1>7 DEF Next

LEMMA NameFreeInit == Init => NameFree
BY DEF Init, FilesInit, NameFree

LEMMA NameFreeFileStep ==
  ASSUME FilesTyped, NameFree, FileStep
  PROVE  NameFree'
<1>1. m_fileNum \in Nat /\ UNCHANGED settings
  BY SettingsNat DEF FilesTyped, FileStep, fileSizeCheck, SizeFine, CloseFull, RemoveOldest,
     Shift, RenameCurrent, Reopen
<1>2. CASE SizeFine \/ CloseFull
  BY <1>2 DEF SizeFine, CloseFull, NameFree, settings
<1>3. CASE RemoveOldest
  BY <1>1, <1>3 DEF RemoveOldest, RemoveFile, NameFree, settings
<1>4. CASE Shift
  <2>1. nLogNumIndex \in 1..(m_fileNum - 1)
    BY <1>1, <1>4 DEF Shift, FilesTyped, FilesTypeOK
  <2>2. DOMAIN files' = IF nLogNumIndex \in DOMAIN files
                        THEN (DOMAIN files \ {nLogNumIndex}) \cup {nLogNumIndex + 1}
                        ELSE DOMAIN files
    BY <1>4 DEF Shift, RenameFile
  <2>3. nLogNumIndex' + 1 = nLogNumIndex
    BY <1>4, <2>1 DEF Shift
  <2> QED BY <1>1, <2>1, <2>2, <2>3 DEF NameFree, settings
<1>5. CASE RenameCurrent
  <2>1. rot' = "open"
    BY <1>5 DEF RenameCurrent
  <2>2. m_fileNum > 0 => DOMAIN files' \subseteq DOMAIN files \cup {1}
    BY <1>5 DEF RenameCurrent, RenameFile
  <2> QED BY <1>1, <2>1, <2>2 DEF NameFree, settings
<1>6. CASE Reopen
  <2>1. rot' = "none" /\ DOMAIN files' = DOMAIN files \cup {Current} /\ Current # 0
    BY <1>6 DEF Reopen, WithCurrent, Current
  <2> QED BY <1>1, <2>1 DEF NameFree, settings
<1> QED BY <1>2, <1>3, <1>4, <1>5, <1>6 DEF FileStep, fileSizeCheck

LEMMA NameFreeStep ==
  ASSUME Placed, FilesTyped, NameFree, [Next]_vars
  PROVE  NameFree'
<1>1. CASE FileStep
  BY <1>1, NameFreeFileStep
<1>2. CASE Start
  <2>1. DOMAIN files' = DOMAIN files \cup {Current} /\ Current # 0 /\ rot = "none"
    BY <1>2 DEF Start, WithCurrent, Current, Placed, RotationOwned, ThreadLives, MutexHeld, Free
  <2> QED BY <1>2, <2>1 DEF Start, NameFree, settings
<1>3. CASE Die
  <2>1. DOMAIN files' = DOMAIN files /\ rot' = "none" /\ UNCHANGED settings
    BY <1>3 DEF Die, Gone, Written
  <2> QED BY <2>1 DEF NameFree, settings
<1>4. CASE \E t \in Threads : WriteLine(t)
  <2>1. DOMAIN files' = DOMAIN files /\ rot' = "check" /\ UNCHANGED settings
    BY <1>4 DEF WriteLine, Written
  <2> QED BY <2>1 DEF NameFree, settings
<1>5. CASE WriteBuf
  <2>1. DOMAIN files' = DOMAIN files /\ rot' = "check" /\ UNCHANGED settings
    BY <1>5 DEF WriteBuf, Written
  <2> QED BY <2>1 DEF NameFree, settings
<1>6. CASE \/ \E t \in Threads : PushWrite(t) \/ TakeEmpty(t) \/ Put(t) \/ LineWritten(t)
           \/ Looking \/ Swap \/ NextBuf \/ Recycle
           \/ Stop \/ Lower \/ Join \/ Close \/ UNCHANGED vars
  <2>1. UNCHANGED <<settings, files>>
    BY <1>6 DEF PushWrite, TakeEmpty, Put, LineWritten, Looking, TestRunning,
         TestBuf, TestQueue, Wait, WakeUp, Look, LookQueue, DealOnly, Swap, NextBuf,
         Recycle, Stop, Lower, Join, Close, Gone, vars, fileVars
  <2>2. UNCHANGED <<rot, nLogNumIndex>> \/ rot' = "none"
    BY <1>6 DEF PushWrite, TakeEmpty, Put, LineWritten, Looking, TestRunning,
         TestBuf, TestQueue, Wait, WakeUp, Look, LookQueue, DealOnly, Swap, NextBuf,
         Recycle, Stop, Lower, Join, Close, Gone, vars, fileVars
  <2> QED BY <2>1, <2>2 DEF NameFree, settings
<1> QED BY <1>1, <1>2, <1>3, <1>4, <1>5, <1>6
        DEF Next, logWrite, dealThread, Looking

-----------------------------------------------------------------------------
(* The lines on the disk: Disk, file by file. *)

\* f[n] is what the files from number n on hold, in the order of Disk, if c[k] is the
\* content of file k.
Stacks(f, c, n) == \A k \in -1..n : f[k] = IF k = -1 THEN c[k] ELSE c[k] \o f[k - 1]

LEMMA StackNext ==
  ASSUME NEW n \in Int, NEW f, NEW c, Stacks(f, c, n), NEW k \in 0..n
  PROVE  f[k] = c[k] \o f[k - 1]
<1>1. k \in -1..n /\ k # -1
  OBVIOUS
<1> QED BY <1>1 DEF Stacks

LEMMA StackExists ==
  ASSUME NEW n \in Nat, NEW c \in [-1..n -> Seq(LogLine)]
  PROVE  \E f \in [-1..n -> Seq(LogLine)] : Stacks(f, c, n)
<1> DEFINE Has(m) == \E f \in [-1..m -> Seq(LogLine)] : Stacks(f, c, m)
           T == {m \in Nat : m <= n + 1 => Has(m - 1)}
<1>1. 0 \in T
  <2> DEFINE f == [k \in -1..-1 |-> c[k]]
  <2>1. f \in [-1..-1 -> Seq(LogLine)] /\ Stacks(f, c, -1)
    BY DEF Stacks
  <2>2. Has(-1)
    BY <2>1
  <2>3. 0 - 1 = -1
    OBVIOUS
  <2> QED BY <2>2, <2>3
<1>2. ASSUME NEW m \in T PROVE m + 1 \in T
  <2> SUFFICES ASSUME m <= n PROVE Has(m)
    OBVIOUS
  <2>1. PICK f \in [-1..(m - 1) -> Seq(LogLine)] : Stacks(f, c, m - 1)
    OBVIOUS
  <2> DEFINE g == [k \in -1..m |-> IF k = m THEN c[m] \o f[m - 1] ELSE f[k]]
  <2>2. c[m] \o f[m - 1] \in Seq(LogLine)
    <3>1. c[m] \in Seq(LogLine) /\ f[m - 1] \in Seq(LogLine)
      OBVIOUS
    <3> QED BY <3>1, ConcatProperties
  <2>3. g \in [-1..m -> Seq(LogLine)]
    BY <2>2
  <2>4. Stacks(g, c, m)
    <3> SUFFICES ASSUME NEW k \in -1..m
                 PROVE  g[k] = IF k = -1 THEN c[k] ELSE c[k] \o g[k - 1]
      BY DEF Stacks
    <3>1. CASE k = m
      <4>0. m \in Nat /\ m # -1 /\ m - 1 \in -1..m /\ m - 1 # m /\ m \in -1..m
        OBVIOUS
      <4>1. g[m] = c[m] \o f[m - 1]
        BY <4>0
      <4>2. g[m - 1] = f[m - 1]
        BY <4>0
      <4> HIDE DEF g
      <4> QED BY <3>1, <4>0, <4>1, <4>2
    <3>2. CASE k # m
      <4>1. k \in -1..(m - 1) /\ g[k] = f[k] /\ (k # -1 => g[k - 1] = f[k - 1])
        BY <3>2
      <4>2. f[k] = IF k = -1 THEN c[k] ELSE c[k] \o f[k - 1]
        BY <2>1, <4>1 DEF Stacks
      <4> QED BY <4>1, <4>2
    <3> QED BY <3>1, <3>2
  <2> QED BY <2>3, <2>4
<1>3. T = Nat
  <2> HIDE DEF T
  <2>1. T \in SUBSET Nat
    BY DEF T
  <2> QED BY <1>1, <1>2, <2>1, AllNaturals
<1>4. n + 1 \in T
  <2> HIDE DEF T
  <2> QED BY <1>3
<1> QED BY <1>4

\* From where two stacks agree, equal files keep them so.
LEMMA StackAbove ==
  ASSUME NEW n \in Int, NEW f, NEW c, Stacks(f, c, n), NEW g, NEW d, Stacks(g, d, n),
         NEW j \in -1..n, f[j] = g[j], \A k \in (j + 1)..n : c[k] = d[k]
  PROVE  f[n] = g[n]
<1> DEFINE T == {m \in Nat : j + m <= n => f[j + m] = g[j + m]}
<1>1. 0 \in T
  OBVIOUS
<1>2. ASSUME NEW m \in T PROVE m + 1 \in T
  <2> SUFFICES ASSUME j + (m + 1) <= n PROVE f[j + (m + 1)] = g[j + (m + 1)]
    OBVIOUS
  <2> DEFINE k == j + (m + 1)
  <2>1. k \in 0..n /\ k \in (j + 1)..n /\ k - 1 = j + m
    OBVIOUS
  <2>2. f[j + m] = g[j + m]
    OBVIOUS
  <2> HIDE DEF k
  <2>3. f[k] = c[k] \o f[k - 1] /\ g[k] = d[k] \o g[k - 1]
    BY <2>1, StackNext
  <2>4. f[k - 1] = g[k - 1]
    BY <2>1, <2>2
  <2>5. f[k] = g[k]
    BY <2>1, <2>3, <2>4
  <2> QED BY <2>5 DEF k
<1>3. T = Nat
  <2> HIDE DEF T
  <2>1. T \in SUBSET Nat
    BY DEF T
  <2> QED BY <1>1, <1>2, <2>1, AllNaturals
<1>4. n - j \in T
  <2> HIDE DEF T
  <2> QED BY <1>3
<1>5. j + (n - j) = n
  OBVIOUS
<1> QED BY <1>4, <1>5

LEMMA StackLess ==
  ASSUME NEW n \in Int, NEW f, NEW c, Stacks(f, c, n), NEW m \in -1..n
  PROVE  Stacks(f, c, m)
BY DEF Stacks

LEMMA StackBelow ==
  ASSUME NEW n \in Int, NEW f, NEW c, Stacks(f, c, n), NEW g, NEW d, Stacks(g, d, n),
         NEW m \in -1..n, \A k \in -1..m : c[k] = d[k]
  PROVE  f[m] = g[m]
<1>1. Stacks(f, c, m) /\ Stacks(g, d, m) /\ -1 \in -1..m /\ m \in Int
  BY StackLess
<1>2. f[-1] = g[-1]
  BY <1>1 DEF Stacks
<1>3. \A k \in (-1 + 1)..m : c[k] = d[k]
  OBVIOUS
<1> QED BY <1>1, <1>2, <1>3, StackAbove

\* The two lemmas, as facts of two stacks.
Agree(f, c, g, d, n) ==
  /\ \A m \in -1..n : (\A k \in -1..m : c[k] = d[k]) => f[m] = g[m]
  /\ \A j \in -1..n : f[j] = g[j] /\ (\A k \in (j + 1)..n : c[k] = d[k]) => f[n] = g[n]

LEMMA StacksAgree ==
  ASSUME NEW n \in Int, NEW f, NEW c, Stacks(f, c, n), NEW g, NEW d, Stacks(g, d, n)
  PROVE  Agree(f, c, g, d, n)
BY StackBelow, StackAbove DEF Agree

Associative(S) == \A h, t, q \in Seq(S) : (h \o t) \o q = h \o (t \o q)

LEMMA ConcatIsAssociative == ASSUME NEW S PROVE Associative(S)
BY ConcatAssociative DEF Associative

\* Lines at the end of the youngest file are at the end of the stack.
Grows(f, c, g, d, l, n) ==
  d[-1] = c[-1] \o l /\ (\A k \in 0..n : d[k] = c[k]) => g[n] = f[n] \o l

LEMMA StackGrows ==
  ASSUME NEW n \in Nat, NEW f \in [-1..n -> Seq(LogLine)], NEW c \in [-1..n -> Seq(LogLine)],
         Stacks(f,
         c, n),
         NEW g, NEW d, Stacks(g, d, n), NEW l \in Seq(LogLine)
  PROVE  Grows(f, c, g, d, l, n)
<1> SUFFICES ASSUME d[-1] = c[-1] \o l, \A k \in 0..n : d[k] = c[k]
             PROVE  g[n] = f[n] \o l
  BY DEF Grows
<1>0. ASSUME NEW m \in 0..n, g[m - 1] = f[m - 1] \o l
      PROVE  g[m] = f[m] \o l
  <2>1. n \in Int
    OBVIOUS
  <2>2. f[m] = c[m] \o f[m - 1] /\ g[m] = d[m] \o g[m - 1]
    BY <2>1, StackNext
  <2>3. c[m] \in Seq(LogLine) /\ f[m - 1] \in Seq(LogLine) /\ d[m] = c[m]
    OBVIOUS
  <2>4. Associative(LogLine)
    BY ConcatIsAssociative
  <2>5. (c[m] \o f[m - 1]) \o l = c[m] \o (f[m - 1] \o l)
    BY <2>3, <2>4, Zenon DEF Associative
  <2> QED BY <1>0, <2>2, <2>3, <2>5, Zenon
<1> DEFINE T == {m \in Nat : m <= n + 1 => g[m - 1] = f[m - 1] \o l}
<1>1. 0 \in T
  <2>1. -1 \in -1..n /\ 0 - 1 = -1
    OBVIOUS
  <2>2. g[-1] = d[-1] /\ f[-1] = c[-1]
    BY <2>1 DEF Stacks
  <2> QED BY <2>1, <2>2
<1>2. ASSUME NEW m \in T PROVE m + 1 \in T
  <2> SUFFICES ASSUME m + 1 <= n + 1 PROVE g[m] = f[m] \o l
    OBVIOUS
  <2>1. m \in 0..n /\ g[m - 1] = f[m - 1] \o l
    OBVIOUS
  <2> QED BY <1>0, <2>1
<1>3. T = Nat
  <2> HIDE DEF T
  <2>1. T \in SUBSET Nat
    BY DEF T
  <2> QED BY <1>1, <1>2, <2>1, AllNaturals
<1>4. n + 1 \in T
  <2> HIDE DEF T
  <2> QED BY <1>3
<1>5. n + 1 - 1 = n
  OBVIOUS
<1> QED BY <1>4, <1>5

\* Disk, of any files.
In(fs, n) == IF n \in DOMAIN fs THEN fs[n] ELSE <<>>
Contents(N, fs) == [n \in -1..N |-> In(fs, n)]
DiskOf(N, fs) ==
  LET from[n \in -1..N] == IF n = -1 THEN In(fs, -1) ELSE In(fs, n) \o from[n - 1]
  IN  from[N]

AreFiles(fs) == fs \in [DOMAIN fs -> Seq(LogLine)]

LEMMA DiskIsDiskOf == Disk = DiskOf(m_fileNum, files)
BY DEF Disk, DiskOf, In, Content, Current

LEMMA ContentsType ==
  ASSUME NEW N \in Nat, NEW fs, AreFiles(fs)
  PROVE  /\ Contents(N, fs) \in [-1..N -> Seq(LogLine)]
         /\ \A n \in Int : In(fs, n) \in Seq(LogLine)
BY EmptySeq DEF Contents, In, AreFiles

LEMMA DiskStacked ==
  ASSUME NEW N \in Nat, NEW fs, AreFiles(fs)
  PROVE  \E f : /\ f \in [-1..N -> Seq(LogLine)] /\ Stacks(f, Contents(N, fs), N)
                /\ DiskOf(N, fs) = f[N]
<1>1. Contents(N, fs) \in [-1..N -> Seq(LogLine)]
  BY ContentsType
<1>2. PICK f \in [-1..N -> Seq(LogLine)] : Stacks(f, Contents(N, fs), N)
  BY <1>1, StackExists
<1> DEFINE F == CHOOSE g : g = [n \in -1..N |->
                  IF n = -1 THEN In(fs, -1) ELSE In(fs, n) \o g[n - 1]]
<1>3. DiskOf(N, fs) = F[N]
  BY DEF DiskOf
<1>4. f = [n \in -1..N |-> IF n = -1 THEN In(fs, -1) ELSE In(fs, n) \o f[n - 1]]
  <2>1. \A n \in -1..N : f[n] = IF n = -1 THEN In(fs, -1) ELSE In(fs, n) \o f[n - 1]
    BY <1>2 DEF Stacks, Contents
  <2> QED BY <2>1
<1>5. F = [n \in -1..N |-> IF n = -1 THEN In(fs, -1) ELSE In(fs, n) \o F[n - 1]]
  BY <1>4
<1>6. Stacks(F, Contents(N, fs), N)
  <2> HIDE DEF F
  <2> QED BY <1>5 DEF Stacks, Contents
<1>7. F[N] = f[N]
  <2> HIDE DEF F
  <2>1. N \in Int /\ N \in -1..N
    OBVIOUS
  <2> QED BY <1>2, <1>6, <2>1, StackBelow
<1> QED BY <1>2, <1>3, <1>7

\* What the files f and g hold, and the two stacks.
LEMMA DiskSame ==
  ASSUME NEW N \in Nat, NEW fs, AreFiles(fs), NEW gs, AreFiles(gs),
         \A n \in -1..N : In(gs, n) = In(fs, n)
  PROVE  DiskOf(N, gs) = DiskOf(N, fs)
<1>1. Contents(N, gs) = Contents(N, fs)
  BY DEF Contents
<1>2. PICK f : /\ f \in [-1..N -> Seq(LogLine)] /\ Stacks(f, Contents(N, fs), N)
              /\ DiskOf(N, fs) = f[N]
  BY DiskStacked
<1>3. PICK g : /\ g \in [-1..N -> Seq(LogLine)] /\ Stacks(g, Contents(N, gs), N)
              /\ DiskOf(N, gs) = g[N]
  BY DiskStacked
<1>4. N \in Int /\ N \in -1..N /\ \A k \in -1..N : Contents(N, gs)[k] = Contents(N, fs)[k]
  BY <1>1
<1>5. Agree(g, Contents(N, gs), f, Contents(N, fs), N)
  BY <1>2, <1>3, <1>4, StacksAgree
<1>6. g[N] = f[N]
  BY <1>4, <1>5 DEF Agree
<1> QED BY <1>2, <1>3, <1>6

LEMMA DiskGrows ==
  ASSUME NEW N \in Nat, NEW fs, AreFiles(fs), NEW gs, AreFiles(gs), NEW l \in Seq(LogLine),
         In(gs, -1) = In(fs, -1) \o l, \A n \in 0..N : In(gs, n) = In(fs, n)
  PROVE  DiskOf(N, gs) = DiskOf(N, fs) \o l
<1> DEFINE c == Contents(N, fs)
           d == Contents(N, gs)
<1>1. c \in [-1..N -> Seq(LogLine)] /\ d[-1] = c[-1] \o l /\ \A k \in 0..N : d[k] = c[k]
  <2>1. -1 \in -1..N /\ \A k \in 0..N : k \in -1..N
    OBVIOUS
  <2>2. c \in [-1..N -> Seq(LogLine)]
    BY ContentsType
  <2>3. d[-1] = In(gs, -1) /\ c[-1] = In(fs, -1)
        /\ \A k \in 0..N : c[k] = In(fs, k) /\ d[k] = In(gs, k)
    BY <2>1 DEF Contents
  <2> QED BY <2>2, <2>3
<1>2. PICK f : /\ f \in [-1..N -> Seq(LogLine)] /\ Stacks(f, c, N)
              /\ DiskOf(N, fs) = f[N]
  BY DiskStacked
<1>3. PICK g : /\ g \in [-1..N -> Seq(LogLine)] /\ Stacks(g, d, N)
              /\ DiskOf(N, gs) = g[N]
  BY DiskStacked
<1> HIDE DEF c, d
<1>5. g[N] = f[N] \o l
  <2>1. Grows(f, c, g, d, l, N)
    <3>1. N \in Nat /\ c \in [-1..N -> Seq(LogLine)] /\ f \in [-1..N -> Seq(LogLine)]
          /\ Stacks(f, c, N) /\ Stacks(g, d, N) /\ l \in Seq(LogLine)
      BY <1>1, <1>2, <1>3
    <3> QED BY <3>1, StackGrows, Zenon
  <2> QED BY <1>1, <2>1 DEF Grows
<1> QED BY <1>2, <1>3, <1>5

\* The oldest file is at the front.
LEMMA DiskWithoutOldest ==
  ASSUME NEW N \in Nat, NEW fs, AreFiles(fs), NEW gs, AreFiles(gs),
         In(gs, N) = <<>>, \A n \in -1..(N - 1) : In(gs, n) = In(fs, n)
  PROVE  DiskOf(N, gs) \in Seq(LogLine) /\ DiskOf(N, fs) = In(fs, N) \o DiskOf(N, gs)
<1> DEFINE c == Contents(N, fs)
           d == Contents(N, gs)
<1>1. d[N] = <<>> /\ c[N] = In(fs, N) /\ \A k \in -1..(N - 1) : d[k] = c[k]
  BY DEF Contents
<1>2. PICK f : /\ f \in [-1..N -> Seq(LogLine)] /\ Stacks(f, c, N)
              /\ DiskOf(N, fs) = f[N]
  BY DiskStacked
<1>3. PICK g : /\ g \in [-1..N -> Seq(LogLine)] /\ Stacks(g, d, N)
              /\ DiskOf(N, gs) = g[N]
  BY DiskStacked
<1> HIDE DEF c, d
<1>4. N \in Int /\ N \in 0..N /\ N - 1 \in -1..N
  OBVIOUS
<1>5. f[N] = c[N] \o f[N - 1] /\ g[N] = d[N] \o g[N - 1]
  BY <1>2, <1>3, <1>4, StackNext
<1>6. g[N - 1] = f[N - 1]
  <2>1. Agree(g, d, f, c, N)
    BY <1>2, <1>3, <1>4, StacksAgree
  <2> QED BY <1>1, <1>4, <2>1 DEF Agree
<1>7. g[N - 1] \in Seq(LogLine) /\ g[N] \in Seq(LogLine)
  BY <1>3, <1>4
<1>8. g[N] = g[N - 1]
  BY <1>1, <1>5, <1>7, ConcatEmptySeq
<1> QED BY <1>1, <1>2, <1>3, <1>5, <1>6, <1>7, <1>8

\* A file takes the next name, which is free.
LEMMA DiskShifted ==
  ASSUME NEW N \in Nat, NEW fs, AreFiles(fs), NEW gs, AreFiles(gs), NEW i \in -1..(N - 1),
         In(fs, i + 1) = <<>>, In(gs, i + 1) = In(fs, i), In(gs, i) = <<>>,
         \A n \in (-1..N) \ {i, i + 1} : In(gs, n) = In(fs, n)
  PROVE  DiskOf(N, gs) = DiskOf(N, fs)
<1> DEFINE c == Contents(N, fs)
           d == Contents(N, gs)
<1>1. /\ c[i + 1] = <<>> /\ d[i + 1] = c[i] /\ d[i] = <<>> /\ c[i] \in Seq(LogLine)
      /\ \A k \in -1..(i - 1) : d[k] = c[k]
      /\ \A k \in (i + 2)..N : d[k] = c[k]
  <2>1. i \in -1..N /\ i + 1 \in -1..N
    OBVIOUS
  <2> QED BY <2>1, ContentsType DEF Contents
<1>2. PICK f : /\ f \in [-1..N -> Seq(LogLine)] /\ Stacks(f, c, N)
              /\ DiskOf(N, fs) = f[N]
  BY DiskStacked
<1>3. PICK g : /\ g \in [-1..N -> Seq(LogLine)] /\ Stacks(g, d, N)
              /\ DiskOf(N, gs) = g[N]
  BY DiskStacked
<1> HIDE DEF c, d
<1>4. N \in Int /\ N \in -1..N /\ i + 1 \in 0..N /\ i \in -1..N /\ i + 1 \in -1..N
      /\ (i + 1) - 1 = i
  OBVIOUS
<1>5. f[i + 1] = <<>> \o f[i] /\ g[i + 1] = c[i] \o g[i]
  <2>1. f[i + 1] = c[i + 1] \o f[(i + 1) - 1] /\ g[i + 1] = d[i + 1] \o g[(i + 1) - 1]
    BY <1>2, <1>3, <1>4, StackNext
  <2> QED BY <1>1, <1>4, <2>1
<1>6. f[i] \in Seq(LogLine) /\ g[i] \in Seq(LogLine)
  BY <1>2, <1>3, <1>4
<1>7. c[i] \o g[i] = f[i]
  <2>1. CASE i = -1
    <3>1. f[i] = c[i] /\ g[i] = d[i]
      BY <1>2, <1>3, <1>4, <2>1 DEF Stacks
    <3> QED BY <1>1, <3>1, ConcatEmptySeq
  <2>2. CASE i # -1
    <3>1. i \in 0..N /\ i - 1 \in -1..N
      BY <2>2
    <3>2. f[i] = c[i] \o f[i - 1] /\ g[i] = d[i] \o g[i - 1]
      BY <1>2, <1>3, <1>4, <3>1, StackNext
    <3>3. g[i - 1] = f[i - 1]
      <4>1. Agree(g, d, f, c, N)
        BY <1>2, <1>3, <1>4, StacksAgree
      <4> QED BY <1>1, <1>4, <3>1, <4>1 DEF Agree
    <3>4. <<>> \o g[i - 1] = g[i - 1]
      <4>1. g[i - 1] \in Seq(LogLine)
        BY <1>3, <3>1
      <4> QED BY <4>1, ConcatEmptySeq
    <3> QED BY <1>1, <3>2, <3>3, <3>4
  <2> QED BY <2>1, <2>2
<1>8. f[i + 1] = g[i + 1]
  BY <1>5, <1>6, <1>7, ConcatEmptySeq
<1>9. \A k \in ((i + 1) + 1)..N : c[k] = d[k]
  BY <1>1
<1>10. f[N] = g[N]
  <2>1. Agree(f, c, g, d, N)
    BY <1>2, <1>3, <1>4, StacksAgree
  <2> QED BY <1>4, <1>8, <1>9, <2>1 DEF Agree
<1> QED BY <1>2, <1>3, <1>10

\* The same over an empty place between.
LEMMA DiskShiftedTwo ==
  ASSUME NEW N \in Nat, NEW fs, AreFiles(fs), NEW gs, AreFiles(gs), 1 <= N,
         In(fs, 0) = <<>>, In(gs, 0) = <<>>, In(fs, 1) = <<>>, In(gs, 1) = In(fs, -1),
         In(gs, -1) = <<>>, \A n \in 2..N : In(gs, n) = In(fs, n)
  PROVE  DiskOf(N, gs) = DiskOf(N, fs)
<1> DEFINE hs == [n \in -1..N |-> IF n = 0 THEN In(fs, -1) ELSE IF n = -1 THEN <<>> ELSE In(fs, n)]
<1>1. AreFiles(hs) /\ \A n \in -1..N : In(hs, n) = hs[n]
  BY ContentsType, EmptySeq DEF AreFiles, In
<1>2. -1 \in -1..(N - 1) /\ 0 \in -1..(N - 1) /\ -1 + 1 = 0 /\ 0 + 1 = 1
      /\ -1 \in -1..N /\ 0 \in -1..N /\ 1 \in -1..N
  OBVIOUS
<1>3. /\ In(hs, 0) = In(fs, -1) /\ In(hs, -1) = <<>> /\ In(hs, 1) = <<>>
      /\ \A n \in 2..N : In(hs, n) = In(fs, n)
  BY <1>1, <1>2
<1> HIDE DEF hs
<1>4. DiskOf(N, hs) = DiskOf(N, fs)
  <2>1. \A n \in (-1..N) \ {-1, -1 + 1} : In(hs, n) = In(fs, n)
    BY <1>2, <1>3
  <2> QED BY <1>1, <1>2, <1>3, <2>1, DiskShifted
<1>5. DiskOf(N, gs) = DiskOf(N, hs)
  <2>1. \A n \in (-1..N) \ {0, 0 + 1} : In(gs, n) = In(hs, n)
    BY <1>2, <1>3
  <2> QED BY <1>1, <1>2, <1>3, <2>1, DiskShifted
<1> QED BY <1>4, <1>5

-----------------------------------------------------------------------------
(* The refinement: every step is a step of the journal, or leaves it as it is. *)

LEMMA LinesAssociative ==
  \A s, t, u \in Seq(LogLine) : (s \o t) \o u = s \o (t \o u)
<1> SUFFICES ASSUME NEW s \in Seq(LogLine), NEW t \in Seq(LogLine), NEW u \in Seq(LogLine)
             PROVE  (s \o t) \o u = s \o (t \o u)
  OBVIOUS
<1> QED BY ConcatAssociative

LEMMA LinesConcat ==
  \A s, t \in Seq(LogLine) : /\ s \o t \in Seq(LogLine) /\ <<>> \in Seq(LogLine)
                         /\ <<>> \o s = s /\ s \o <<>> = s
BY ConcatProperties, EmptySeq, ConcatEmptySeq

Row(A, B, C, D) == A \o B \o C \o D

LEMMA RowType ==
  ASSUME NEW A \in Seq(LogLine), NEW B \in Seq(LogLine), NEW C \in Seq(LogLine),
         NEW D \in Seq(LogLine)
  PROVE  A \o B \in Seq(LogLine) /\ A \o B \o C \in Seq(LogLine) /\ Row(A, B, C, D) \in Seq(LogLine)
BY LinesConcat DEF Row

\* A full buffer goes to the end of its queue.
LEMMA RowPush ==
  ASSUME NEW A \in Seq(LogLine), NEW B \in Seq(LogLine), NEW C \in Seq(LogLine),
         NEW D \in Seq(LogLine)
  PROVE  Row(A, B, C \o D, <<>>) = Row(A, B, C, D)
<1> DEFINE P == A \o B
<1>1. P \in Seq(LogLine)
  BY RowType
<1> HIDE DEF P
<1>2. C \o D \in Seq(LogLine) /\ P \o (C \o D) = (P \o C) \o D
  <2>1. P \o (C \o D) = (P \o C) \o D
    BY <1>1, LinesAssociative
  <2> QED BY <2>1, LinesConcat
<1>3. (P \o (C \o D)) \o <<>> = P \o (C \o D)
  BY <1>1, <1>2, LinesConcat
<1> QED BY <1>2, <1>3 DEF Row, P

\* Both kinds of buffers are taken over together.
LEMMA RowSwap ==
  ASSUME NEW C \in Seq(LogLine),
         NEW D \in Seq(LogLine)
  PROVE  Row(<<>>, C \o D, <<>>, <<>>) = Row(<<>>, <<>>, C, D)
<1>1. C \o D \in Seq(LogLine)
  BY LinesConcat
<1>2. <<>> \o (C \o D) = C \o D /\ (C \o D) \o <<>> = C \o D /\ <<>> \o <<>> = <<>>
  BY <1>1, LinesConcat
<1>3. <<>> \o C = C
  BY LinesConcat
<1> QED BY <1>2, <1>3 DEF Row

LEMMA RowNext ==
  ASSUME NEW A \in Seq(LogLine), NEW B \in Seq(LogLine), NEW C, NEW D
  PROVE  Row(<<>>, A \o B, C, D) = Row(A, B, C, D)
<1>1. <<>> \o (A \o B) = A \o B
  BY LinesConcat
<1> QED BY <1>1 DEF Row

LEMMA RowLast ==
  ASSUME NEW D \in Seq(LogLine)
  PROVE  Row(<<>>, <<>>, <<>>, D) = D
<1>1. <<>> \o <<>> = <<>> /\ <<>> \o D = D
  BY LinesConcat
<1> QED BY <1>1 DEF Row

\* Where a sequence ends in another.
LEMMA SplitAfter ==
  ASSUME NEW A \in Seq(LogLine), NEW R \in Seq(LogLine)
  PROVE  /\ \A n \in 0..Len(A) : SubSeq(A \o R, 1, n) = SubSeq(A, 1, n)
         /\ SubSeq(A \o R, Len(A) + 1, Len(A \o R)) = R
         /\ Len(A) \in 0..Len(A \o R)
<1>1. Len(A) \in Nat /\ Len(R) \in Nat /\ Len(A \o R) = Len(A) + Len(R)
  BY LenProperties, LinesConcat
<1>2. ASSUME NEW n \in 0..Len(A)
      PROVE  SubSeq(A \o R, 1, n) = SubSeq(A, 1, n)
  <2>1. CASE n = 0
    BY <2>1, SubSeqEmpty
  <2>2. CASE n # 0
    <3>1. 1 \in 1..Len(A) /\ n \in 1..Len(A)
      BY <1>1, <2>2
    <3> QED BY <3>1, SubSeqOfConcat1
  <2> QED BY <2>1, <2>2
<1>3. SubSeq(A \o R, Len(A) + 1, Len(A \o R)) = R
  <2>1. CASE R = <<>>
    <3>1. Len(A \o R) < Len(A) + 1 /\ Len(A) + 1 \in Int /\ Len(A \o R) \in Int
      BY <1>1, <2>1, EmptySeq
    <3>2. SubSeq(A \o R, Len(A) + 1, Len(A \o R)) = <<>>
      BY <3>1, SubSeqEmpty, Zenon
    <3> QED BY <2>1, <3>2
  <2>2. CASE R # <<>>
    <3>1. Len(R) # 0
      BY <2>2, EmptySeq
    <3>2. /\ Len(A) + 1 \in Len(A) + 1..Len(A) + Len(R)
          /\ Len(A) + Len(R) \in Len(A) + 1..Len(A) + Len(R)
          /\ Len(A) + 1 - Len(A) = 1 /\ Len(A) + Len(R) - Len(A) = Len(R)
      BY <1>1, <3>1
    <3>3. SubSeq(A \o R, Len(A) + 1, Len(A) + Len(R)) = SubSeq(R, 1, Len(R))
      BY <3>2, SubSeqOfConcat2
    <3> QED BY <1>1, <3>3, SubSeqFull
  <2> QED BY <2>1, <2>2
<1> QED BY <1>1, <1>2, <1>3
LEMMA RealLines == HaveLines(RealBuf, LogLine)
BY DEF HaveLines, RealBuf

LEMMA PendingRow ==
  /\ Pending = Row(m_pBufDeal.lines, Flat(m_queBufsDeal), Flat(m_queBufsWrite), m_pBufWrite.lines)
  /\ Pending' = Row(m_pBufDeal'.lines, Flat(m_queBufsDeal'), Flat(m_queBufsWrite'),
                    m_pBufWrite'.lines)
BY DEF Pending, Row

LEMMA PendingTypes ==
  ASSUME Placed
  PROVE  /\ m_pBufDeal.lines \in Seq(LogLine) /\ Flat(m_queBufsDeal) \in Seq(LogLine)
         /\ Flat(m_queBufsWrite) \in Seq(LogLine) /\ m_pBufWrite.lines \in Seq(LogLine)
<1>1. Null.lines \in Seq(LogLine)
  BY NoLinesIn, EmptySeq
<1>2. m_pBufDeal.lines \in Seq(LogLine) /\ m_pBufWrite.lines \in Seq(LogLine)
  BY <1>1 DEF Placed, BuffersPlaced, RealBuf
<1>3. Flat(m_queBufsDeal) \in Seq(LogLine) /\ Flat(m_queBufsWrite) \in Seq(LogLine)
  BY RealLines, FlatType DEF Placed, BuffersPlaced
<1> QED BY <1>2, <1>3

LEMMA PendingType == ASSUME Placed PROVE Pending \in Seq(LogLine)
BY PendingTypes, PendingRow, RowType

LEMMA PendingFirst ==
  ASSUME Placed
  PROVE  Pending = m_pBufDeal.lines \o Row(<<>>, Flat(m_queBufsDeal), Flat(m_queBufsWrite),
                                           m_pBufWrite.lines)
<1> DEFINE A == m_pBufDeal.lines
           B == Flat(m_queBufsDeal)
           C == Flat(m_queBufsWrite)
           D == m_pBufWrite.lines
           P == B \o C
<1>1. A \in Seq(LogLine) /\ B \in Seq(LogLine) /\ C \in Seq(LogLine) /\ D \in Seq(LogLine)
  BY PendingTypes
<1>2. Pending = Row(A, B, C, D)
  BY PendingRow
<1> HIDE DEF A, B, C, D
<1>3. <<>> \o B = B /\ P \in Seq(LogLine)
  BY <1>1, LinesConcat
<1>4. (A \o B) \o C = A \o P
  BY <1>1, LinesAssociative
<1>5. (A \o P) \o D = A \o (P \o D)
  <2> HIDE DEF P
  <2>1. A \in Seq(LogLine) /\ P \in Seq(LogLine) /\ D \in Seq(LogLine)
    BY <1>1, <1>3
  <2> QED BY <2>1, LinesAssociative
<1>6. Pending = A \o Row(<<>>, B, C, D)
  BY <1>2, <1>3, <1>4, <1>5 DEF Row
<1> QED BY <1>6 DEF A, B, C, D

LEMMA DiskStays == UNCHANGED <<m_fileNum, files>> => Disk' = Disk
BY DEF Disk, Content

LEMMA DiskThen == Disk' = DiskOf(m_fileNum', files')
BY DEF Disk, DiskOf, In, Content, Current

\* One step of the journal, or none: the next line is logged, or lines are moved or
\* lost.
Moved ==
  \/ \E n \in 0..Len(Pending) : J!Store(n) \/ J!GoDown(n)
  \/ \E n \in 0..Len(Disk) : J!RemoveOld(n)
  \/ J!GoUp
  \/ UNCHANGED J!journalVars
JournalStep ==
  \/ /\ \E line \in Lines \cap LogLine : line.no = logged + 1 /\ J!Log(line)
     /\ logged' = logged + 1
  \/ Moved

LEMMA Quiet ==
  ASSUME Pending' = Pending, Disk' = Disk, UNCHANGED life
  PROVE  JournalStep
BY DEF JournalStep, Moved, J!journalVars

LEMMA JournalPushWrite ==
  ASSUME Placed, NEW t \in Threads, PushWrite(t)
  PROVE  JournalStep
<1>1. /\ m_queBufsWrite' = Append(m_queBufsWrite, m_pBufWrite) /\ m_pBufWrite' = Null
      /\ UNCHANGED <<m_fileNum, files, life, m_pBufDeal, m_queBufsDeal>>
  BY DEF PushWrite, fileVars, settings, ownerVars, dealBufVars
<1>2. m_pBufWrite \in RealBuf /\ m_queBufsWrite \in Seq(RealBuf)
  BY DEF PushWrite, Placed, BuffersPlaced, Free, MayLog, Threads, MutexHeld
<1>3. Flat(m_queBufsWrite') = Flat(m_queBufsWrite) \o m_pBufWrite.lines
  BY <1>1, <1>2, RealLines, FlatAppend
<1>4. Pending' = Pending
  BY <1>1, <1>3, PendingRow, PendingTypes, NoLinesIn, RowPush
<1> QED BY <1>1, <1>4, DiskStays, Quiet

LEMMA JournalTakeEmpty ==
  ASSUME Placed, NEW t \in Threads, TakeEmpty(t)
  PROVE  JournalStep
<1>1. UNCHANGED <<m_fileNum, files, life, m_pBufDeal, m_queBufsDeal, m_queBufsWrite>>
  BY DEF TakeEmpty, fileVars, settings, ownerVars, dealBufVars
<1>2. m_pBufWrite'.lines = <<>> /\ m_pBufWrite.lines = <<>>
  BY TakeReal, NoLinesIn DEF TakeEmpty, Placed, BuffersPlaced
<1>3. Pending' = Pending
  BY <1>1, <1>2, PendingRow
<1> QED BY <1>1, <1>3, DiskStays, Quiet

LEMMA JournalPut ==
  ASSUME Placed, LineCount, NEW t \in Threads, Put(t)
  PROVE  JournalStep
<1>2. logged \in Nat
  BY DEF Placed, BuffersPlaced
<1>0. PICK trails \in BOOLEAN :
        /\ WholeLine(logged + 1, trails) \in LogLine
        /\ m_pBufWrite'.lines = Append(m_pBufWrite.lines, WholeLine(logged + 1, trails))
  BY <1>2, PutLine
<1> DEFINE line == WholeLine(logged + 1, trails)
<1>1. /\ m_pBufWrite'.lines = Append(m_pBufWrite.lines, line) /\ line \in LogLine
      /\ UNCHANGED <<m_fileNum, files, m_pBufDeal, m_queBufsDeal, m_queBufsWrite>>
  BY <1>0 DEF Put, fileVars, settings, dealBufVars
<1>9. line.no = logged + 1 /\ line = [no |-> logged + 1, trails |-> trails, whole |-> TRUE]
  BY DEF WholeLine
<1> HIDE DEF line
<1>3. Pending' = Append(Pending, line)
  <2>1. line \in LogLine
    BY <1>1
  <2>2. <<line>> \in Seq(LogLine)
    BY <2>1
  <2>3. Row(m_pBufDeal.lines, Flat(m_queBufsDeal), Flat(m_queBufsWrite),
            m_pBufWrite.lines \o <<line>>)
          = Row(m_pBufDeal.lines, Flat(m_queBufsDeal), Flat(m_queBufsWrite),
                m_pBufWrite.lines) \o <<line>>
    <3>1. /\ m_pBufDeal.lines \in Seq(LogLine) /\ Flat(m_queBufsDeal) \in Seq(LogLine)
          /\ Flat(m_queBufsWrite) \in Seq(LogLine) /\ m_pBufWrite.lines \in Seq(LogLine)
      BY PendingTypes
    <3> DEFINE A == m_pBufDeal.lines
               B == Flat(m_queBufsDeal)
               C == Flat(m_queBufsWrite)
               D == m_pBufWrite.lines
               X == <<line>>
    <3>2. A \in Seq(LogLine) /\ B \in Seq(LogLine) /\ C \in Seq(LogLine) /\ D \in Seq(LogLine)
          /\ X \in Seq(LogLine)
      BY <2>2, <3>1
    <3> HIDE DEF A, B, C, D, X
    <3> DEFINE P == A \o B \o C
    <3>3. P \in Seq(LogLine)
      BY <3>2, RowType
    <3> HIDE DEF P
    <3>4. (P \o D) \o X = P \o (D \o X)
      BY <3>2, <3>3, LinesAssociative
    <3> QED BY <3>4 DEF A, B, C, D, X, P, Row
  <2>4. Append(m_pBufWrite.lines, line) = m_pBufWrite.lines \o <<line>>
    BY <2>1, PendingTypes, AppendIsConcat
  <2>5. Append(Pending, line) = Pending \o <<line>>
    BY <2>1, PendingType, AppendIsConcat
  <2> QED BY <1>1, <2>3, <2>4, <2>5, PendingRow, Zenon
<1>4. life # "none" /\ life' # "none"
  BY DEF Put, Placed, MutexHeld, Free, MayLog, LogDone, ownerVars
<1>5. line \in Lines
  <2>1. MaxLines \in Nat /\ MaxRuns \in Nat /\ runs \in Nat /\ runs <= MaxRuns
    BY LoggerAssumption DEF LineCount
  <2>2. logged < MaxLines + 2 * runs
    <3>1. CASE t = owner
      <4>1. writer[owner] = "put" \/ (writer[owner] = "idle" /\ life \in {"start", "stop"})
        BY <3>1 DEF Put, MayLog, Free, Threads
      <4>2. life \in {"start", "stop"} /\ writer[owner] \notin {"write", "check"}
        BY <4>1 DEF Placed, MutexHeld
      <4> QED BY <4>2 DEF LineCount
    <3>2. CASE t # owner
      <4>1. t \in Writers
        BY <3>2 DEF Threads
      <4> QED BY <1>2, <2>1, <3>2, <4>1 DEF Put, MayLog, LineCount
    <3> QED BY <3>1, <3>2
  <2>3. logged + 1 \in 1..(MaxLines + 2 * MaxRuns)
    BY <1>2, <2>1, <2>2
  <2> QED BY <1>9, <2>3 DEF Lines
<1>6. J!Log(line)
  BY <1>1, <1>3, <1>4, DiskStays DEF J!Log
<1>7. logged' = logged + 1
  BY DEF Put
<1> QED BY <1>1, <1>5, <1>6, <1>7, <1>9 DEF JournalStep

\* The files after a write at the end of the log.
LEMMA DiskWritten ==
  ASSUME FilesInv, Current \in DOMAIN files, NEW lines \in Seq(LogLine), files' = Written(lines),
         UNCHANGED m_fileNum
  PROVE  Disk' = Disk \o lines
<1>1. m_fileNum \in Nat /\ AreFiles(files)
  BY SettingsNat DEF FilesInv, FilesTyped, AreFiles
<1>2. /\ files' \in [DOMAIN files -> Seq(LogLine)]
      /\ \A n \in DOMAIN files \ {Current} : files'[n] = files[n]
  BY WrittenKeeps DEF FilesInv, FilesTyped
<1>3. files'[Current] = files[Current] \o lines
  BY <1>1 DEF Written, AreFiles
<1>4. AreFiles(files')
  BY <1>2 DEF AreFiles
<1>5. In(files', -1) = In(files, -1) \o lines
      /\ \A n \in 0..m_fileNum : In(files', n) = In(files, n)
  BY <1>2, <1>3 DEF In, Current
<1>6. DiskOf(m_fileNum, files') = DiskOf(m_fileNum, files) \o lines
  BY <1>1, <1>4, <1>5, DiskGrows
<1> QED BY <1>6, DiskThen, DiskIsDiskOf

\* A whole buffer comes to the disk.
LEMMA JournalStored ==
  ASSUME NEW A \in Seq(LogLine), NEW R \in Seq(LogLine), Pending = A \o R, Pending' = R,
         Disk' = Disk \o A, life # "none", UNCHANGED life
  PROVE  JournalStep
<1>1. /\ SubSeq(Pending, 1, Len(A)) = A
      /\ SubSeq(Pending, Len(A) + 1, Len(Pending)) = R
      /\ Len(A) \in 0..Len(Pending)
  <2>1. Len(A) \in 0..Len(A) /\ SubSeq(A, 1, Len(A)) = A
    BY LenProperties, SubSeqFull
  <2> QED BY <2>1, SplitAfter
<1>2. J!Store(Len(A))
  BY <1>1 DEF J!Store, J!Stored
<1> QED BY <1>1, <1>2 DEF JournalStep, Moved
\* Who writes has the log open.
LEMMA WritingOpen ==
  ASSUME Placed, FilesInv, deal = "write" \/ \E t \in Threads : writer[t] = "write"
  PROVE  rot = "none" /\ Current \in DOMAIN files
<1>1. rot = "none"
  BY DEF Placed, RotationOwned, MutexHeld, ThreadLives
<1>2. life # "none"
  BY DEF Placed, ThreadLives, MutexHeld, Free
<1> QED BY <1>1, <1>2 DEF FilesInv, FilesTyped

\* In synchronous mode the only pending line is the one a thread is writing.
LEMMA SyncPending ==
  ASSUME Placed, Drained, ~m_bAsynLog
  PROVE  /\ m_pBufDeal.lines = <<>> /\ Flat(m_queBufsDeal) = <<>> /\ Flat(m_queBufsWrite) = <<>>
         /\ Pending = m_pBufWrite.lines
<1>1. deal = "none"
  BY DEF Placed, ThreadLives
<1>2. m_pBufDeal = Null /\ m_queBufsDeal = <<>> /\ m_queBufsWrite = <<>>
  BY <1>1 DEF Placed, BuffersPlaced, Drained
<1>3. m_pBufDeal.lines = <<>> /\ Flat(m_queBufsDeal) = <<>> /\ Flat(m_queBufsWrite) = <<>>
  BY <1>2, NoLinesIn, FlatEmpty
<1> QED BY <1>3, PendingRow, PendingTypes, RowLast

LEMMA JournalWriteLine ==
  ASSUME Placed, FilesInv, Drained, NEW t \in Threads, WriteLine(t)
  PROVE  JournalStep
<1>1. /\ files' = Written(m_pBufWrite.lines) /\ m_pBufWrite' = Empty
      /\ UNCHANGED <<m_fileNum, life, m_pBufDeal, m_queBufsDeal, m_queBufsWrite>>
      /\ writer[t] = "write"
  BY DEF WriteLine, settings, ownerVars, dealBufVars
<1>2. ~m_bAsynLog /\ life # "none"
  BY <1>1 DEF Placed, MutexHeld, Free
<1>3. Current \in DOMAIN files
  BY <1>1, WritingOpen
<1>4. m_pBufWrite.lines \in Seq(LogLine)
  BY PendingTypes
<1>5. Disk' = Disk \o m_pBufWrite.lines
  BY <1>1, <1>3, <1>4, DiskWritten
<1>6. Pending = m_pBufWrite.lines \o <<>>
  BY <1>2, <1>4, SyncPending, LinesConcat
<1>7. Pending' = <<>>
  <2>1. Pending' = Row(<<>>, <<>>, <<>>, <<>>)
    BY <1>1, <1>2, SyncPending, PendingRow, NoLinesIn
  <2> QED BY <2>1, RowLast, EmptySeq
<1> QED BY <1>1, <1>2, <1>4, <1>5, <1>6, <1>7, EmptySeq, JournalStored

LEMMA JournalWriteBuf ==
  ASSUME Placed, FilesInv, WriteBuf
  PROVE  JournalStep
<1>1. /\ files' = Written(m_pBufDeal.lines) /\ m_pBufDeal' = Empty /\ deal = "write"
      /\ UNCHANGED <<m_fileNum, life, m_pBufWrite, m_queBufsDeal, m_queBufsWrite>>
  BY DEF WriteBuf, Deal, settings, ownerVars, bufVars
<1>2. life # "none"
  BY <1>1 DEF Placed, ThreadLives
<1>3. Current \in DOMAIN files
  BY <1>1, WritingOpen
<1>4. m_pBufDeal.lines \in Seq(LogLine)
  BY PendingTypes
<1>5. Disk' = Disk \o m_pBufDeal.lines
  BY <1>1, <1>3, <1>4, DiskWritten
<1>6. Pending' = Row(<<>>, Flat(m_queBufsDeal), Flat(m_queBufsWrite), m_pBufWrite.lines)
  BY <1>1, PendingRow, NoLinesIn
<1>7. Pending = m_pBufDeal.lines \o Pending'
  BY <1>6, PendingFirst, Zenon
<1>8. Pending' \in Seq(LogLine)
  BY <1>6, PendingTypes, EmptySeq, RowType
<1> QED BY <1>1, <1>2, <1>4, <1>5, <1>7, <1>8, JournalStored

LEMMA JournalSwap ==
  ASSUME Placed, Drained, Swap
  PROVE  JournalStep
<1>1. /\ m_queBufsDeal' = Append(m_queBufsWrite, m_pBufWrite) /\ m_queBufsWrite' = <<>>
      /\ TakeBuffer /\ UNCHANGED <<m_fileNum, files, life, m_pBufDeal>>
      /\ Free /\ deal = "swap"
  BY DEF Swap, Deal, fileVars, settings, ownerVars
<1>2. m_pBufDeal.lines = <<>> /\ m_queBufsDeal = <<>>
  BY <1>1, NoLinesIn DEF Placed, BuffersPlaced, Drained
<1>3. m_pBufWrite \in RealBuf /\ m_queBufsWrite \in Seq(RealBuf)
  BY <1>1 DEF Placed, BuffersPlaced, Free, ThreadLives
<1>4. Flat(m_queBufsDeal') = Flat(m_queBufsWrite) \o m_pBufWrite.lines
  BY <1>1, <1>3, RealLines, FlatAppend
<1>5. m_pBufWrite'.lines = <<>>
  BY <1>1, TakeReal, NoLinesIn DEF Placed, BuffersPlaced
<1>6. Pending' = Row(<<>>, Flat(m_queBufsWrite) \o m_pBufWrite.lines, <<>>, <<>>)
  BY <1>1, <1>2, <1>4, <1>5, FlatEmpty, PendingRow
<1>7. Pending = Row(<<>>, <<>>, Flat(m_queBufsWrite), m_pBufWrite.lines)
  BY <1>2, FlatEmpty, PendingRow
<1>8. Pending' = Pending
  BY <1>6, <1>7, PendingTypes, RowSwap
<1> QED BY <1>1, <1>8, DiskStays, Quiet

LEMMA JournalNextBuf ==
  ASSUME Placed, NextBuf
  PROVE  JournalStep
<1>1. UNCHANGED <<m_fileNum, files, life, m_pBufWrite, m_queBufsWrite>>
  BY DEF NextBuf, fileVars, settings, ownerVars, bufVars
<1>2. CASE m_queBufsDeal = <<>>
  <2>1. UNCHANGED <<m_pBufDeal, m_queBufsDeal>>
    BY <1>2 DEF NextBuf, dealBufVars
  <2>2. Pending' = Pending
    BY <1>1, <2>1, PendingRow
  <2> QED BY <1>1, <2>2, DiskStays, Quiet
<1>3. CASE m_queBufsDeal # <<>>
  <2>1. /\ m_pBufDeal' = Head(m_queBufsDeal) /\ m_queBufsDeal' = Tail(m_queBufsDeal)
        /\ deal = "next"
    BY <1>3 DEF NextBuf, Deal
  <2>2. m_pBufDeal.lines = <<>> /\ m_queBufsDeal \in Seq(RealBuf)
    BY <2>1, NoLinesIn DEF Placed, BuffersPlaced
  <2>3. Head(m_queBufsDeal) \in RealBuf /\ Tail(m_queBufsDeal) \in Seq(RealBuf)
    BY <1>3, <2>2, HeadTailProperties
  <2>4. Flat(m_queBufsDeal) = m_pBufDeal'.lines \o Flat(m_queBufsDeal')
    BY <1>3, <2>1, <2>2, RealLines, FlatHead
  <2>5. m_pBufDeal'.lines \in Seq(LogLine) /\ Flat(m_queBufsDeal') \in Seq(LogLine)
    <3>1. m_pBufDeal'.lines \in Seq(LogLine)
      BY <2>1, <2>3 DEF RealBuf
    <3>2. Flat(m_queBufsDeal') \in Seq(LogLine)
      BY <2>1, <2>3, RealLines, FlatType
    <3> QED BY <3>1, <3>2
  <2>6. Pending = Row(<<>>, m_pBufDeal'.lines \o Flat(m_queBufsDeal'), Flat(m_queBufsWrite),
                      m_pBufWrite.lines)
    BY <2>2, <2>4, PendingRow
  <2>7. Pending' = Row(m_pBufDeal'.lines, Flat(m_queBufsDeal'), Flat(m_queBufsWrite),
                       m_pBufWrite.lines)
    BY <1>1, PendingRow
  <2>8. Pending' = Pending
    BY <2>5, <2>6, <2>7, RowNext
  <2> QED BY <1>1, <2>8, DiskStays, Quiet
<1> QED BY <1>2, <1>3

LEMMA JournalRecycle ==
  ASSUME Placed, Recycle
  PROVE  JournalStep
<1>1. /\ m_pBufDeal' = Null /\ deal = "check"
      /\ UNCHANGED <<m_fileNum, files, life, m_pBufWrite, m_queBufsWrite, m_queBufsDeal>>
  BY DEF Recycle, Deal, fileVars, settings, ownerVars
<1>2. m_pBufDeal.lines = <<>> /\ m_pBufDeal'.lines = <<>>
  BY <1>1, NoLinesIn DEF Placed, BuffersPlaced
<1>3. Pending' = Pending
  BY <1>1, <1>2, PendingRow
<1> QED BY <1>1, <1>3, DiskStays, Quiet

\* The steps that touch neither a buffer nor a file.
LEMMA JournalNothing ==
  ASSUME \/ \E t \in Threads : LineWritten(t)
         \/ Looking \/ Stop \/ Lower \/ Join \/ UNCHANGED vars,
         Placed
  PROVE  JournalStep
<1>1. UNCHANGED <<m_fileNum, files, m_pBufDeal, m_queBufsDeal, m_queBufsWrite, m_pBufWrite>>
  BY DEF LineWritten, Looking, TestRunning, TestBuf, TestQueue, Wait, WakeUp, Look, LookQueue,
     DealOnly, Stop, Lower, Join, vars, fileVars, settings, bufVars, dealBufVars
<1>2. (life # "none") = (life' # "none")
  <2>1. CASE \E t \in Threads : LineWritten(t)
    <3>1. life # "none"
      BY <2>1 DEF LineWritten, Placed, MutexHeld, Free
    <3> QED BY <2>1, <3>1 DEF LineWritten, LogDone
  <2>2. CASE Looking \/ UNCHANGED vars
    BY <2>2 DEF Looking, TestRunning, TestBuf, TestQueue, Wait, WakeUp, Look, LookQueue,
       DealOnly, vars, ownerVars
  <2>3. CASE Stop \/ Lower \/ Join
    BY <2>3 DEF Stop, Lower, Join
  <2> QED BY <2>1, <2>2, <2>3
<1>3. Pending' = Pending
  BY <1>1, PendingRow
<1> QED BY <1>1, <1>2, <1>3, DiskStays DEF JournalStep, Moved, J!journalVars
LEMMA OpenedContents ==
  ASSUME files' = WithCurrent(files), FilesInv
  PROVE  AreFiles(files') /\ \A n \in Int : In(files', n) = In(files, n)
<1>1. files \in [DOMAIN files -> Seq(LogLine)]
  BY DEF FilesInv, FilesTyped
<1>2. DOMAIN files' = DOMAIN files \cup {Current}
      /\ \A n \in DOMAIN files' : files'[n] = IF n \in DOMAIN files THEN files[n] ELSE <<>>
  BY DEF WithCurrent
<1>3. \A n \in DOMAIN files' : files'[n] \in Seq(LogLine)
  BY <1>1, <1>2, EmptySeq
<1>4. files' = [n \in DOMAIN files' |-> files'[n]]
  BY DEF WithCurrent
<1> QED BY <1>2, <1>3, <1>4 DEF AreFiles, In

LEMMA DiskOpened ==
  ASSUME FilesInv, files' = WithCurrent(files), UNCHANGED m_fileNum
  PROVE  Disk' = Disk
<1>1. m_fileNum \in Nat /\ AreFiles(files)
  BY SettingsNat DEF FilesInv, FilesTyped, AreFiles
<1>2. AreFiles(files') /\ \A n \in -1..m_fileNum : In(files', n) = In(files, n)
  BY OpenedContents
<1>3. DiskOf(m_fileNum, files') = DiskOf(m_fileNum, files)
  BY <1>1, <1>2, DiskSame
<1> QED BY <1>3, DiskThen, DiskIsDiskOf

LEMMA NothingPending ==
  ASSUME m_pBufDeal.lines = <<>>, m_queBufsDeal = <<>>, m_queBufsWrite = <<>>,
         m_pBufWrite.lines = <<>>
  PROVE  Pending = <<>>
BY FlatEmpty, RowLast, EmptySeq, PendingRow

LEMMA JournalStart ==
  ASSUME Placed, FilesInv, Drained, Start
  PROVE  JournalStep
<1>1. /\ files' = WithCurrent(files) /\ m_pBufWrite' = Empty /\ life = "none" /\ life' = "start"
      /\ UNCHANGED <<m_fileNum, m_pBufDeal, m_queBufsDeal, m_queBufsWrite>>
  BY DEF Start, settings, dealBufVars
<1>2. m_pBufWrite.lines = <<>> /\ m_pBufWrite'.lines = <<>>
  BY <1>1, NoLinesIn DEF Placed, BuffersPlaced
<1>3. Pending' = Pending
  BY <1>1, <1>2, PendingRow
<1>4. Disk' = Disk
  BY <1>1, DiskOpened
<1>5. J!GoUp
  BY <1>1, <1>3, <1>4 DEF J!GoUp
<1> QED BY <1>5 DEF JournalStep, Moved

LEMMA PendingGone == Gone => Pending' = <<>>
<1> SUFFICES ASSUME Gone PROVE Pending' = <<>>
  OBVIOUS
<1>1. m_pBufDeal'.lines = <<>> /\ m_queBufsDeal' = <<>> /\ m_queBufsWrite' = <<>>
      /\ m_pBufWrite'.lines = <<>>
  BY NoLinesIn DEF Gone
<1>2. Pending' = Row(<<>>, <<>>, <<>>, <<>>)
  BY <1>1, FlatEmpty, PendingRow
<1> QED BY <1>2, RowLast, EmptySeq

\* The first lines of the write under way come to the disk, and no others.
LEMMA JournalDown ==
  ASSUME Placed, Gone, life # "none", NEW A \in Seq(LogLine), NEW R \in Seq(LogLine),
         Pending = A \o R,
         NEW n \in 0..Len(A),
         Disk' = Disk \o SubSeq(A, 1, n) \/ (n > 0 /\ Disk' = Disk \o BrokenOff(A, n))
  PROVE  JournalStep
<1>1. SubSeq(Pending, 1, n) = SubSeq(A, 1, n) /\ n \in 0..Len(Pending)
  <2>1. Len(A) \in Nat /\ Len(A) \in 0..Len(Pending) /\ SubSeq(A \o R, 1, n) = SubSeq(A, 1, n)
    BY SplitAfter, LenProperties
  <2>2. Len(Pending) \in Nat
    BY PendingType, LenProperties
  <2> QED BY <2>1, <2>2
<1>2. life' = "none" /\ Pending' = <<>>
  BY PendingGone DEF Gone
<1>3. n > 0 => BrokenOff(A, n) = J!BrokenOff(Pending, n)
  <2> SUFFICES ASSUME n > 0 PROVE BrokenOff(A, n) = J!BrokenOff(Pending, n)
    OBVIOUS
  <2>1. Len(A) \in Nat /\ Len(R) \in Nat /\ n \in 1..Len(A) /\ n - 1 \in 0..Len(A)
    BY LenProperties
  <2>2. SubSeq(Pending, 1, n - 1) = SubSeq(A, 1, n - 1)
    BY <2>1, SplitAfter
  <2>3. Pending[n] = A[n]
    BY <2>1, ConcatProperties
  <2> QED BY <2>2, <2>3 DEF BrokenOff, J!BrokenOff
<1>4. J!GoDown(n)
  BY <1>1, <1>2, <1>3 DEF J!GoDown, J!Stored
<1> QED BY <1>1, <1>4 DEF JournalStep, Moved

LEMMA DiskType == ASSUME FilesInv PROVE Disk \in Seq(LogLine)
<1>1. m_fileNum \in Nat /\ AreFiles(files)
  BY SettingsNat DEF FilesInv, FilesTyped, AreFiles
<1>2. PICK f : /\ f \in [-1..m_fileNum -> Seq(LogLine)]
                  /\ Stacks(f, Contents(m_fileNum, files), m_fileNum)
                  /\ DiskOf(m_fileNum, files) = f[m_fileNum]
  BY <1>1, DiskStacked
<1>3. m_fileNum \in -1..m_fileNum
  BY <1>1
<1>4. f[m_fileNum] \in Seq(LogLine)
  BY <1>2, <1>3
<1> QED BY <1>2, <1>4, DiskIsDiskOf

LEMMA JournalNoWrite ==
  ASSUME Placed, FilesInv, Gone, life # "none", Disk' = Disk
  PROVE  JournalStep
<1>1. Pending = <<>> \o Pending /\ Disk = Disk \o <<>>
  BY PendingType, DiskType, LinesConcat
<1>2. SubSeq(<<>>, 1, 0) = <<>> /\ 0 \in 0..Len(<<>>) /\ <<>> \in Seq(LogLine)
  BY SubSeqEmpty, EmptySeq
<1>3. Pending \in Seq(LogLine) /\ Disk' = Disk \o SubSeq(<<>>, 1, 0)
  BY <1>1, <1>2, PendingType
<1> QED BY <1>1, <1>2, <1>3, JournalDown

LEMMA JournalClose ==
  ASSUME Placed, FilesInv, Close
  PROVE  JournalStep
<1>1. Gone /\ life # "none" /\ UNCHANGED <<m_fileNum, files>>
  BY DEF Close, Gone, settings
<1> QED BY <1>1, DiskStays, JournalNoWrite

LEMMA JournalDie ==
  ASSUME Placed, FilesInv, Drained, Die
  PROVE  JournalStep
<1>1. Gone /\ life # "none" /\ UNCHANGED m_fileNum
  BY DEF Die, Gone, settings
<1>3. CASE files' = files
  BY <1>1, <1>3, DiskStays, JournalNoWrite
<1>4. CASE files' # files
  <2>7. PICK n \in 1..Len(Writing) :
          files' \in {Written(SubSeq(Writing, 1, n)), Written(BrokenOff(Writing, n))}
    BY <1>4 DEF Die
  <2>0. PICK a \in {SubSeq(Writing, 1, n), BrokenOff(Writing, n)} : files' = Written(a)
    BY <2>7
  <2>1. deal = "write" \/ \E t \in Threads : writer[t] = "write"
    BY <2>7, EmptySeq DEF Writing
  <2>2. Current \in DOMAIN files
    BY <2>1, WritingOpen
  <2>3. PICK R \in Seq(LogLine) : Writing \in Seq(LogLine) /\ Pending = Writing \o R
    <3>1. CASE deal = "write"
      <4>1. Writing = m_pBufDeal.lines
        BY <3>1 DEF Writing
      <4>2. Pending = m_pBufDeal.lines \o Row(<<>>, Flat(m_queBufsDeal), Flat(m_queBufsWrite),
                                              m_pBufWrite.lines)
        BY PendingFirst
      <4>3. Row(<<>>, Flat(m_queBufsDeal), Flat(m_queBufsWrite), m_pBufWrite.lines) \in Seq(LogLine)
        BY PendingTypes, EmptySeq, RowType
      <4> QED BY <4>1, <4>2, <4>3, PendingTypes
    <3>2. CASE deal # "write"
      <4>1. Writing = m_pBufWrite.lines /\ ~m_bAsynLog
        BY <2>1, <3>2 DEF Writing, Placed, MutexHeld
      <4> QED BY <4>1, SyncPending, PendingTypes, LinesConcat, EmptySeq
    <3> QED BY <3>1, <3>2
  <2>4. a \in Seq(LogLine)
    BY <2>0, <2>3, FirstLines
  <2>5. Disk' = Disk \o a
    BY <1>1, <2>0, <2>2, <2>4, DiskWritten
  <2>6. n \in 0..Len(Writing) /\ n > 0
    BY <2>3, LenProperties
  <2> QED BY <1>1, <2>0, <2>3, <2>5, <2>6, JournalDown
<1> QED BY <1>3, <1>4

\* A file that is renamed to a free name.
LEMMA RenamedContents ==
  ASSUME FilesInv, NEW i \in Int, NEW j \in Int, i # j, i \in DOMAIN files, j \notin DOMAIN files,
         RenameFile(i, j)
  PROVE  /\ AreFiles(files) /\ AreFiles(files')
         /\ In(files, j) = <<>> /\ In(files', j) = In(files, i) /\ In(files', i) = <<>>
         /\ \A n \in Int \ {i, j} : In(files', n) = In(files, n)
<1>1. files \in [DOMAIN files -> Seq(LogLine)]
  BY DEF FilesInv, FilesTyped
<1>2. /\ DOMAIN files' = (DOMAIN files \ {i}) \cup {j}
      /\ \A k \in DOMAIN files' : files'[k] = IF k = j THEN files[i] ELSE files[k]
      /\ files' = [k \in DOMAIN files' |-> files'[k]]
  BY DEF RenameFile
<1>3. \A k \in DOMAIN files' : files'[k] \in Seq(LogLine)
  BY <1>1, <1>2
<1> QED BY <1>1, <1>2, <1>3 DEF AreFiles, In

LEMMA JournalRemove ==
  ASSUME FilesInv, RemoveOldest, Pending' = Pending, UNCHANGED life
  PROVE  JournalStep
<1> DEFINE old == In(files, m_fileNum)
<1>1. m_fileNum \in Nat /\ AreFiles(files) /\ UNCHANGED m_fileNum
  BY SettingsNat DEF FilesInv, FilesTyped, AreFiles, RemoveOldest, settings
<1>2. files' = [k \in DOMAIN files \ {m_fileNum} |-> files[k]]
  BY DEF RemoveOldest, RemoveFile
<1>3. /\ AreFiles(files') /\ In(files', m_fileNum) = <<>>
      /\ \A n \in -1..(m_fileNum - 1) : In(files', n) = In(files, n)
  BY <1>1, <1>2 DEF AreFiles, In
<1>4. /\ DiskOf(m_fileNum, files') \in Seq(LogLine)
      /\ DiskOf(m_fileNum, files) = old \o DiskOf(m_fileNum, files')
  BY <1>1, <1>3, DiskWithoutOldest
<1>5. Disk' \in Seq(LogLine) /\ Disk = old \o Disk'
  BY <1>1, <1>4, DiskThen, DiskIsDiskOf
<1>6. old \in Seq(LogLine)
  BY <1>1, ContentsType
<1>7. SubSeq(Disk, Len(old) + 1, Len(Disk)) = Disk' /\ Len(old) \in 0..Len(Disk)
  <2> HIDE DEF old
  <2> QED BY <1>5, <1>6, SplitAfter
<1>8. J!RemoveOld(Len(old))
  BY <1>7 DEF J!RemoveOld
<1> QED BY <1>7, <1>8 DEF JournalStep, Moved

LEMMA DiskAfterShift ==
  ASSUME FilesInv, NameFree, Shift
  PROVE  Disk' = Disk
<1>1. m_fileNum \in Nat /\ UNCHANGED m_fileNum /\ rot = "shift" /\ nLogNumIndex > 0
      /\ RenameFile(nLogNumIndex, nLogNumIndex + 1)
  BY SettingsNat DEF FilesInv, FilesTyped, Shift, settings
<1>2. nLogNumIndex \in 1..(m_fileNum - 1) /\ nLogNumIndex + 1 \notin DOMAIN files
  BY <1>1 DEF FilesInv, FilesTyped, FilesTypeOK, NameFree
<1>3. CASE nLogNumIndex \notin DOMAIN files
  BY <1>1, <1>3, DiskStays DEF RenameFile
<1>4. CASE nLogNumIndex \in DOMAIN files
  <2> DEFINE i == nLogNumIndex
  <2>1. i \in Int /\ i + 1 \in Int /\ i # i + 1 /\ i \in -1..(m_fileNum - 1)
    BY <1>1, <1>2
  <2>2. /\ AreFiles(files) /\ AreFiles(files')
        /\ In(files, i + 1) = <<>> /\ In(files', i + 1) = In(files, i) /\ In(files', i) = <<>>
        /\ \A n \in Int \ {i, i + 1} : In(files', n) = In(files, n)
    BY <1>1, <1>2, <1>4, <2>1, RenamedContents
  <2>3. \A n \in (-1..m_fileNum) \ {i, i + 1} : In(files', n) = In(files, n)
    BY <2>2
  <2> HIDE DEF i
  <2>4. DiskOf(m_fileNum, files') = DiskOf(m_fileNum, files)
    BY <1>1, <2>1, <2>2, <2>3, DiskShifted
  <2> QED BY <1>1, <2>4, DiskThen, DiskIsDiskOf
<1> QED BY <1>3, <1>4

LEMMA DiskAfterRename ==
  ASSUME Placed, FilesInv, NameFree, RenameCurrent
  PROVE  Disk' = Disk
<1>1. m_fileNum \in Nat /\ UNCHANGED m_fileNum /\ rot = "shift" /\ nLogNumIndex <= 0
      /\ RenameFile(-1, IF m_fileNum = 0 THEN 0 ELSE 1)
  BY SettingsNat DEF FilesInv, FilesTyped, RenameCurrent, settings, Current
<1>2. -1 \in DOMAIN files
  <2>1. life # "none"
    BY <1>1 DEF Placed, RotationOwned, ThreadLives, MutexHeld, Free
  <2> QED BY <1>1, <2>1 DEF FilesInv, FilesTyped, Current
<1>3. nLogNumIndex \in Int /\ nLogNumIndex >= -1
  BY <1>1 DEF FilesInv, FilesTyped, FilesTypeOK
<1>4. CASE m_fileNum = 0
  <2>1. 0 \notin DOMAIN files
    <3>1. nLogNumIndex + 1 = 0
      BY <1>1, <1>3, <1>4 DEF FilesInv, FilesTyped
    <3> QED BY <1>1, <3>1 DEF NameFree
  <2>2. /\ AreFiles(files) /\ AreFiles(files')
        /\ In(files, 0) = <<>> /\ In(files', 0) = In(files, -1) /\ In(files', -1) = <<>>
    BY <1>1, <1>2, <1>4, <2>1, RenamedContents
  <2>3. /\ -1 \in -1..(m_fileNum - 1) /\ -1 + 1 = 0
        /\ \A n \in (-1..m_fileNum) \ {-1, -1 + 1} : In(files', n) = In(files, n)
    BY <1>4
  <2>4. DiskOf(m_fileNum, files') = DiskOf(m_fileNum, files)
    BY <1>1, <2>2, <2>3, DiskShifted
  <2> QED BY <1>1, <2>4, DiskThen, DiskIsDiskOf
<1>5. CASE m_fileNum # 0
  <2>1. 1 \notin DOMAIN files /\ 0 \notin DOMAIN files
    <3>1. nLogNumIndex + 1 = 1
      BY <1>1, <1>3, <1>5 DEF FilesInv, FilesTyped
    <3> QED BY <1>1, <1>5, <3>1 DEF NameFree
  <2>2. /\ AreFiles(files) /\ AreFiles(files')
        /\ In(files, 1) = <<>> /\ In(files', 1) = In(files, -1) /\ In(files', -1) = <<>>
        /\ \A n \in Int \ {-1, 1} : In(files', n) = In(files, n)
    BY <1>1, <1>2, <1>5, <2>1, RenamedContents
  <2>3. /\ 1 <= m_fileNum /\ In(files, 0) = <<>> /\ In(files', 0) = <<>>
        /\ \A n \in 2..m_fileNum : In(files', n) = In(files, n)
    BY <1>1, <1>5, <2>1, <2>2 DEF In
  <2>4. DiskOf(m_fileNum, files') = DiskOf(m_fileNum, files)
    BY <1>1, <2>2, <2>3, DiskShiftedTwo
  <2> QED BY <1>1, <2>4, DiskThen, DiskIsDiskOf
<1> QED BY <1>4, <1>5

LEMMA JournalFiles ==
  ASSUME Placed, FilesInv, NameFree, FileStep
  PROVE  JournalStep
<1>1. Pending' = Pending /\ UNCHANGED life
  BY PendingRow DEF FileStep, ownerVars, bufVars, dealBufVars
<1>2. CASE SizeFine \/ CloseFull
  BY <1>1, <1>2, DiskStays, Quiet DEF SizeFine, CloseFull, settings
<1>3. CASE RemoveOldest
  BY <1>1, <1>3, JournalRemove
<1>4. CASE Shift
  BY <1>1, <1>4, DiskAfterShift, Quiet
<1>5. CASE RenameCurrent
  BY <1>1, <1>5, DiskAfterRename, Quiet
<1>6. CASE Reopen
  BY <1>1, <1>6, DiskOpened, Quiet DEF Reopen, settings
<1> QED BY <1>2, <1>3, <1>4, <1>5, <1>6 DEF FileStep, fileSizeCheck

\* What the refinement needs: where the buffers are, the files, what is empty when,
\* how many lines there are, and the names that are free.
JournalInv == Placed /\ FilesInv /\ Drained /\ LineCount /\ NameFree

LEMMA JournalInitial == Init => J!JournalInit
<1> SUFFICES ASSUME Init PROVE J!JournalInit
  OBVIOUS
<1>1. Pending = <<>>
  <2>1. m_pBufDeal.lines = <<>> /\ m_queBufsDeal = <<>> /\ m_queBufsWrite = <<>>
        /\ m_pBufWrite.lines = <<>>
    BY NoLinesIn DEF Init
  <2> QED BY <2>1, NothingPending
<1>2. Disk = <<>>
  <2>1. m_fileNum \in Nat /\ DOMAIN files = {}
    BY FilesAssumption DEF Init, FilesInit
  <2>2. AreFiles(files) /\ \A n \in -1..m_fileNum : In(files, n) = <<>>
    BY <2>1 DEF AreFiles, In, Init, FilesInit
  <2>3. PICK f : /\ f \in [-1..m_fileNum -> Seq(LogLine)]
                 /\ Stacks(f, Contents(m_fileNum, files), m_fileNum)
                 /\ DiskOf(m_fileNum, files) = f[m_fileNum]
    BY <2>1, <2>2, DiskStacked
  <2> DEFINE e == [n \in -1..m_fileNum |-> <<>>]
  <2>4. Contents(m_fileNum, files) = e
    BY <2>2 DEF Contents
  <2>5. Stacks(e, e, m_fileNum)
    <3>1. <<>> \o <<>> = <<>>
      BY LinesConcat
    <3> QED BY <2>1, <3>1 DEF Stacks
  <2>6. m_fileNum \in Int /\ m_fileNum \in -1..m_fileNum
    BY <2>1
  <2>7. e[m_fileNum] = <<>> /\ \A k \in -1..m_fileNum : e[k] = e[k]
    BY <2>6
  <2>8. f[m_fileNum] = e[m_fileNum]
    <3> HIDE DEF e
    <3>1. Agree(f, e, e, e, m_fileNum)
      BY <2>3, <2>4, <2>5, <2>6, StacksAgree
    <3> QED BY <2>6, <3>1 DEF Agree
  <2> QED BY <2>3, <2>7, <2>8, DiskIsDiskOf
<1>3. life = "none"
  BY DEF Init
<1> QED BY <1>1, <1>2, <1>3 DEF J!JournalInit

LEMMA JournalSteps ==
  ASSUME JournalInv, [Next]_vars
  PROVE  JournalStep
<1> USE DEF JournalInv
<1>1. CASE \E t \in Threads : logWrite(t)
  <2>1. PICK t \in Threads : logWrite(t)
    BY <1>1
  <2>2. CASE PushWrite(t)
    BY <2>2, JournalPushWrite
  <2>3. CASE TakeEmpty(t)
    BY <2>3, JournalTakeEmpty
  <2>4. CASE Put(t)
    BY <2>4, JournalPut
  <2>5. CASE WriteLine(t)
    BY <2>5, JournalWriteLine
  <2>6. CASE LineWritten(t)
    BY <2>6, JournalNothing
  <2> QED BY <2>1, <2>2, <2>3, <2>4, <2>5, <2>6 DEF logWrite
<1>2. CASE dealThread
  <2>1. CASE Looking
    BY <2>1, JournalNothing
  <2>2. CASE Swap
    BY <2>2, JournalSwap
  <2>3. CASE NextBuf
    BY <2>3, JournalNextBuf
  <2>4. CASE WriteBuf
    BY <2>4, JournalWriteBuf
  <2>5. CASE Recycle
    BY <2>5, JournalRecycle
  <2> QED BY <1>2, <2>1, <2>2, <2>3, <2>4, <2>5 DEF dealThread, Looking
<1>3. CASE FileStep
  BY <1>3, JournalFiles
<1>4. CASE Start
  BY <1>4, JournalStart
<1>5. CASE Stop \/ Lower \/ Join \/ UNCHANGED vars
  BY <1>5, JournalNothing
<1>6. CASE Close
  BY <1>6, JournalClose
<1>7. CASE Die
  BY <1>7, JournalDie
<1> QED BY <1>1, <1>2, <1>3, <1>4, <1>5, <1>6, <1>7 DEF Next

LEMMA JournalInvCorrect == Spec => []JournalInv
<1>1. Init => JournalInv
  BY PlacedInit, FilesInitHolds, DrainedInit, LineCountInit, NameFreeInit DEF JournalInv
<1>2. JournalInv /\ [Next]_vars => JournalInv'
  BY PlacedStep, FilesStep, DrainedStep, LineCountStep, NameFreeStep DEF JournalInv, FilesInv
<1> QED BY <1>1, <1>2, PTL DEF Spec

\* For any threads, sizes and settings, over any deaths and restarts, lines come to
\* the disk in the order in which they were logged, none twice and none left out but
\* those in the buffers of a logger that goes down, and only the oldest file is ever
\* removed (logWrite, dealThread, fileSizeCheck).
THEOREM ImplementsJournalCorrect == Spec => ImplementsJournal
<1>1. JournalInv /\ [Next]_vars => [J!JournalNext]_(J!journalVars)
  BY JournalSteps DEF JournalStep, Moved, J!JournalNext
<1> QED BY <1>1, JournalInvCorrect, JournalInitial, PTL
        DEF Spec, ImplementsJournal, J!JournalSpec

----------------------------------------------------------------------------
(* The numbers of the lines *)

\* Lines come in the order of their numbers; all of p come before all of q; no line is
\* later than line n.
Rising(q) == \A i, j \in 1..Len(q) : i < j => q[i].no < q[j].no
Before(p, q) == \A i \in 1..Len(p), j \in 1..Len(q) : p[i].no < q[j].no
UpTo(q, n) == \A i \in 1..Len(q) : q[i].no <= n

\* What is on the disk and what is pending, over all deaths and restarts.
LinesInOrder == Rising(Disk \o Pending)

NumbersInv ==
  /\ Rising(Disk) /\ Rising(Pending) /\ Before(Disk, Pending)
  /\ UpTo(Disk, logged) /\ UpTo(Pending, logged)

\* The parts of a row of lines that is cut in two.
Parts(q, a, b) ==
  /\ a \in Seq(LogLine) /\ b \in Seq(LogLine)
  /\ Rising(q) => Rising(a) /\ Rising(b) /\ Before(a, b)
  /\ \A i \in 1..Len(a) : \E k \in 1..Len(q) : a[i].no = q[k].no
  /\ \A i \in 1..Len(b) : \E k \in 1..Len(q) : b[i].no = q[k].no

LEMMA CutInOrder ==
  ASSUME NEW q \in Seq(LogLine), NEW n \in 0..Len(q), NEW a \in Seq(LogLine),
         Len(a) = n, \A i \in 1..n : a[i].no = q[i].no
  PROVE  Parts(q, a, SubSeq(q, n + 1, Len(q)))
<1> DEFINE b == SubSeq(q, n + 1, Len(q))
<1>1. Len(q) \in Nat /\ n \in Nat
  BY LenProperties
<1>3. b \in Seq(LogLine) /\ Len(b) = Len(q) - n /\ \A i \in 1..(Len(q) - n) : b[i] = q[n + i]
  <2>1. /\ n + 1 \in 1..(Len(q) + 1) /\ Len(q) \in (n + 1 - 1)..Len(q)
        /\ Len(q) - (n + 1) + 1 = Len(q) - n
        /\ \A i \in 1..(Len(q) - n) : (n + 1) + i - 1 = n + i
    BY <1>1
  <2>2. /\ b \in Seq(LogLine)
        /\ Len(b) = IF n + 1 <= Len(q) THEN Len(q) - (n + 1) + 1 ELSE 0
        /\ \A i \in 1..(Len(q) - (n + 1) + 1) : b[i] = q[(n + 1) + i - 1]
    BY <2>1, SubSeqProperties
  <2> HIDE DEF b
  <2>3. Len(b) = Len(q) - n
    BY <1>1, <2>2
  <2> QED BY <2>1, <2>2, <2>3
<1> HIDE DEF b
<1>4. /\ \A i \in 1..Len(a) : i \in 1..Len(q) /\ i <= n
      /\ \A i \in 1..Len(b) : n + i \in 1..Len(q) /\ n + i > n
  BY <1>1, <1>3
<1>5. ASSUME Rising(q) PROVE Rising(a) /\ Rising(b) /\ Before(a, b)
  <2>1. Rising(a)
    BY <1>4, <1>5 DEF Rising
  <2>2. Rising(b)
    <3> SUFFICES ASSUME NEW i \in 1..Len(b), NEW j \in 1..Len(b), i < j
                 PROVE  b[i].no < b[j].no
      BY DEF Rising
    <3>1. n + i < n + j
      BY <1>1
    <3>2. q[n + i].no < q[n + j].no
      BY <1>4, <1>5, <3>1 DEF Rising
    <3> QED BY <1>3, <3>2
  <2>3. Before(a, b)
    <3> SUFFICES ASSUME NEW i \in 1..Len(a), NEW j \in 1..Len(b)
                 PROVE  a[i].no < b[j].no
      BY DEF Before
    <3>1. i < n + j
      BY <1>1, <1>4
    <3>2. q[i].no < q[n + j].no
      BY <1>4, <1>5, <3>1 DEF Rising
    <3> QED BY <1>3, <3>2
  <2> QED BY <2>1, <2>2, <2>3
<1>6. /\ \A i \in 1..Len(a) : \E k \in 1..Len(q) : a[i].no = q[k].no
      /\ \A i \in 1..Len(b) : \E k \in 1..Len(q) : b[i].no = q[k].no
  BY <1>3, <1>4
<1> QED BY <1>3, <1>5, <1>6 DEF Parts, b

LEMMA FirstPart ==
  ASSUME NEW q \in Seq(LogLine), NEW n \in 0..Len(q), NEW a,
         a = SubSeq(q, 1, n) \/ (n > 0 /\ a = BrokenOff(q, n))
  PROVE  a \in Seq(LogLine) /\ Len(a) = n /\ \A i \in 1..n : a[i].no = q[i].no
<1>1. Len(q) \in Nat /\ n \in Nat
  BY LenProperties
<1>2. CASE n > 0
  <2>1. n \in 1..Len(q)
    BY <1>1, <1>2
  <2> QED BY <1>2, <2>1, FirstLines
<1>3. CASE n = 0
  <2>1. a = <<>>
    BY <1>3
  <2> QED BY <1>3, <2>1, EmptySeq
<1> QED BY <1>1, <1>2, <1>3

LEMMA JoinElements ==
  ASSUME NEW p \in Seq(LogLine), NEW q \in Seq(LogLine)
  PROVE  /\ Len(p) \in Nat /\ Len(q) \in Nat /\ Len(p \o q) = Len(p) + Len(q)
         /\ \A i \in 1..Len(p \o q) :
              \/ i \in 1..Len(p) /\ (p \o q)[i] = p[i]
              \/ i - Len(p) \in 1..Len(q) /\ (p \o q)[i] = q[i - Len(p)]
<1> DEFINE r == p \o q
<1>1. /\ Len(p) \in Nat /\ Len(q) \in Nat /\ Len(r) = Len(p) + Len(q)
      /\ \A i \in 1..(Len(p) + Len(q)) :
           r[i] = IF i <= Len(p) THEN p[i] ELSE q[i - Len(p)]
  BY LenProperties, ConcatProperties
<1> HIDE DEF r
<1>2. ASSUME NEW i \in 1..Len(r)
      PROVE  \/ i \in 1..Len(p) /\ i <= Len(p)
             \/ i - Len(p) \in 1..Len(q) /\ ~(i <= Len(p))
  <2> DEFINE m == Len(p)
             l == Len(q)
  <2>1. m \in Nat /\ l \in Nat /\ i \in 1..(m + l)
    BY <1>1
  <2> HIDE DEF m, l
  <2>2. \/ i \in 1..m /\ i <= m
        \/ i - m \in 1..l /\ ~(i <= m)
    BY <2>1
  <2> QED BY <2>2 DEF m, l
<1> QED BY <1>1, <1>2 DEF r

LEMMA JoinInOrder ==
  ASSUME NEW p \in Seq(LogLine), NEW q \in Seq(LogLine)
  PROVE  /\ Rising(p) /\ Rising(q) /\ Before(p, q) => Rising(p \o q)
         /\ \A r : Before(p, r) /\ Before(q, r) => Before(p \o q, r)
         /\ \A n : UpTo(p, n) /\ UpTo(q, n) => UpTo(p \o q, n)
<1> DEFINE s == p \o q
           m == Len(p)
<1>1. /\ m \in Nat /\ Len(q) \in Nat /\ Len(s) = m + Len(q)
      /\ \A i \in 1..Len(s) : \/ i \in 1..Len(p) /\ s[i] = p[i]
                              \/ i - m \in 1..Len(q) /\ s[i] = q[i - m]
  BY JoinElements
<1> HIDE DEF s
<1>2. ASSUME Rising(p), Rising(q), Before(p, q) PROVE Rising(s)
  <2> SUFFICES ASSUME NEW i \in 1..Len(s), NEW j \in 1..Len(s), i < j
               PROVE  s[i].no < s[j].no
    BY DEF Rising
  <2>1. CASE j \in 1..Len(p) /\ s[j] = p[j]
    <3>1. i \in 1..Len(p) /\ ~(i - m \in 1..Len(q))
      BY <1>1, <2>1
    <3>2. s[i] = p[i] /\ p[i].no < p[j].no
      BY <1>1, <1>2, <2>1, <3>1 DEF Rising
    <3> QED BY <2>1, <3>2
  <2>2. CASE j - m \in 1..Len(q) /\ s[j] = q[j - m]
    <3>1. CASE i \in 1..Len(p) /\ s[i] = p[i]
      <4>1. p[i].no < q[j - m].no
        BY <1>2, <2>2, <3>1 DEF Before
      <4> QED BY <2>2, <3>1, <4>1
    <3>2. CASE i - m \in 1..Len(q) /\ s[i] = q[i - m]
      <4>1. i - m < j - m
        BY <1>1
      <4>2. q[i - m].no < q[j - m].no
        BY <1>2, <2>2, <3>2, <4>1 DEF Rising
      <4> QED BY <2>2, <3>2, <4>2
    <3> QED BY <1>1, <3>1, <3>2
  <2> QED BY <1>1, <2>1, <2>2
<1>3. ASSUME NEW r, Before(p, r), Before(q, r) PROVE Before(s, r)
  <2> SUFFICES ASSUME NEW i \in 1..Len(s), NEW j \in 1..Len(r) PROVE s[i].no < r[j].no
    BY DEF Before
  <2>1. CASE i \in 1..Len(p) /\ s[i] = p[i]
    <3>1. p[i].no < r[j].no
      BY <1>3, <2>1 DEF Before
    <3> QED BY <2>1, <3>1
  <2>2. CASE i - m \in 1..Len(q) /\ s[i] = q[i - m]
    <3>1. q[i - m].no < r[j].no
      BY <1>3, <2>2 DEF Before
    <3> QED BY <2>2, <3>1
  <2> QED BY <1>1, <2>1, <2>2
<1>4. ASSUME NEW n, UpTo(p, n), UpTo(q, n) PROVE UpTo(s, n)
  <2> SUFFICES ASSUME NEW i \in 1..Len(s) PROVE s[i].no <= n
    BY DEF UpTo
  <2>1. CASE i \in 1..Len(p) /\ s[i] = p[i]
    <3>1. p[i].no <= n
      BY <1>4, <2>1 DEF UpTo
    <3> QED BY <2>1, <3>1
  <2>2. CASE i - m \in 1..Len(q) /\ s[i] = q[i - m]
    <3>1. q[i - m].no <= n
      BY <1>4, <2>2 DEF UpTo
    <3> QED BY <2>2, <3>1
  <2> QED BY <1>1, <2>1, <2>2
<1> QED BY <1>2, <1>3, <1>4 DEF s

\* Only a line that is put changes the number of the last line.
LEMMA LoggedGrows ==
  ASSUME [Next]_vars PROVE logged' = logged \/ logged' = logged + 1
<1>1. CASE \E t \in Threads : logWrite(t)
  BY <1>1 DEF logWrite, PushWrite, TakeEmpty, Put, WriteLine, LineWritten
<1>2. CASE dealThread
  BY <1>2 DEF dealThread, TestRunning, TestBuf, TestQueue, Wait, WakeUp, Look, LookQueue,
     DealOnly, Swap, NextBuf, WriteBuf, Recycle
<1>3. CASE FileStep
  BY <1>3 DEF FileStep
<1>4. CASE Start \/ Stop \/ Lower \/ Join \/ UNCHANGED vars
  BY <1>4 DEF Start, Stop, Lower, Join, vars
<1>5. CASE Close \/ Die
  BY <1>5 DEF Close, Die, Gone
<1> QED BY <1>1, <1>2, <1>3, <1>4, <1>5 DEF Next

LEMMA LineNumber ==
  ASSUME NEW q \in Seq(LogLine), NEW i \in 1..Len(q)
  PROVE  q[i].no \in Nat
<1>1. q[i] \in LogLine
  BY ElementOfSeq
<1>2. \A line \in LogLine : line.no \in Nat
  BY DEF LogLine
<1> QED BY <1>1, <1>2

LEMMA NumbersLogged ==
  ASSUME Disk \in Seq(LogLine), Pending \in Seq(LogLine), logged \in Nat, NumbersInv,
         NEW line \in LogLine, line.no = logged + 1,
         Disk' = Disk, Pending' = Append(Pending, line), logged' = logged + 1
  PROVE  NumbersInv'
<1> DEFINE x == logged + 1
           X == <<line>>
<1>1. x \in Nat /\ X \in Seq(LogLine) /\ Len(X) = 1 /\ X[1].no = x
  OBVIOUS
<1>2. Pending' = Pending \o X
  BY <1>1, AppendIsConcat
<1>3. \A i \in 1..Len(Disk) : Disk[i].no \in Nat /\ Disk[i].no <= logged /\ Disk[i].no < x
  BY LineNumber DEF NumbersInv, UpTo
<1>4. \A i \in 1..Len(Pending) :
        Pending[i].no \in Nat /\ Pending[i].no <= logged /\ Pending[i].no < x
  BY LineNumber DEF NumbersInv, UpTo
<1> HIDE DEF X
<1>5. Rising(X) /\ Before(Pending, X) /\ Before(Disk, X) /\ UpTo(X, x)
  BY <1>1, <1>3, <1>4 DEF Rising, Before, UpTo
<1>6. UpTo(Pending, x) /\ UpTo(Disk, x)
  BY <1>3, <1>4 DEF UpTo
<1>7. Rising(Pending \o X) /\ UpTo(Pending \o X, x)
  BY <1>1, <1>5, <1>6, JoinInOrder DEF NumbersInv
<1>8. Before(Disk, Pending \o X)
  <2>1. \A i \in 1..Len(Pending \o X) :
          \/ i \in 1..Len(Pending) /\ (Pending \o X)[i] = Pending[i]
          \/ i - Len(Pending) \in 1..Len(X)
             /\ (Pending \o X)[i] = X[i - Len(Pending)]
    BY <1>1, JoinElements
  <2> QED BY <1>5, <2>1 DEF NumbersInv, Before
<1> HIDE DEF x
<1> QED BY <1>2, <1>6, <1>7, <1>8 DEF NumbersInv, x

LEMMA NumbersMoved ==
  ASSUME Disk \in Seq(LogLine), Pending \in Seq(LogLine), logged \in Nat, NumbersInv, Moved,
         logged' = logged \/ logged' = logged + 1
  PROVE  NumbersInv'
<1>0. ASSUME NEW q \in Seq(LogLine), UpTo(q, logged) PROVE UpTo(q, logged')
  <2> SUFFICES ASSUME NEW i \in 1..Len(q) PROVE q[i].no <= logged'
    BY DEF UpTo
  <2>1. q[i].no \in Nat /\ q[i].no <= logged
    BY <1>0, LineNumber DEF UpTo
  <2> QED BY <2>1
<1>1. ASSUME NEW n \in 0..Len(Pending), J!Store(n) \/ J!GoDown(n)
      PROVE  NumbersInv'
  <2> DEFINE b == SubSeq(Pending, n + 1, Len(Pending))
  <2>0. PICK a : /\ a = SubSeq(Pending, 1, n) \/ (n > 0 /\ a = BrokenOff(Pending, n))
                 /\ Disk' = Disk \o a
    BY <1>1 DEF J!Store, J!GoDown, J!Stored, J!BrokenOff, BrokenOff
  <2>1. Parts(Pending, a, b)
    <3>1. /\ a \in Seq(LogLine) /\ Len(a) = n
          /\ \A i \in 1..n : a[i].no = Pending[i].no
      BY <2>0, FirstPart
    <3> QED BY <3>1, CutInOrder
  <2>2. Disk' = Disk \o a /\ Pending' \in {b, <<>>}
    BY <1>1, <2>0 DEF J!Store, J!GoDown
  <2> HIDE DEF b
  <2>3. /\ a \in Seq(LogLine) /\ b \in Seq(LogLine) /\ Rising(a) /\ Rising(b) /\ Before(a, b)
        /\ Before(Disk, a) /\ Before(Disk, b) /\ UpTo(a, logged) /\ UpTo(b, logged)
    BY <2>1 DEF Parts, NumbersInv, Before, UpTo
  <2>4. Rising(Disk') /\ Before(Disk', b) /\ UpTo(Disk', logged')
    <3>1. Rising(Disk \o a) /\ Before(Disk \o a, b)
      BY <2>3, JoinInOrder DEF NumbersInv
    <3>2. UpTo(Disk, logged') /\ UpTo(a, logged')
      BY <1>0, <2>3 DEF NumbersInv
    <3> QED BY <2>2, <2>3, <3>1, <3>2, JoinInOrder
  <2>5. Rising(b) /\ UpTo(b, logged')
    BY <1>0, <2>3
  <2>6. Rising(<<>>) /\ Before(Disk', <<>>) /\ UpTo(<<>>, logged')
    BY DEF Rising, Before, UpTo
  <2>7. Rising(Pending') /\ Before(Disk', Pending') /\ UpTo(Pending', logged')
    BY <2>2, <2>4, <2>5, <2>6
  <2> QED BY <2>4, <2>7 DEF NumbersInv
<1>2. ASSUME NEW n \in 0..Len(Disk), J!RemoveOld(n)
      PROVE  NumbersInv'
  <2> DEFINE a == SubSeq(Disk, 1, n)
             b == SubSeq(Disk, n + 1, Len(Disk))
  <2>0. a \in Seq(LogLine) /\ Len(a) = n /\ \A i \in 1..n : a[i].no = Disk[i].no
    BY FirstPart
  <2>1. Parts(Disk, a, b)
    BY <2>0, CutInOrder
  <2>2. Disk' = b /\ Pending' = Pending
    BY <1>2 DEF J!RemoveOld
  <2> HIDE DEF a, b
  <2>3. b \in Seq(LogLine) /\ Rising(b) /\ Before(b, Pending) /\ UpTo(b, logged)
    BY <2>1 DEF Parts, NumbersInv, Before, UpTo
  <2>4. UpTo(b, logged') /\ UpTo(Pending, logged')
    BY <1>0, <2>3 DEF NumbersInv
  <2> QED BY <2>2, <2>3, <2>4 DEF NumbersInv
<1>3. CASE UNCHANGED <<Pending, Disk>>
  <2>1. UpTo(Disk, logged') /\ UpTo(Pending, logged')
    BY <1>0 DEF NumbersInv
  <2> QED BY <1>3, <2>1 DEF NumbersInv
<1> QED BY <1>1, <1>2, <1>3 DEF Moved, J!GoUp, J!journalVars

\* Whatever the threads, the settings, the rotations, the deaths and the restarts, the
\* files in order and then the lines still in the buffers have the numbers of the lines
\* in the order in which logWrite gave them, none twice.
THEOREM LinesInOrderCorrect == Spec => []LinesInOrder
<1>1. Init => NumbersInv
  <2> SUFFICES ASSUME Init PROVE NumbersInv
    OBVIOUS
  <2>1. Disk = <<>> /\ Pending = <<>>
    BY JournalInitial DEF J!JournalInit
  <2> QED BY <2>1 DEF NumbersInv, Rising, Before, UpTo
<1>2. JournalInv /\ NumbersInv /\ [Next]_vars => NumbersInv'
  <2> SUFFICES ASSUME JournalInv, NumbersInv, [Next]_vars PROVE NumbersInv'
    OBVIOUS
  <2>1. Disk \in Seq(LogLine) /\ Pending \in Seq(LogLine) /\ logged \in Nat
    BY DiskType, PendingType DEF JournalInv, Placed, BuffersPlaced
  <2>2. JournalStep
    BY JournalSteps
  <2>3. CASE Moved
    BY <2>1, <2>3, LoggedGrows, NumbersMoved
  <2>4. ASSUME NEW line \in Lines \cap LogLine, line.no = logged + 1, J!Log(line),
               logged' = logged + 1
        PROVE  NumbersInv'
    <3>1. Disk' = Disk /\ Pending' = Append(Pending, line)
      BY <2>4 DEF J!Log
    <3> QED BY <2>1, <2>4, <3>1, NumbersLogged
  <2> QED BY <2>2, <2>3, <2>4 DEF JournalStep
<1>3. JournalInv /\ NumbersInv => LinesInOrder
  <2> SUFFICES ASSUME JournalInv, NumbersInv PROVE LinesInOrder
    OBVIOUS
  <2>1. Disk \in Seq(LogLine) /\ Pending \in Seq(LogLine)
    BY DiskType, PendingType DEF JournalInv
  <2> QED BY <2>1, JoinInOrder DEF NumbersInv, LinesInOrder
<1> QED BY <1>1, <1>2, <1>3, JournalInvCorrect, PTL DEF Spec
=============================================================================
