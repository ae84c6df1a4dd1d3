------------------------- MODULE SharedRing_proofs --------------------------
(***************************************************************************)
(* What is proved of SharedRing for every capacity, modulus, threshold and *)
(* set of contents.                                                        *)
(***************************************************************************)
EXTENDS SharedRing, SequenceTheorems, TLAPS

-----------------------------------------------------------------------------
(* Arithmetic of the sequence numbers.                                     *)
LEMMA AdvanceType ==
    ASSUME NEW s \in Seqs, NEW n \in 0 .. Capacity
    PROVE  Advance(s, n) \in Seqs
BY RingAssumption DEF Seqs, Advance

LEMMA OffsetType ==
    ASSUME NEW s \in Int
    PROVE  s % Capacity \in 0 .. Capacity - 1
BY RingAssumption

(* A frame is never NoFrame: it has room for its header.                   *)
LEMMA FrameSize ==
    /\ \A f \in Frames : f.size \in 0 .. Capacity /\ f.size >= HeaderSize
    /\ NoFrame.size = 0 /\ NoFrame \notin Frames
BY RingAssumption DEF Frames, NoFrame

LEMMA ThreadFacts ==
    /\ Writer \in Threads /\ Reader \in Threads /\ Writer # Reader
    /\ \A t \in Threads : t = Writer \/ t = Reader
    /\ \A t \in Threads : Other(t) \in Threads /\ Other(t) # t
BY DEF Threads, Writer, Reader, Other

LEMMA ValueFacts ==
    /\ 0 \in Seqs
    /\ {Open, Closing, Closed, Errored} \subseteq TransportState
BY RingAssumption DEF Seqs, TransportState, Open, Closing, Closed, Errored

LEMMA LabelFacts ==
    /\ "idle" \in Points /\ "asleep" \in Points /\ "granted" \in Points
    /\ "holding" \in Points /\ "sampleRead" \in Points /\ "sampleWrite" \in Points
    /\ "sampleLock" \in Points /\ "top" \in Points /\ "nRead" \in Points
    /\ "nWrite" \in Points /\ "nCas" \in Points /\ "nReread" \in Points
    /\ "nRewrite" \in Points /\ "nZeroRead" \in Points /\ "nZeroWrite" \in Points
    /\ "nUnlock" \in Points /\ "expect" \in Points /\ "lock1" \in Points
    /\ "loadRead" \in Points /\ "loadWrite" \in Points /\ "lock2" \in Points
    /\ "acquire" \in Points /\ "recheck" \in Points /\ "register" \in Points
    /\ "store" \in Points /\ "add" \in Points /\ "notify" \in Points
    /\ "none" \in CallPoints /\ "mark" \in CallPoints /\ "addData" \in CallPoints
    /\ "notifyData" \in CallPoints /\ "addSpace" \in CallPoints /\ "notifySpace" \in CallPoints
BY DEF Points, AwaitPoints, SyncPoints, CallPoints

-----------------------------------------------------------------------------
(* Type correctness.  A send that is under way has a frame.                *)
IType == TypeOK /\ (pc[Writer] # "idle" => frame \in Frames)

LEMMA TypeInit == Init => IType
<1> SUFFICES ASSUME Init PROVE IType
  OBVIOUS
<1> USE RingAssumption, ThreadFacts, ValueFacts, LabelFacts DEF Init
<1>1. mem \in [0 .. Capacity - 1 -> Cells]
  BY DEF Cells
<1>2. queue \in Seq(Frames)
  OBVIOUS
<1>3. /\ pc \in [Threads -> Points] /\ call \in [Threads -> CallPoints]
      /\ goal \in [Threads -> TransportState]
      /\ ret \in [Threads -> {"idle", "top", "expect", "holding", "sampleRead"}]
  OBVIOUS
<1>4. rs \in [Threads -> Seqs] /\ ws \in [Threads -> Seqs] /\ seen \in [Threads -> Seqs]
  OBVIOUS
<1>5. /\ fresh \in [Threads -> BOOLEAN] /\ waiting \in [Threads -> BOOLEAN]
      /\ closed \in [Threads -> BOOLEAN] /\ abandoned \in 0 .. MaxAbandoned
  OBVIOUS
<1>6. /\ readSeq \in Seqs /\ writeSeq \in Seqs /\ state \in TransportState /\ lock \in {0, 1}
      /\ frame \in Frames \cup {NoFrame} /\ view \in Frames \cup {NoFrame} /\ overlap \in BOOLEAN
      /\ pc[Writer] = "idle"
  OBVIOUS
<1> QED
  BY <1>1, <1>2, <1>3, <1>4, <1>5, <1>6 DEF IType, TypeOK

(* What the shared parts of the actions leave well typed.                  *)
LEMMA EndOperationType ==
    ASSUME IType, NEW t \in Threads, EndOperation(t)
    PROVE  /\ pc' \in [Threads -> Points]
           /\ ret' \in [Threads -> {"idle", "top", "expect", "holding", "sampleRead"}]
           /\ rs' \in [Threads -> Seqs] /\ ws' \in [Threads -> Seqs] /\ seen' \in [Threads -> Seqs]
           /\ frame' \in Frames \cup {NoFrame} /\ view' \in Frames \cup {NoFrame}
           /\ pc'[Writer] # "idle" => frame' \in Frames
<1> USE ThreadFacts, ValueFacts, LabelFacts DEF IType, TypeOK, EndOperation, Goto
<1>1. pc' \in [Threads -> Points] /\ (pc'[Writer] # "idle" => frame' \in Frames)
  OBVIOUS
<1>2. ret' \in [Threads -> {"idle", "top", "expect", "holding", "sampleRead"}]
  OBVIOUS
<1>3. rs' \in [Threads -> Seqs] /\ ws' \in [Threads -> Seqs] /\ seen' \in [Threads -> Seqs]
  OBVIOUS
<1>4. frame' \in Frames \cup {NoFrame} /\ view' \in Frames \cup {NoFrame}
  OBVIOUS
<1> QED
  BY <1>1, <1>2, <1>3, <1>4

LEMMA RetryType ==
    ASSUME IType, NEW t \in Threads, Retry(t), pc[t] # "idle"
    PROVE  /\ pc' \in [Threads -> Points]
           /\ rs' \in [Threads -> Seqs] /\ ws' \in [Threads -> Seqs]
           /\ fresh' \in [Threads -> BOOLEAN]
           /\ pc'[Writer] # "idle" => frame \in Frames
<1> USE ThreadFacts, ValueFacts, LabelFacts DEF IType, TypeOK, Retry, Goto
<1>1. pc' \in [Threads -> Points] /\ (pc'[Writer] # "idle" => frame \in Frames)
  OBVIOUS
<1>2. rs' \in [Threads -> Seqs] /\ ws' \in [Threads -> Seqs] /\ fresh' \in [Threads -> BOOLEAN]
  OBVIOUS
<1> QED
  BY <1>1, <1>2

LEMMA SampleDoneType ==
    ASSUME IType, NEW t \in Threads, SampleDone(t), pc[t] # "idle"
    PROVE  /\ pc' \in [Threads -> Points]
           /\ ret' \in [Threads -> {"idle", "top", "expect", "holding", "sampleRead"}]
           /\ rs' \in [Threads -> Seqs] /\ ws' \in [Threads -> Seqs] /\ seen' \in [Threads -> Seqs]
           /\ frame' \in Frames \cup {NoFrame} /\ view' \in Frames \cup {NoFrame}
           /\ pc'[Writer] # "idle" => frame' \in Frames
<1>1. CASE EndOperation(t)
  BY <1>1, EndOperationType
<1>2. CASE ~EndOperation(t)
  <2> USE <1>2, ThreadFacts, ValueFacts, LabelFacts DEF IType, TypeOK, SampleDone, Goto
  <2>1. pc' \in [Threads -> Points] /\ (pc'[Writer] # "idle" => frame' \in Frames)
    OBVIOUS
  <2>2. /\ ret' \in [Threads -> {"idle", "top", "expect", "holding", "sampleRead"}]
        /\ seen' \in [Threads -> Seqs]
    OBVIOUS
  <2> QED
    BY <2>1, <2>2
<1> QED
  BY <1>1, <1>2

LEMMA NormalizeReturnType ==
    ASSUME IType, NEW t \in Threads, NormalizeReturn(t), pc[t] # "idle"
    PROVE  /\ pc' \in [Threads -> Points]
           /\ ret' \in [Threads -> {"idle", "top", "expect", "holding", "sampleRead"}]
           /\ seen' \in [Threads -> Seqs]
           /\ pc'[Writer] # "idle" => frame \in Frames
<1> USE ThreadFacts, ValueFacts, LabelFacts DEF IType, TypeOK, NormalizeReturn, Goto
<1>1. pc' \in [Threads -> Points] /\ (pc'[Writer] # "idle" => frame \in Frames)
  OBVIOUS
<1>2. /\ ret' \in [Threads -> {"idle", "top", "expect", "holding", "sampleRead"}]
      /\ seen' \in [Threads -> Seqs]
  OBVIOUS
<1> QED
  BY <1>1, <1>2

LEMMA TypeStep == IType /\ [Next]_vars => IType'
<1> SUFFICES ASSUME IType, [Next]_vars PROVE IType'
  OBVIOUS
<1> USE ThreadFacts, ValueFacts, LabelFacts DEF IType, TypeOK, At, Goto, seqVars, localVars, waitVars, callVars,
    dataVars
<1>1. CASE Next
  <2>1. ASSUME NEW t \in Threads, SampleRead(t) PROVE IType'
    BY <2>1 DEF SampleRead
  <2>2. ASSUME NEW t \in Threads, SampleWrite(t) PROVE IType'
    <3>1. CASE SampleDone(t)
      BY <2>2, <3>1, SampleDoneType DEF SampleWrite
    <3>2. CASE ~SampleDone(t)
      BY <2>2, <3>2 DEF SampleWrite
    <3> QED
      BY <3>1, <3>2
  <2>3. ASSUME NEW t \in Threads, SampleLock(t) PROVE IType'
    <3>1. call' \in [Threads -> CallPoints] /\ goal' \in [Threads -> TransportState]
      BY <2>3 DEF SampleLock
    <3> QED
      BY <2>3, <3>1, SampleDoneType DEF SampleLock
  <2>4. ASSUME NEW t \in Threads, NormalizeRead(t) PROVE IType'
    <3>1. CASE NormalizeReturn(t)
      BY <2>4, <3>1, NormalizeReturnType DEF NormalizeRead
    <3>2. CASE ~NormalizeReturn(t)
      <4>1. pc' \in [Threads -> Points] /\ (pc'[Writer] # "idle" => frame \in Frames)
        BY <2>4, <3>2 DEF NormalizeRead
      <4>2. seen' \in [Threads -> Seqs] /\ ret' = ret
        BY <2>4, <3>2 DEF NormalizeRead
      <4> QED
        BY <2>4, <4>1, <4>2 DEF NormalizeRead
    <3> QED
      BY <3>1, <3>2
  <2>5. ASSUME NEW t \in Threads, NormalizeWrite(t) PROVE IType'
    <3>1. CASE NormalizeReturn(t)
      BY <2>5, <3>1, NormalizeReturnType DEF NormalizeWrite
    <3>2. CASE ~NormalizeReturn(t)
      BY <2>5, <3>2 DEF NormalizeWrite
    <3> QED
      BY <3>1, <3>2
  <2>6. ASSUME NEW t \in Threads, NormalizeLock(t) PROVE IType'
    <3>1. CASE NormalizeReturn(t)
      BY <2>6, <3>1, NormalizeReturnType DEF NormalizeLock
    <3>2. CASE ~NormalizeReturn(t)
      BY <2>6, <3>2 DEF NormalizeLock
    <3> QED
      BY <3>1, <3>2
  <2>7. ASSUME NEW t \in Threads, NormalizeReread(t) PROVE IType'
    BY <2>7 DEF NormalizeReread
  <2>8. ASSUME NEW t \in Threads, NormalizeRewrite(t) PROVE IType'
    BY <2>8 DEF NormalizeRewrite
  <2>9. ASSUME NEW t \in Threads, NormalizeZeroRead(t) PROVE IType'
    BY <2>9 DEF NormalizeZeroRead
  <2>10. ASSUME NEW t \in Threads, NormalizeZeroWrite(t) PROVE IType'
    BY <2>10 DEF NormalizeZeroWrite
  <2>11. ASSUME NEW t \in Threads, NormalizeUnlock(t) PROVE IType'
    BY <2>11, NormalizeReturnType DEF NormalizeUnlock
  <2>12. ASSUME NEW t \in Threads, LoopTop(t) PROVE IType'
    BY <2>12, EndOperationType DEF LoopTop
  <2>13. ASSUME NEW t \in Threads, LoadExpected(t) PROVE IType'
    BY <2>13 DEF LoadExpected
  <2>14. ASSUME NEW t \in Threads, CheckLockBefore(t) PROVE IType'
    BY <2>14, RetryType DEF CheckLockBefore
  <2>15. ASSUME NEW t \in Threads, LoadReadSeq(t) PROVE IType'
    BY <2>15 DEF LoadReadSeq
  <2>16. ASSUME NEW t \in Threads, LoadWriteSeq(t) PROVE IType'
    BY <2>16 DEF LoadWriteSeq
  <2>17. ASSUME NEW t \in Threads, CheckLockAfter(t) PROVE IType'
    BY <2>17, RetryType DEF CheckLockAfter
  <2>18. ASSUME NEW t \in Threads, Acquire(t) PROVE IType'
    <3>1. fresh' \in [Threads -> BOOLEAN]
      BY <2>18 DEF Acquire
    <3>2. CASE ThrowErrored(t)
      <4>1. call' \in [Threads -> CallPoints] /\ goal' \in [Threads -> TransportState]
        BY <3>2 DEF ThrowErrored
      <4> QED
        BY <2>18, <3>1, <3>2, <4>1, EndOperationType DEF Acquire, ThrowErrored
    <3>3. CASE EndOperation(t) /\ UNCHANGED <<call, goal>>
      BY <2>18, <3>1, <3>3, EndOperationType DEF Acquire
    <3>4. CASE ~ThrowErrored(t) /\ ~(EndOperation(t) /\ UNCHANGED <<call, goal>>)
      BY <2>18, <3>1, <3>4 DEF Acquire
    <3> QED
      BY <2>18, <3>2, <3>3, <3>4 DEF Acquire
  <2>19. ASSUME NEW t \in Threads, Recheck(t) PROVE IType'
    BY <2>19, RetryType DEF Recheck
  <2>20. ASSUME NEW t \in Threads, Register(t) PROVE IType'
    <3>1. CASE fresh[t]
      <4>1. waiting' \in [Threads -> BOOLEAN] /\ fresh' \in [Threads -> BOOLEAN]
        BY <2>20, <3>1 DEF Register
      <4>2. rs' \in [Threads -> Seqs] /\ ws' \in [Threads -> Seqs]
        BY <2>20, <3>1 DEF Register
      <4>3. pc' \in [Threads -> Points] /\ (pc'[Writer] # "idle" => frame \in Frames)
        BY <2>20, <3>1 DEF Register
      <4> QED
        BY <2>20, <3>1, <4>1, <4>2, <4>3 DEF Register
    <3>2. CASE ~fresh[t]
      BY <2>20, <3>2, RetryType DEF Register
    <3> QED
      BY <3>1, <3>2
  <2>21. ASSUME NEW t \in Threads, Resume(t) PROVE IType'
    BY <2>21 DEF Resume
  <2>22. ASSUME NEW t \in Threads, UpdateState(t) PROVE IType'
    BY <2>22 DEF UpdateState
  <2>23. ASSUME NEW t \in Threads, WakeAddData(t) PROVE IType'
    BY <2>23 DEF WakeAddData
  <2>24. ASSUME NEW t \in Threads, WakeNotifyData(t) PROVE IType'
    BY <2>24 DEF WakeNotifyData
  <2>25. ASSUME NEW t \in Threads, WakeAddSpace(t) PROVE IType'
    BY <2>25 DEF WakeAddSpace
  <2>26. ASSUME NEW t \in Threads, WakeNotifySpace(t) PROVE IType'
    <3>1. abandoned' \in 0 .. MaxAbandoned /\ waiting' \in [Threads -> BOOLEAN]
      BY <2>26, RingAssumption DEF WakeNotifySpace
    <3>2. call' \in [Threads -> CallPoints] /\ goal' \in [Threads -> TransportState]
      BY <2>26 DEF WakeNotifySpace
    <3> QED
      BY <2>26, <3>1, <3>2 DEF WakeNotifySpace
  <2>27. ASSUME NEW t \in Threads, WaitTimeout(t) PROVE IType'
    BY <2>27, EndOperationType DEF WaitTimeout
  <2>28. ASSUME NEW t \in Threads, ForceClose(t) PROVE IType'
    BY <2>28 DEF ForceClose
  <2>29. ASSUME NEW t \in Threads, MarkErrored(t) PROVE IType'
    BY <2>29 DEF MarkErrored
  <2>30. ASSUME NEW f \in Frames, StartWrite(f) PROVE IType'
    BY <2>30 DEF StartWrite
  <2>31. CASE WaitAbort
    <3>1. abandoned' \in 0 .. MaxAbandoned /\ waiting' \in [Threads -> BOOLEAN]
      BY <2>31, RingAssumption DEF WaitAbort
    <3> QED
      BY <2>31, <3>1, EndOperationType DEF WaitAbort
  <2>32. CASE StartRead
    BY <2>32 DEF StartRead
  <2>33. CASE WriteFrame
    <3>1. frame \in Frames
      BY <2>33 DEF WriteFrame
    <3>2. \A o \in 0 .. Capacity - 1 : mem'[o] \in Cells
      BY <2>33, <3>1 DEF WriteFrame, Cells
    <3>3. mem' \in [0 .. Capacity - 1 -> Cells]
      BY <2>33, <3>2 DEF WriteFrame
    <3> QED
      BY <2>33, <3>1, <3>3 DEF WriteFrame
  <2>34. CASE CommitWrite
    <3>1. frame \in Frames
      BY <2>34 DEF CommitWrite
    <3>2. writeSeq' \in Seqs
      BY <2>34, <3>1, FrameSize, AdvanceType DEF CommitWrite
    <3>3. queue' \in Seq(Frames)
      BY <2>34, <3>1, AppendProperties DEF CommitWrite
    <3> QED
      BY <2>34, <3>1, <3>2, <3>3 DEF CommitWrite
  <2>35. CASE CommitWriteAdd
    BY <2>35 DEF CommitWriteAdd
  <2>36. CASE CommitWriteNotify
    BY <2>36 DEF CommitWriteNotify
  <2>37. CASE ReadHeader
    <3>1. CASE ThrowErrored(Reader) /\ closed' = [closed EXCEPT ![Reader] = TRUE]
      <4>1. /\ call' \in [Threads -> CallPoints] /\ goal' \in [Threads -> TransportState]
            /\ closed' \in [Threads -> BOOLEAN]
        BY <3>1 DEF ThrowErrored
      <4> QED
        BY <2>37, <3>1, <4>1, EndOperationType DEF ReadHeader, ThrowErrored
    <3>2. CASE ~(ThrowErrored(Reader) /\ closed' = [closed EXCEPT ![Reader] = TRUE])
      <4>1. view' \in Frames
        <5>1. mem[toOffset(rs[Reader])] \in Cells
          BY OffsetType DEF toOffset, Seqs
        <5>2. \A c \in Cells : c.kind = "head" => c.frame \in Frames
          BY DEF Cells, Blank
        <5> QED
          BY <2>37, <3>2, <5>1, <5>2 DEF ReadHeader
      <4> QED
        BY <2>37, <3>2, <4>1 DEF ReadHeader
    <3> QED
      BY <3>1, <3>2
  <2>38. CASE CommitRead
    <3>1. readSeq' \in Seqs
      BY <2>38, FrameSize, RingAssumption, AdvanceType DEF CommitRead
    <3>2. queue' \in Seq(Frames)
      BY <2>38, HeadTailProperties DEF CommitRead
    <3> QED
      BY <2>38, <3>1, <3>2 DEF CommitRead
  <2>39. CASE CommitReadAdd
    BY <2>39 DEF CommitReadAdd
  <2>40. CASE CommitReadNotify
    <3>1. CASE abandoned > 0
      BY <2>40, <3>1, RingAssumption DEF CommitReadNotify, NotifyOneSpace
    <3>2. CASE ~(abandoned > 0)
      <4>1. waiting' \in [Threads -> BOOLEAN] /\ abandoned' \in 0 .. MaxAbandoned
        BY <2>40, <3>2 DEF CommitReadNotify, NotifyOneSpace
      <4> QED
        BY <2>40, <4>1 DEF CommitReadNotify
    <3> QED
      BY <3>1, <3>2
  <2> QED
    BY <1>1, <2>1, <2>2, <2>3, <2>4, <2>5, <2>6, <2>7, <2>8, <2>9, <2>10, <2>11, <2>12, <2>13,
       <2>14, <2>15, <2>16, <2>17, <2>18, <2>19, <2>20, <2>21, <2>22, <2>23, <2>24, <2>25, <2>26,
       <2>27, <2>28, <2>29, <2>30, <2>31, <2>32, <2>33, <2>34, <2>35, <2>36, <2>37, <2>38, <2>39,
       <2>40
    DEF Next, Step, Sample, Normalize, WaitLoop, Mark, Write, Read
<1>2. CASE UNCHANGED vars
  BY <1>2 DEF vars
<1> QED
  BY <1>1, <1>2

(* Every variable of a ring keeps its type, whatever the threads do.       *)
THEOREM TypeCorrect == Spec => []TypeOK
<1>1. IType => TypeOK
  BY DEF IType
<1> QED
  BY TypeInit, TypeStep, <1>1, PTL DEF Spec

-----------------------------------------------------------------------------
(* RESERVED_0: the thread that won the compareExchange is alone in the     *)
(* critical section of maybeNormalize, whatever the other one does.        *)
LEMMA MutexStep == IType /\ NormalizeMutex /\ [Next]_vars => NormalizeMutex'
<1> SUFFICES ASSUME IType, NormalizeMutex, [Next]_vars PROVE NormalizeMutex'
  OBVIOUS
<1> USE ThreadFacts DEF IType, TypeOK, NormalizeMutex, Normalizing, At, Goto, seqVars, localVars,
    waitVars, callVars, dataVars
<1>1. CASE Next
  <2>1. ASSUME NEW t \in Threads, SampleRead(t) PROVE NormalizeMutex'
    BY <2>1 DEF SampleRead
  <2>2. ASSUME NEW t \in Threads, SampleWrite(t) PROVE NormalizeMutex'
    BY <2>2 DEF SampleWrite, SampleDone, EndOperation
  <2>3. ASSUME NEW t \in Threads, SampleLock(t) PROVE NormalizeMutex'
    BY <2>3 DEF SampleLock, SampleDone, EndOperation
  <2>4. ASSUME NEW t \in Threads, NormalizeRead(t) PROVE NormalizeMutex'
    BY <2>4 DEF NormalizeRead, NormalizeReturn
  <2>5. ASSUME NEW t \in Threads, NormalizeWrite(t) PROVE NormalizeMutex'
    BY <2>5 DEF NormalizeWrite, NormalizeReturn
  <2>6. ASSUME NEW t \in Threads, NormalizeLock(t) PROVE NormalizeMutex'
    BY <2>6 DEF NormalizeLock, NormalizeReturn
  <2>7. ASSUME NEW t \in Threads, NormalizeReread(t) PROVE NormalizeMutex'
    BY <2>7 DEF NormalizeReread
  <2>8. ASSUME NEW t \in Threads, NormalizeRewrite(t) PROVE NormalizeMutex'
    BY <2>8 DEF NormalizeRewrite
  <2>9. ASSUME NEW t \in Threads, NormalizeZeroRead(t) PROVE NormalizeMutex'
    BY <2>9 DEF NormalizeZeroRead
  <2>10. ASSUME NEW t \in Threads, NormalizeZeroWrite(t) PROVE NormalizeMutex'
    BY <2>10 DEF NormalizeZeroWrite
  <2>11. ASSUME NEW t \in Threads, NormalizeUnlock(t) PROVE NormalizeMutex'
    BY <2>11 DEF NormalizeUnlock, NormalizeReturn
  <2>12. ASSUME NEW t \in Threads, LoopTop(t) PROVE NormalizeMutex'
    BY <2>12 DEF LoopTop, EndOperation
  <2>13. ASSUME NEW t \in Threads, LoadExpected(t) PROVE NormalizeMutex'
    BY <2>13 DEF LoadExpected
  <2>14. ASSUME NEW t \in Threads, CheckLockBefore(t) PROVE NormalizeMutex'
    BY <2>14 DEF CheckLockBefore, Retry
  <2>15. ASSUME NEW t \in Threads, LoadReadSeq(t) PROVE NormalizeMutex'
    BY <2>15 DEF LoadReadSeq
  <2>16. ASSUME NEW t \in Threads, LoadWriteSeq(t) PROVE NormalizeMutex'
    BY <2>16 DEF LoadWriteSeq
  <2>17. ASSUME NEW t \in Threads, CheckLockAfter(t) PROVE NormalizeMutex'
    BY <2>17 DEF CheckLockAfter, Retry
  <2>18. ASSUME NEW t \in Threads, Acquire(t) PROVE NormalizeMutex'
    BY <2>18 DEF Acquire, ThrowErrored, EndOperation
  <2>19. ASSUME NEW t \in Threads, Recheck(t) PROVE NormalizeMutex'
    BY <2>19 DEF Recheck, Retry
  <2>20. ASSUME NEW t \in Threads, Register(t) PROVE NormalizeMutex'
    BY <2>20 DEF Register, Retry
  <2>21. ASSUME NEW t \in Threads, Resume(t) PROVE NormalizeMutex'
    BY <2>21 DEF Resume
  <2>22. ASSUME NEW t \in Threads, UpdateState(t) PROVE NormalizeMutex'
    BY <2>22 DEF UpdateState
  <2>23. ASSUME NEW t \in Threads, WakeAddData(t) PROVE NormalizeMutex'
    BY <2>23 DEF WakeAddData
  <2>24. ASSUME NEW t \in Threads, WakeNotifyData(t) PROVE NormalizeMutex'
    BY <2>24 DEF WakeNotifyData
  <2>25. ASSUME NEW t \in Threads, WakeAddSpace(t) PROVE NormalizeMutex'
    BY <2>25 DEF WakeAddSpace
  <2>26. ASSUME NEW t \in Threads, WakeNotifySpace(t) PROVE NormalizeMutex'
    BY <2>26 DEF WakeNotifySpace
  <2>27. ASSUME NEW t \in Threads, WaitTimeout(t) PROVE NormalizeMutex'
    BY <2>27 DEF WaitTimeout, EndOperation
  <2>28. ASSUME NEW t \in Threads, ForceClose(t) PROVE NormalizeMutex'
    BY <2>28 DEF ForceClose
  <2>29. ASSUME NEW t \in Threads, MarkErrored(t) PROVE NormalizeMutex'
    BY <2>29 DEF MarkErrored
  <2>30. ASSUME NEW f \in Frames, StartWrite(f) PROVE NormalizeMutex'
    BY <2>30 DEF StartWrite
  <2>31. CASE WaitAbort
    BY <2>31 DEF WaitAbort, EndOperation
  <2>32. CASE StartRead
    BY <2>32 DEF StartRead
  <2>33. CASE WriteFrame
    BY <2>33 DEF WriteFrame
  <2>34. CASE CommitWrite
    BY <2>34 DEF CommitWrite
  <2>35. CASE CommitWriteAdd
    BY <2>35 DEF CommitWriteAdd
  <2>36. CASE CommitWriteNotify
    BY <2>36 DEF CommitWriteNotify
  <2>37. CASE ReadHeader
    BY <2>37 DEF ReadHeader, ThrowErrored, EndOperation
  <2>38. CASE CommitRead
    BY <2>38 DEF CommitRead
  <2>39. CASE CommitReadAdd
    BY <2>39 DEF CommitReadAdd
  <2>40. CASE CommitReadNotify
    BY <2>40 DEF CommitReadNotify, NotifyOneSpace
  <2> QED
    BY <1>1, <2>1, <2>2, <2>3, <2>4, <2>5, <2>6, <2>7, <2>8, <2>9, <2>10, <2>11, <2>12, <2>13,
       <2>14, <2>15, <2>16, <2>17, <2>18, <2>19, <2>20, <2>21, <2>22, <2>23, <2>24, <2>25, <2>26,
       <2>27, <2>28, <2>29, <2>30, <2>31, <2>32, <2>33, <2>34, <2>35, <2>36, <2>37, <2>38, <2>39,
       <2>40
    DEF Next, Step, Sample, Normalize, WaitLoop, Mark, Write, Read
<1>2. CASE UNCHANGED vars
  BY <1>2 DEF vars
<1> QED
  BY <1>1, <1>2

(* At most one thread normalizes, and only under RESERVED_0.               *)
THEOREM NormalizeExclusive == Spec => []NormalizeMutex
<1>1. Init => NormalizeMutex
  BY ThreadFacts DEF Init, NormalizeMutex, Normalizing
<1>2. IType /\ NormalizeMutex /\ [Next]_vars => (IType /\ NormalizeMutex)'
  BY TypeStep, MutexStep
<1> QED
  BY TypeInit, <1>1, <1>2, PTL DEF Spec

-----------------------------------------------------------------------------
(* The reader's side of the eventcount.  While DATA_SEQ still holds the    *)
(* value the reader loaded, either the pair it loaded is the current one   *)
(* or somebody has yet to bump DATA_SEQ; so a reader about to enlist has   *)
(* seen everything, or will be refused by waitAsync or notified.           *)
DataAddDue ==
    \/ pc[Writer] = "add"
    \/ Rewinding
    \/ \E t \in Threads : call[t] = "addData"

ReaderWake ==
    /\ waiting[Reader] => pc[Reader] = "asleep"
    /\ fresh[Reader] /\ ~DataAddDue =>
          /\ pc[Reader] \in {"loadWrite", "lock2", "acquire"} => rs[Reader] = readSeq
          /\ pc[Reader] \in {"lock2", "acquire"} => ws[Reader] = writeSeq
    /\ fresh[Reader] /\ pc[Reader] \in {"recheck", "register"} /\ DataNews => DataAddDue
    /\ NoStrandedReader

(* Every step keeps the reader's side. *)
LEMMA ReaderWakeStep == IType /\ ReaderWake /\ [Next]_vars => ReaderWake'
<1> SUFFICES ASSUME IType, ReaderWake, [Next]_vars PROVE ReaderWake'
  OBVIOUS
<1> USE ThreadFacts DEF IType, TypeOK, ReaderWake, NoStrandedReader, DataNews, DataNotifyDue,
        DataAddDue, Rewinding, At, Goto, seqVars, localVars,
    waitVars, callVars, dataVars
<1>1. CASE Next
  <2>1. ASSUME NEW t \in Threads, SampleRead(t) PROVE ReaderWake'
    BY <2>1 DEF SampleRead
  <2>2. ASSUME NEW t \in Threads, SampleWrite(t) PROVE ReaderWake'
    BY <2>2 DEF SampleWrite, SampleDone, EndOperation
  <2>3. ASSUME NEW t \in Threads, SampleLock(t) PROVE ReaderWake'
    BY <2>3 DEF SampleLock, SampleDone, EndOperation
  <2>4. ASSUME NEW t \in Threads, NormalizeRead(t) PROVE ReaderWake'
    BY <2>4 DEF NormalizeRead, NormalizeReturn
  <2>5. ASSUME NEW t \in Threads, NormalizeWrite(t) PROVE ReaderWake'
    BY <2>5 DEF NormalizeWrite, NormalizeReturn
  <2>6. ASSUME NEW t \in Threads, NormalizeLock(t) PROVE ReaderWake'
    BY <2>6 DEF NormalizeLock, NormalizeReturn
  <2>7. ASSUME NEW t \in Threads, NormalizeReread(t) PROVE ReaderWake'
    BY <2>7 DEF NormalizeReread
  <2>8. ASSUME NEW t \in Threads, NormalizeRewrite(t) PROVE ReaderWake'
    BY <2>8 DEF NormalizeRewrite
  <2>9. ASSUME NEW t \in Threads, NormalizeZeroRead(t) PROVE ReaderWake'
    BY <2>9 DEF NormalizeZeroRead
  <2>10. ASSUME NEW t \in Threads, NormalizeZeroWrite(t) PROVE ReaderWake'
    BY <2>10 DEF NormalizeZeroWrite
  <2>11. ASSUME NEW t \in Threads, NormalizeUnlock(t) PROVE ReaderWake'
    BY <2>11 DEF NormalizeUnlock, NormalizeReturn
  <2>12. ASSUME NEW t \in Threads, LoopTop(t) PROVE ReaderWake'
    BY <2>12 DEF LoopTop, EndOperation
  <2>13. ASSUME NEW t \in Threads, LoadExpected(t) PROVE ReaderWake'
    BY <2>13 DEF LoadExpected
  <2>14. ASSUME NEW t \in Threads, CheckLockBefore(t) PROVE ReaderWake'
    BY <2>14 DEF CheckLockBefore, Retry
  <2>15. ASSUME NEW t \in Threads, LoadReadSeq(t) PROVE ReaderWake'
    BY <2>15 DEF LoadReadSeq
  <2>16. ASSUME NEW t \in Threads, LoadWriteSeq(t) PROVE ReaderWake'
    BY <2>16 DEF LoadWriteSeq
  <2>17. ASSUME NEW t \in Threads, CheckLockAfter(t) PROVE ReaderWake'
    BY <2>17 DEF CheckLockAfter, Retry
  <2>18. ASSUME NEW t \in Threads, Acquire(t) PROVE ReaderWake'
    <3>1. CASE t = Writer
      BY <2>18, <3>1 DEF Acquire, ThrowErrored, EndOperation
    <3>2. CASE t = Reader /\ pc'[Reader] = "recheck"
      <4>1. DataNews /\ fresh[Reader] => DataAddDue
        BY <2>18, <3>2 DEF Acquire, Fits, Fails, ThrowErrored, EndOperation
      <4> QED
        BY <2>18, <3>2, <4>1 DEF Acquire, ThrowErrored, EndOperation
    <3>3. CASE t = Reader /\ pc'[Reader] # "recheck"
      <4>1. ~fresh'[Reader] /\ pc'[Reader] \in {"idle", "granted"}
        BY <2>18, <3>3 DEF Acquire, ThrowErrored, EndOperation
      <4>2. \A u \in Threads : call[u] \in {"addData", "notifyData"} => call'[u] = call[u]
        BY <2>18, <3>3 DEF Acquire, ThrowErrored
      <4>3. ~waiting[Reader]
        BY <2>18, <3>3 DEF Acquire
      <4> QED
        BY <2>18, <3>3, <4>1, <4>2, <4>3 DEF Acquire
    <3> QED
      BY <3>1, <3>2, <3>3
  <2>19. ASSUME NEW t \in Threads, Recheck(t) PROVE ReaderWake'
    BY <2>19 DEF Recheck, Retry
  <2>20. ASSUME NEW t \in Threads, Register(t) PROVE ReaderWake'
    BY <2>20 DEF Register, Retry
  <2>21. ASSUME NEW t \in Threads, Resume(t) PROVE ReaderWake'
    BY <2>21 DEF Resume
  <2>22. ASSUME NEW t \in Threads, UpdateState(t) PROVE ReaderWake'
    BY <2>22 DEF UpdateState
  <2>23. ASSUME NEW t \in Threads, WakeAddData(t) PROVE ReaderWake'
    BY <2>23 DEF WakeAddData
  <2>24. ASSUME NEW t \in Threads, WakeNotifyData(t) PROVE ReaderWake'
    BY <2>24 DEF WakeNotifyData
  <2>25. ASSUME NEW t \in Threads, WakeAddSpace(t) PROVE ReaderWake'
    BY <2>25 DEF WakeAddSpace
  <2>26. ASSUME NEW t \in Threads, WakeNotifySpace(t) PROVE ReaderWake'
    BY <2>26 DEF WakeNotifySpace
  <2>27. ASSUME NEW t \in Threads, WaitTimeout(t) PROVE ReaderWake'
    BY <2>27 DEF WaitTimeout, EndOperation
  <2>28. ASSUME NEW t \in Threads, ForceClose(t) PROVE ReaderWake'
    BY <2>28 DEF ForceClose
  <2>29. ASSUME NEW t \in Threads, MarkErrored(t) PROVE ReaderWake'
    BY <2>29 DEF MarkErrored
  <2>30. ASSUME NEW f \in Frames, StartWrite(f) PROVE ReaderWake'
    BY <2>30 DEF StartWrite
  <2>31. CASE WaitAbort
    BY <2>31 DEF WaitAbort, EndOperation
  <2>32. CASE StartRead
    BY <2>32 DEF StartRead
  <2>33. CASE WriteFrame
    BY <2>33 DEF WriteFrame
  <2>34. CASE CommitWrite
    BY <2>34 DEF CommitWrite
  <2>35. CASE CommitWriteAdd
    BY <2>35 DEF CommitWriteAdd
  <2>36. CASE CommitWriteNotify
    BY <2>36 DEF CommitWriteNotify
  <2>37. CASE ReadHeader
    BY <2>37 DEF ReadHeader, ThrowErrored, EndOperation
  <2>38. CASE CommitRead
    BY <2>38 DEF CommitRead
  <2>39. CASE CommitReadAdd
    BY <2>39 DEF CommitReadAdd
  <2>40. CASE CommitReadNotify
    BY <2>40 DEF CommitReadNotify, NotifyOneSpace
  <2> QED
    BY <1>1, <2>1, <2>2, <2>3, <2>4, <2>5, <2>6, <2>7, <2>8, <2>9, <2>10, <2>11, <2>12, <2>13,
       <2>14, <2>15, <2>16, <2>17, <2>18, <2>19, <2>20, <2>21, <2>22, <2>23, <2>24, <2>25, <2>26,
       <2>27, <2>28, <2>29, <2>30, <2>31, <2>32, <2>33, <2>34, <2>35, <2>36, <2>37, <2>38, <2>39,
       <2>40
    DEF Next, Step, Sample, Normalize, WaitLoop, Mark, Write, Read
<1>2. CASE UNCHANGED vars
  BY <1>2 DEF vars
<1> QED
  BY <1>1, <1>2

(* No lost wakeup on the reading side: a reader enlisted on DATA_SEQ while  *)
(* a header is readable, or the ring has ended empty, is about to be       *)
(* notified (waitForReadable against commitWrite, maybeNormalize, wakeAll). *)
THEOREM ReaderNeverStranded == Spec => []NoStrandedReader
<1>1. Init => ReaderWake
  BY ThreadFacts DEF Init, ReaderWake, NoStrandedReader
<1>2. IType /\ ReaderWake /\ [Next]_vars => (IType /\ ReaderWake)'
  BY TypeStep, ReaderWakeStep
<1>3. ReaderWake => NoStrandedReader
  BY DEF ReaderWake
<1> QED
  BY TypeInit, <1>1, <1>2, <1>3, PTL DEF Spec

(* The writer's side, for SPACE_SEQ.                                       *)
SpaceAddDue ==
    \/ pc[Reader] = "add"
    \/ Rewinding
    \/ \E t \in Threads : call[t] \in {"addData", "notifyData", "addSpace"}

WriterWake ==
    /\ waiting[Writer] => pc[Writer] = "asleep"
    /\ fresh[Writer] /\ ~SpaceAddDue =>
          /\ pc[Writer] \in {"loadWrite", "lock2", "acquire"} => rs[Writer] = readSeq
          /\ pc[Writer] \in {"lock2", "acquire"} => ws[Writer] = writeSeq
    /\ fresh[Writer] /\ pc[Writer] \in {"recheck", "register"} /\ SpaceNews => SpaceAddDue
    /\ NoStrandedWriter

(* Every step keeps it, as long as no aborted wait is left on the waiter   *)
(* list to swallow a notification.                                         *)
LEMMA WriterWakeStep ==
    ASSUME MaxAbandoned = 0, IType, WriterWake, [Next]_vars
    PROVE  WriterWake'
<1> USE ThreadFacts DEF IType, TypeOK, WriterWake, NoStrandedWriter, SpaceNews, SpaceNotifyDue,
        SpaceAddDue, Rewinding, At, Goto, seqVars, localVars,
    waitVars, callVars, dataVars
<1>1. CASE Next
  <2>1. ASSUME NEW t \in Threads, SampleRead(t) PROVE WriterWake'
    BY <2>1 DEF SampleRead
  <2>2. ASSUME NEW t \in Threads, SampleWrite(t) PROVE WriterWake'
    BY <2>2 DEF SampleWrite, SampleDone, EndOperation
  <2>3. ASSUME NEW t \in Threads, SampleLock(t) PROVE WriterWake'
    <3>1. CASE t = Writer
      BY <2>3, <3>1 DEF SampleLock, SampleDone, EndOperation
    <3>2. CASE t = Reader
      BY <2>3, <3>2 DEF SampleLock, SampleDone, EndOperation
    <3> QED
      BY <3>1, <3>2
  <2>4. ASSUME NEW t \in Threads, NormalizeRead(t) PROVE WriterWake'
    BY <2>4 DEF NormalizeRead, NormalizeReturn
  <2>5. ASSUME NEW t \in Threads, NormalizeWrite(t) PROVE WriterWake'
    BY <2>5 DEF NormalizeWrite, NormalizeReturn
  <2>6. ASSUME NEW t \in Threads, NormalizeLock(t) PROVE WriterWake'
    BY <2>6 DEF NormalizeLock, NormalizeReturn
  <2>7. ASSUME NEW t \in Threads, NormalizeReread(t) PROVE WriterWake'
    BY <2>7 DEF NormalizeReread
  <2>8. ASSUME NEW t \in Threads, NormalizeRewrite(t) PROVE WriterWake'
    BY <2>8 DEF NormalizeRewrite
  <2>9. ASSUME NEW t \in Threads, NormalizeZeroRead(t) PROVE WriterWake'
    BY <2>9 DEF NormalizeZeroRead
  <2>10. ASSUME NEW t \in Threads, NormalizeZeroWrite(t) PROVE WriterWake'
    BY <2>10 DEF NormalizeZeroWrite
  <2>11. ASSUME NEW t \in Threads, NormalizeUnlock(t) PROVE WriterWake'
    BY <2>11 DEF NormalizeUnlock, NormalizeReturn
  <2>12. ASSUME NEW t \in Threads, LoopTop(t) PROVE WriterWake'
    BY <2>12 DEF LoopTop, EndOperation
  <2>13. ASSUME NEW t \in Threads, LoadExpected(t) PROVE WriterWake'
    BY <2>13 DEF LoadExpected
  <2>14. ASSUME NEW t \in Threads, CheckLockBefore(t) PROVE WriterWake'
    BY <2>14 DEF CheckLockBefore, Retry
  <2>15. ASSUME NEW t \in Threads, LoadReadSeq(t) PROVE WriterWake'
    BY <2>15 DEF LoadReadSeq
  <2>16. ASSUME NEW t \in Threads, LoadWriteSeq(t) PROVE WriterWake'
    BY <2>16 DEF LoadWriteSeq
  <2>17. ASSUME NEW t \in Threads, CheckLockAfter(t) PROVE WriterWake'
    BY <2>17 DEF CheckLockAfter, Retry
  <2>18. ASSUME NEW t \in Threads, Acquire(t) PROVE WriterWake'
    <3>1. CASE t = Reader
      BY <2>18, <3>1 DEF Acquire, ThrowErrored, EndOperation
    <3>2. CASE t = Writer /\ pc'[Writer] = "recheck"
      <4>1. SpaceNews /\ fresh[Writer] => SpaceAddDue
        BY <2>18, <3>2 DEF Acquire, Fits, Fails, ThrowErrored, EndOperation
      <4> QED
        BY <2>18, <3>2, <4>1 DEF Acquire, ThrowErrored, EndOperation
    <3>3. CASE t = Writer /\ pc'[Writer] # "recheck"
      <4>1. ~fresh'[Writer] /\ pc'[Writer] \in {"idle", "granted"}
        BY <2>18, <3>3 DEF Acquire, ThrowErrored, EndOperation
      <4>2. ~waiting'[Writer]
        BY <2>18, <3>3 DEF Acquire
      <4> QED
        BY <2>18, <3>3, <4>1, <4>2 DEF Acquire
    <3> QED
      BY <3>1, <3>2, <3>3
  <2>19. ASSUME NEW t \in Threads, Recheck(t) PROVE WriterWake'
    BY <2>19 DEF Recheck, Retry
  <2>20. ASSUME NEW t \in Threads, Register(t) PROVE WriterWake'
    BY <2>20 DEF Register, Retry
  <2>21. ASSUME NEW t \in Threads, Resume(t) PROVE WriterWake'
    BY <2>21 DEF Resume
  <2>22. ASSUME NEW t \in Threads, UpdateState(t) PROVE WriterWake'
    BY <2>22 DEF UpdateState
  <2>23. ASSUME NEW t \in Threads, WakeAddData(t) PROVE WriterWake'
    BY <2>23 DEF WakeAddData
  <2>24. ASSUME NEW t \in Threads, WakeNotifyData(t) PROVE WriterWake'
    BY <2>24 DEF WakeNotifyData
  <2>25. ASSUME NEW t \in Threads, WakeAddSpace(t) PROVE WriterWake'
    BY <2>25 DEF WakeAddSpace
  <2>26. ASSUME NEW t \in Threads, WakeNotifySpace(t) PROVE WriterWake'
    BY <2>26 DEF WakeNotifySpace
  <2>27. ASSUME NEW t \in Threads, WaitTimeout(t) PROVE WriterWake'
    BY <2>27 DEF WaitTimeout, EndOperation
  <2>28. ASSUME NEW t \in Threads, ForceClose(t) PROVE WriterWake'
    BY <2>28 DEF ForceClose
  <2>29. ASSUME NEW t \in Threads, MarkErrored(t) PROVE WriterWake'
    BY <2>29 DEF MarkErrored
  <2>30. ASSUME NEW f \in Frames, StartWrite(f) PROVE WriterWake'
    BY <2>30 DEF StartWrite
  <2>31. CASE WaitAbort
    BY <2>31 DEF WaitAbort, EndOperation
  <2>32. CASE StartRead
    BY <2>32 DEF StartRead
  <2>33. CASE WriteFrame
    BY <2>33 DEF WriteFrame
  <2>34. CASE CommitWrite
    BY <2>34 DEF CommitWrite
  <2>35. CASE CommitWriteAdd
    BY <2>35 DEF CommitWriteAdd
  <2>36. CASE CommitWriteNotify
    BY <2>36 DEF CommitWriteNotify
  <2>37. CASE ReadHeader
    BY <2>37 DEF ReadHeader, ThrowErrored, EndOperation
  <2>38. CASE CommitRead
    BY <2>38 DEF CommitRead
  <2>39. CASE CommitReadAdd
    BY <2>39 DEF CommitReadAdd
  <2>40. CASE CommitReadNotify
    BY <2>40 DEF CommitReadNotify, NotifyOneSpace
  <2> QED
    BY <1>1, <2>1, <2>2, <2>3, <2>4, <2>5, <2>6, <2>7, <2>8, <2>9, <2>10, <2>11, <2>12, <2>13,
       <2>14, <2>15, <2>16, <2>17, <2>18, <2>19, <2>20, <2>21, <2>22, <2>23, <2>24, <2>25, <2>26,
       <2>27, <2>28, <2>29, <2>30, <2>31, <2>32, <2>33, <2>34, <2>35, <2>36, <2>37, <2>38, <2>39,
       <2>40
    DEF Next, Step, Sample, Normalize, WaitLoop, Mark, Write, Read
<1>2. CASE UNCHANGED vars
  BY <1>2 DEF vars
<1> QED
  BY <1>1, <1>2

(* No lost wakeup on the writing side when no send is aborted (so that    *)
(* raceWaitWithAbort leaves nothing behind): a writer enlisted on SPACE_SEQ  *)
(* while its frame fits, or the transport has ended, is about to be        *)
(* notified.  With aborted sends this is false: see SharedRingAbort.cfg.   *)
THEOREM WriterNeverStranded ==
    ASSUME MaxAbandoned = 0
    PROVE  Spec => []NoStrandedWriter
<1>1. Init => WriterWake
  BY ThreadFacts DEF Init, WriterWake, NoStrandedWriter
<1>2. IType /\ WriterWake /\ [Next]_vars => (IType /\ WriterWake)'
  BY TypeStep, WriterWakeStep
<1>3. WriterWake => NoStrandedWriter
  BY DEF WriterWake
<1> QED
  BY TypeInit, <1>1, <1>2, <1>3, PTL DEF Spec
=============================================================================
