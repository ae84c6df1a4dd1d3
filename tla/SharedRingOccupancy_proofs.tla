---------------------- MODULE SharedRingOccupancy_proofs ----------------------
(***************************************************************************)
(* How much is in the ring, for every capacity, modulus and threshold:     *)
(* what lies between READ_SEQ and WRITE_SEQ never exceeds the capacity,    *)
(* what a thread loaded earlier still bounds it, and so no thread reports  *)
(* an error that is not there.  All of it up to the step in which a        *)
(* normalization hits an open transaction.                                 *)
(***************************************************************************)
EXTENDS SharedRing_proofs

(* Where maybeNormalize and sampleUsedBytes return to, and who waits or    *)
(* writes or reads.                                                        *)
SamplePoints == {"sampleRead", "sampleWrite", "sampleLock"}
NormalPoints == {"nRead", "nWrite", "nCas", "nReread", "nRewrite", "nZeroRead", "nZeroWrite", "nUnlock"}
Returns ==
    /\ pc[Writer] # "holding" /\ pc[Reader] # "store"
    /\ \A t \in Threads :
          /\ pc[t] \in SamplePoints =>
                ret[t] = "idle" \/ (t = Reader /\ ret[t] = "holding") \/ (t = Writer /\ ret[t] = "top")
          /\ pc[t] \in NormalPoints => ret[t] = "expect" \/ (t = Reader /\ ret[t] = "sampleRead")
          /\ pc[t] \notin SamplePoints \cup NormalPoints => ret[t] = "idle"

(* A thread that relies on a pair it loaded, or on the frame before it.    *)
Relies(t) ==
    \/ pc[t] \in {"loadRead", "loadWrite", "lock2", "acquire", "granted", "store", "holding"}
    \/ ret[t] = "holding"
Views == pc[Reader] = "holding" \/ ret[Reader] = "holding"
Rewinds == pc[Writer] = "nZeroWrite" \/ pc[Reader] = "nZeroWrite"

(* An earlier value of READ_SEQ: what was in the ring at that time, and    *)
(* what has come since, would fit in it.                                   *)
Behind(r, read, write) ==
    /\ Used(r, read) + Used(read, write) = Used(r, write)
    /\ Used(r, write) <= Capacity

WriterOccupancy ==
    /\ pc[Writer] \in {"loadWrite", "lock2", "acquire", "granted", "store"} =>
          Behind(rs[Writer], readSeq, writeSeq)
    /\ pc[Writer] \in {"lock2", "acquire", "granted", "store"} => ws[Writer] = writeSeq
    /\ pc[Writer] \in {"granted", "store"} => Used(rs[Writer], writeSeq) + frame.size <= Capacity
    /\ pc[Writer] = "sampleWrite" =>
          IF Rewinds THEN seen[Writer] = 0 ELSE Behind(seen[Writer], readSeq, writeSeq)

ReaderOccupancy ==
    /\ pc[Reader] \in {"loadWrite", "lock2", "acquire", "granted"} \/ Views => rs[Reader] = readSeq
    /\ pc[Reader] \in {"lock2", "acquire", "granted"} =>
          Used(readSeq, ws[Reader]) <= Used(readSeq, writeSeq)
    /\ pc[Reader] = "granted" => Used(readSeq, ws[Reader]) >= HeaderSize
    /\ Views => view \in Frames /\ view.size <= Used(readSeq, writeSeq)
    /\ pc[Reader] = "sampleWrite" => seen[Reader] = readSeq

(* A normalization between its stores has the ring to itself.              *)
RewindsAlone ==
    /\ pc[Writer] = "nZeroWrite" => readSeq = 0 /\ ~Relies(Reader)
    /\ pc[Reader] = "nZeroWrite" => readSeq = 0 /\ ~Relies(Writer)
    /\ Rewinds \/ pc[Writer] = "sampleLock" \/ pc[Reader] = "sampleLock" => lock = 1
    /\ ~Rewinds => Used(readSeq, writeSeq) <= Capacity

Occupancy == ~overlap => RewindsAlone /\ WriterOccupancy /\ ReaderOccupancy

RingInv == IType /\ NormalizeMutex /\ Returns /\ Occupancy

-----------------------------------------------------------------------------
(* Every step keeps the returns.                                           *)
LEMMA ReturnsStep == IType /\ Returns /\ [Next]_vars => Returns'
<1> SUFFICES ASSUME IType, Returns, [Next]_vars PROVE Returns'
  OBVIOUS
<1> USE ThreadFacts DEF IType, TypeOK, Returns, SamplePoints, NormalPoints, At, Goto, seqVars,
        localVars, waitVars, callVars, dataVars, AwaitPoints
<1>1. CASE Next
  <2>1. ASSUME NEW t \in Threads, SampleRead(t) PROVE Returns'
    BY <2>1 DEF SampleRead
  <2>2. ASSUME NEW t \in Threads, SampleWrite(t) PROVE Returns'
    BY <2>2 DEF SampleWrite, SampleDone, EndOperation
  <2>3. ASSUME NEW t \in Threads, SampleLock(t) PROVE Returns'
    BY <2>3 DEF SampleLock, SampleDone, EndOperation
  <2>4. ASSUME NEW t \in Threads, NormalizeRead(t) PROVE Returns'
    BY <2>4 DEF NormalizeRead, NormalizeReturn
  <2>5. ASSUME NEW t \in Threads, NormalizeWrite(t) PROVE Returns'
    BY <2>5 DEF NormalizeWrite, NormalizeReturn
  <2>6. ASSUME NEW t \in Threads, NormalizeLock(t) PROVE Returns'
    BY <2>6 DEF NormalizeLock, NormalizeReturn
  <2>7. ASSUME NEW t \in Threads, NormalizeReread(t) PROVE Returns'
    BY <2>7 DEF NormalizeReread
  <2>8. ASSUME NEW t \in Threads, NormalizeRewrite(t) PROVE Returns'
    BY <2>8 DEF NormalizeRewrite
  <2>9. ASSUME NEW t \in Threads, NormalizeZeroRead(t) PROVE Returns'
    BY <2>9 DEF NormalizeZeroRead
  <2>10. ASSUME NEW t \in Threads, NormalizeZeroWrite(t) PROVE Returns'
    BY <2>10 DEF NormalizeZeroWrite
  <2>11. ASSUME NEW t \in Threads, NormalizeUnlock(t) PROVE Returns'
    BY <2>11 DEF NormalizeUnlock, NormalizeReturn
  <2>12. ASSUME NEW t \in Threads, LoopTop(t) PROVE Returns'
    BY <2>12 DEF LoopTop, EndOperation
  <2>13. ASSUME NEW t \in Threads, LoadExpected(t) PROVE Returns'
    BY <2>13 DEF LoadExpected
  <2>14. ASSUME NEW t \in Threads, CheckLockBefore(t) PROVE Returns'
    BY <2>14 DEF CheckLockBefore, Retry
  <2>15. ASSUME NEW t \in Threads, LoadReadSeq(t) PROVE Returns'
    BY <2>15 DEF LoadReadSeq
  <2>16. ASSUME NEW t \in Threads, LoadWriteSeq(t) PROVE Returns'
    BY <2>16 DEF LoadWriteSeq
  <2>17. ASSUME NEW t \in Threads, CheckLockAfter(t) PROVE Returns'
    BY <2>17 DEF CheckLockAfter, Retry
  <2>18. ASSUME NEW t \in Threads, Acquire(t) PROVE Returns'
    BY <2>18 DEF Acquire, ThrowErrored, EndOperation
  <2>19. ASSUME NEW t \in Threads, Recheck(t) PROVE Returns'
    BY <2>19 DEF Recheck, Retry
  <2>20. ASSUME NEW t \in Threads, Register(t) PROVE Returns'
    BY <2>20 DEF Register, Retry
  <2>21. ASSUME NEW t \in Threads, Resume(t) PROVE Returns'
    BY <2>21 DEF Resume
  <2>22. ASSUME NEW t \in Threads, UpdateState(t) PROVE Returns'
    BY <2>22 DEF UpdateState
  <2>23. ASSUME NEW t \in Threads, WakeAddData(t) PROVE Returns'
    BY <2>23 DEF WakeAddData
  <2>24. ASSUME NEW t \in Threads, WakeNotifyData(t) PROVE Returns'
    BY <2>24 DEF WakeNotifyData
  <2>25. ASSUME NEW t \in Threads, WakeAddSpace(t) PROVE Returns'
    BY <2>25 DEF WakeAddSpace
  <2>26. ASSUME NEW t \in Threads, WakeNotifySpace(t) PROVE Returns'
    BY <2>26 DEF WakeNotifySpace
  <2>27. ASSUME NEW t \in Threads, WaitTimeout(t) PROVE Returns'
    BY <2>27 DEF WaitTimeout, EndOperation
  <2>28. ASSUME NEW t \in Threads, ForceClose(t) PROVE Returns'
    BY <2>28 DEF ForceClose
  <2>29. ASSUME NEW t \in Threads, MarkErrored(t) PROVE Returns'
    BY <2>29 DEF MarkErrored
  <2>30. ASSUME NEW f \in Frames, StartWrite(f) PROVE Returns'
    BY <2>30 DEF StartWrite
  <2>31. CASE WaitAbort
    BY <2>31 DEF WaitAbort, EndOperation
  <2>32. CASE StartRead
    BY <2>32 DEF StartRead
  <2>33. CASE WriteFrame
    BY <2>33 DEF WriteFrame
  <2>34. CASE CommitWrite
    BY <2>34 DEF CommitWrite
  <2>35. CASE CommitWriteAdd
    BY <2>35 DEF CommitWriteAdd
  <2>36. CASE CommitWriteNotify
    BY <2>36 DEF CommitWriteNotify
  <2>37. CASE ReadHeader
    BY <2>37 DEF ReadHeader, ThrowErrored, EndOperation
  <2>38. CASE CommitRead
    BY <2>38 DEF CommitRead
  <2>39. CASE CommitReadAdd
    BY <2>39 DEF CommitReadAdd
  <2>40. CASE CommitReadNotify
    BY <2>40 DEF CommitReadNotify, NotifyOneSpace
  <2> QED
    BY <1>1, <2>1, <2>2, <2>3, <2>4, <2>5, <2>6, <2>7, <2>8, <2>9, <2>10, <2>11, <2>12, <2>13,
       <2>14, <2>15, <2>16, <2>17, <2>18, <2>19, <2>20, <2>21, <2>22, <2>23, <2>24, <2>25, <2>26,
       <2>27, <2>28, <2>29, <2>30, <2>31, <2>32, <2>33, <2>34, <2>35, <2>36, <2>37, <2>38, <2>39,
       <2>40
    DEF Next, Step, Sample, Normalize, WaitLoop, Mark, Write, Read
<1>2. CASE UNCHANGED vars
  BY <1>2 DEF vars
<1> QED
  BY <1>1, <1>2

-----------------------------------------------------------------------------
(* Most steps only take a thread from one point to another where it does   *)
(* not rely on the ring, or take the lock, or end the transport.           *)
QuietPoints == {"idle", "asleep", "top", "sampleRead", "expect", "lock1", "recheck", "register",
                "nRead", "nWrite", "nCas", "nReread", "nRewrite", "nZeroRead", "nUnlock", "notify"}
LocalsKept(t) ==
    /\ pc'[t] = pc[t] /\ ret'[t] = ret[t]
    /\ rs'[t] = rs[t] /\ ws'[t] = ws[t] /\ seen'[t] = seen[t]
    /\ IF t = Writer THEN frame' = frame ELSE view' = view
Rests(t) ==
    /\ UNCHANGED <<readSeq, writeSeq, mem, queue, overlap>>
    /\ lock' \in {lock, 1}
    /\ state' >= state
    /\ LocalsKept(Other(t))
    /\ \/ LocalsKept(t)
       \/ /\ pc[t] \notin {"granted", "store", "holding", "nZeroWrite"}
          /\ pc'[t] \in QuietPoints /\ ret'[t] # "holding"

Busy(t) == \/ SampleRead(t) \/ SampleWrite(t) \/ SampleLock(t)
           \/ NormalizeZeroRead(t) \/ NormalizeZeroWrite(t) \/ NormalizeUnlock(t)
           \/ CheckLockBefore(t) \/ LoadReadSeq(t) \/ LoadWriteSeq(t) \/ CheckLockAfter(t)
           \/ Acquire(t)
           \/ t = Writer /\ (WriteFrame \/ CommitWrite)
           \/ t = Reader /\ (ReadHeader \/ CommitRead)

LEMMA RestsOrBusy ==
    ASSUME IType, Returns, [Next]_vars
    PROVE  \E t \in Threads : Rests(t) \/ Busy(t)
<1>0. /\ pc \in [Threads -> Points] /\ ret \in [Threads -> {"idle", "top", "expect", "holding", "sampleRead"}]
      /\ rs \in [Threads -> Seqs] /\ ws \in [Threads -> Seqs] /\ seen \in [Threads -> Seqs]
      /\ state \in TransportState /\ goal \in [Threads -> TransportState]
  BY DEF IType, TypeOK
<1> USE <1>0, ThreadFacts DEF Returns, SamplePoints, NormalPoints, At, Goto, seqVars,
        localVars, waitVars, callVars, dataVars, AwaitPoints, QuietPoints, LocalsKept, TransportState,
        Open, Errored, Other
<1>1. CASE Next
  <2>1. ASSUME NEW t \in Threads, NormalizeRead(t) PROVE Rests(t)
    BY <2>1 DEF Rests, NormalizeRead, NormalizeReturn
  <2>2. ASSUME NEW t \in Threads, NormalizeWrite(t) PROVE Rests(t)
    BY <2>2 DEF Rests, NormalizeWrite, NormalizeReturn
  <2>3. ASSUME NEW t \in Threads, NormalizeLock(t) PROVE Rests(t)
    BY <2>3 DEF Rests, NormalizeLock, NormalizeReturn
  <2>4. ASSUME NEW t \in Threads, NormalizeReread(t) PROVE Rests(t)
    BY <2>4 DEF Rests, NormalizeReread
  <2>5. ASSUME NEW t \in Threads, NormalizeRewrite(t) PROVE Rests(t)
    BY <2>5 DEF Rests, NormalizeRewrite
  <2>6. ASSUME NEW t \in Threads, LoopTop(t) PROVE Rests(t)
    BY <2>6 DEF Rests, LoopTop, EndOperation
  <2>7. ASSUME NEW t \in Threads, LoadExpected(t) PROVE Rests(t)
    BY <2>7 DEF Rests, LoadExpected
  <2>8. ASSUME NEW t \in Threads, Recheck(t) PROVE Rests(t)
    BY <2>8 DEF Rests, Recheck, Retry
  <2>9. ASSUME NEW t \in Threads, Register(t) PROVE Rests(t)
    BY <2>9 DEF Rests, Register, Retry
  <2>10. ASSUME NEW t \in Threads, Resume(t) PROVE Rests(t)
    BY <2>10 DEF Rests, Resume
  <2>11. ASSUME NEW t \in Threads, UpdateState(t) PROVE Rests(t)
    BY <2>11 DEF Rests, UpdateState
  <2>12. ASSUME NEW t \in Threads, WakeAddData(t) PROVE Rests(t)
    BY <2>12 DEF Rests, WakeAddData
  <2>13. ASSUME NEW t \in Threads, WakeNotifyData(t) PROVE Rests(t)
    BY <2>13 DEF Rests, WakeNotifyData
  <2>14. ASSUME NEW t \in Threads, WakeAddSpace(t) PROVE Rests(t)
    BY <2>14 DEF Rests, WakeAddSpace
  <2>15. ASSUME NEW t \in Threads, WakeNotifySpace(t) PROVE Rests(t)
    BY <2>15 DEF Rests, WakeNotifySpace
  <2>16. ASSUME NEW t \in Threads, WaitTimeout(t) PROVE Rests(t)
    BY <2>16 DEF Rests, WaitTimeout, EndOperation
  <2>17. ASSUME NEW t \in Threads, ForceClose(t) PROVE Rests(t)
    BY <2>17 DEF Rests, ForceClose
  <2>18. ASSUME NEW t \in Threads, MarkErrored(t) PROVE Rests(t)
    BY <2>18 DEF Rests, MarkErrored
  <2>19. ASSUME NEW f \in Frames, StartWrite(f) PROVE Rests(Writer)
    BY <2>19 DEF Rests, StartWrite
  <2>20. ASSUME WaitAbort PROVE Rests(Writer)
    BY <2>20 DEF Rests, WaitAbort, EndOperation
  <2>21. ASSUME StartRead PROVE Rests(Reader)
    BY <2>21 DEF Rests, StartRead
  <2>22. ASSUME CommitWriteAdd PROVE Rests(Writer)
    BY <2>22 DEF Rests, CommitWriteAdd
  <2>23. ASSUME CommitWriteNotify PROVE Rests(Writer)
    BY <2>23 DEF Rests, CommitWriteNotify
  <2>24. ASSUME CommitReadAdd PROVE Rests(Reader)
    BY <2>24 DEF Rests, CommitReadAdd
  <2>25. ASSUME CommitReadNotify PROVE Rests(Reader)
    BY <2>25 DEF Rests, CommitReadNotify, NotifyOneSpace
  <2> QED
    BY ThreadFacts, <1>1, <2>1, <2>2, <2>3, <2>4, <2>5, <2>6, <2>7, <2>8, <2>9, <2>10, <2>11,
       <2>12, <2>13, <2>14, <2>15, <2>16, <2>17, <2>18, <2>19, <2>20, <2>21, <2>22, <2>23, <2>24,
       <2>25
    DEF Next, Step, Sample, Normalize, WaitLoop, Mark, Write, Read, Busy
<1>2. CASE UNCHANGED vars
  BY <1>2 DEF vars, Rests
<1> QED
  BY <1>1, <1>2

-----------------------------------------------------------------------------
(* Arithmetic of what lies between two sequence numbers.                   *)
LEMMA UsedType == \A a, b \in Seqs : Used(a, b) \in Nat /\ Used(a, b) < SeqModulus
BY RingAssumption DEF Seqs, Used

LEMMA UsedNone == \A a, b \in Seqs : Used(a, b) = 0 <=> a = b
BY RingAssumption DEF Seqs, Used

(* The writer advances: what is used grows, seen from READ_SEQ or from an  *)
(* earlier value of it.                                                    *)
LEMMA UsedGrows ==
    ASSUME NEW a \in Seqs, NEW b \in Seqs, NEW n \in Nat, Used(a, b) + n <= Capacity
    PROVE  Used(a, Advance(b, n)) = Used(a, b) + n
BY RingAssumption DEF Seqs, Used, Advance

(* The reader advances, over no more than what is there.                   *)
LEMMA UsedShrinks ==
    ASSUME NEW a \in Seqs, NEW b \in Seqs, NEW n \in Nat, n <= Used(a, b), Used(a, b) <= Capacity
    PROVE  Used(Advance(a, n), b) = Used(a, b) - n
BY RingAssumption DEF Seqs, Used, Advance

LEMMA BehindNow ==
    ASSUME NEW r \in Seqs, NEW read \in Seqs, NEW write \in Seqs, Behind(r, read, write)
    PROVE  Used(read, write) <= Used(r, write) /\ Used(r, write) <= Capacity
BY UsedType DEF Behind

LEMMA BehindAtOnce ==
    ASSUME NEW read \in Seqs, NEW write \in Seqs, Used(read, write) <= Capacity
    PROVE  Behind(read, read, write)
BY RingAssumption DEF Behind, Used, Seqs

(* It stays so when the reader advances.                                   *)
LEMMA BehindRead ==
    ASSUME NEW r \in Seqs, NEW read \in Seqs, NEW write \in Seqs, Behind(r, read, write),
           NEW n \in Nat, n <= Used(read, write)
    PROVE  Behind(r, Advance(read, n), write)
BY RingAssumption DEF Behind, Used, Seqs, Advance

-----------------------------------------------------------------------------
(* The history variable never forgets.                                     *)
LEMMA OverlapStays == IType /\ Returns /\ [Next]_vars /\ overlap => overlap'
<1> SUFFICES ASSUME IType, Returns, [Next]_vars, overlap PROVE overlap'
  OBVIOUS
<1>2. ASSUME NEW t \in Threads, Rests(t) PROVE overlap'
  BY <1>2 DEF Rests, LocalsKept, QuietPoints, Other
<1>3. ASSUME NEW t \in Threads, SampleRead(t) PROVE overlap'
  BY <1>3 DEF SampleRead
<1>4. ASSUME NEW t \in Threads, SampleWrite(t) PROVE overlap'
  BY <1>4 DEF SampleWrite, SampleDone, EndOperation
<1>5. ASSUME NEW t \in Threads, SampleLock(t) PROVE overlap'
  BY <1>5 DEF SampleLock, SampleDone, EndOperation
<1>6. ASSUME NEW t \in Threads, NormalizeZeroRead(t) PROVE overlap'
  BY <1>6 DEF NormalizeZeroRead
<1>7. ASSUME NEW t \in Threads, NormalizeZeroWrite(t) PROVE overlap'
  BY <1>7 DEF NormalizeZeroWrite
<1>8. ASSUME NEW t \in Threads, NormalizeUnlock(t) PROVE overlap'
  BY <1>8 DEF NormalizeUnlock, NormalizeReturn
<1>9. ASSUME NEW t \in Threads, CheckLockBefore(t) PROVE overlap'
  BY <1>9 DEF CheckLockBefore, Retry
<1>10. ASSUME NEW t \in Threads, LoadReadSeq(t) PROVE overlap'
  BY <1>10 DEF LoadReadSeq
<1>11. ASSUME NEW t \in Threads, LoadWriteSeq(t) PROVE overlap'
  BY <1>11 DEF LoadWriteSeq
<1>12. ASSUME NEW t \in Threads, CheckLockAfter(t) PROVE overlap'
  BY <1>12 DEF CheckLockAfter, Retry
<1>13. ASSUME NEW t \in Threads, Acquire(t) PROVE overlap'
  BY <1>13 DEF Acquire, ThrowErrored, EndOperation
<1>14. CASE WriteFrame
  BY <1>14 DEF WriteFrame
<1>15. CASE CommitWrite
  BY <1>15 DEF CommitWrite
<1>16. CASE ReadHeader
  BY <1>16 DEF ReadHeader, ThrowErrored, EndOperation
<1>17. CASE CommitRead
  BY <1>17 DEF CommitRead
<1> QED
  BY RestsOrBusy, <1>2, <1>3, <1>4, <1>5, <1>6, <1>7, <1>8, <1>9, <1>10, <1>11, <1>12, <1>13,
     <1>14, <1>15, <1>16, <1>17 DEF Busy

(* A grant: the frame fits, whatever the reader has released since.        *)
LEMMA GrantFits ==
    ASSUME RingInv, ~overlap, pc[Writer] \in {"granted", "store"}
    PROVE  /\ frame \in Frames /\ frame.size \in Nat /\ ws[Writer] = writeSeq
           /\ Used(readSeq, writeSeq) \in Nat /\ Used(readSeq, writeSeq) + frame.size <= Capacity
<1>1. /\ frame \in Frames /\ rs[Writer] \in Seqs /\ readSeq \in Seqs /\ writeSeq \in Seqs
  BY ThreadFacts DEF RingInv, IType, TypeOK
<1>2. frame.size \in Nat
  BY <1>1, FrameSize, RingAssumption
<1>3. ws[Writer] = writeSeq
  BY DEF RingInv, Occupancy, WriterOccupancy
<1>4. Behind(rs[Writer], readSeq, writeSeq) /\ Used(rs[Writer], writeSeq) + frame.size <= Capacity
  BY DEF RingInv, Occupancy, WriterOccupancy
<1>5. Used(readSeq, writeSeq) \in Nat /\ Used(rs[Writer], writeSeq) \in Nat
  BY <1>1, UsedType
<1>6. Used(readSeq, writeSeq) + frame.size <= Capacity
  <2>1. Used(readSeq, writeSeq) <= Used(rs[Writer], writeSeq)
    BY <1>1, <1>4, BehindNow
  <2> QED
    BY <1>2, <1>4, <1>5, <2>1, RingAssumption
<1> QED
  BY <1>1, <1>2, <1>3, <1>5, <1>6

(* A commit: the frame the writer was granted room for still fits, the     *)
(* frame the reader holds is still there.                                  *)
LEMMA CommitWriteFits ==
    ASSUME RingInv, ~overlap, CommitWrite
    PROVE  /\ frame \in Frames /\ frame.size \in Nat
           /\ ws[Writer] = writeSeq /\ writeSeq' = Advance(writeSeq, frame.size)
           /\ Used(readSeq, writeSeq) \in Nat /\ Used(readSeq, writeSeq') \in Nat
           /\ Used(readSeq, writeSeq') <= Capacity
           /\ Used(readSeq, writeSeq') = Used(readSeq, writeSeq) + frame.size
<1>1. pc[Writer] = "store" /\ readSeq \in Seqs /\ writeSeq \in Seqs
  BY DEF RingInv, IType, TypeOK, CommitWrite, At
<1>2. /\ frame \in Frames /\ frame.size \in Nat /\ ws[Writer] = writeSeq
      /\ Used(readSeq, writeSeq) \in Nat /\ Used(readSeq, writeSeq) + frame.size <= Capacity
  BY <1>1, GrantFits
<1>3. writeSeq' = Advance(writeSeq, frame.size)
  BY <1>2 DEF CommitWrite
<1>4. Used(readSeq, Advance(writeSeq, frame.size)) = Used(readSeq, writeSeq) + frame.size
  BY <1>1, <1>2, UsedGrows
<1> QED
  BY <1>2, <1>3, <1>4

LEMMA CommitReadFits ==
    ASSUME RingInv, ~overlap, CommitRead
    PROVE  /\ view \in Frames /\ view.size \in Nat
           /\ rs[Reader] = readSeq /\ readSeq' = Advance(readSeq, view.size) /\ ~Rewinds
           /\ Used(readSeq, writeSeq) \in Nat /\ Used(readSeq, writeSeq) <= Capacity
           /\ view.size <= Used(readSeq, writeSeq)
           /\ Used(readSeq', writeSeq) = Used(readSeq, writeSeq) - view.size
           /\ Used(readSeq', writeSeq) \in Nat /\ Used(readSeq', writeSeq) <= Capacity
<1>1. readSeq \in Seqs /\ writeSeq \in Seqs /\ pc[Reader] = "holding"
  BY DEF RingInv, IType, TypeOK, CommitRead, At
<1>2. view \in Frames /\ rs[Reader] = readSeq /\ view.size <= Used(readSeq, writeSeq)
  BY <1>1 DEF RingInv, Occupancy, ReaderOccupancy, Views
<1>3. view.size \in Nat /\ readSeq' = Advance(readSeq, view.size)
  BY <1>2, FrameSize, RingAssumption DEF CommitRead
<1>4. ~Rewinds /\ Used(readSeq, writeSeq) <= Capacity /\ Used(readSeq, writeSeq) \in Nat
  BY <1>1, UsedType DEF RingInv, Occupancy, RewindsAlone, Rewinds, Relies
<1>5. Used(Advance(readSeq, view.size), writeSeq) = Used(readSeq, writeSeq) - view.size
  BY <1>1, <1>2, <1>3, <1>4, UsedShrinks
<1> QED
  BY <1>2, <1>3, <1>4, <1>5, RingAssumption

(* Every step keeps the three parts of the occupancy invariant. *)
LEMMA RewindsAloneStep ==
    ASSUME RingInv, [Next]_vars, ~overlap'
    PROVE  RewindsAlone'
<1>1. /\ ~overlap /\ Returns /\ RewindsAlone /\ WriterOccupancy /\ ReaderOccupancy
      /\ pc \in [Threads -> Points] /\ rs \in [Threads -> Seqs] /\ ws \in [Threads -> Seqs]
      /\ ret \in [Threads -> {"idle", "top", "expect", "holding", "sampleRead"}]
      /\ seen \in [Threads -> Seqs] /\ readSeq \in Seqs /\ writeSeq \in Seqs /\ lock \in {0, 1}
  BY OverlapStays DEF RingInv, IType, TypeOK, Occupancy
<1>w. CommitWrite => /\ Used(readSeq, writeSeq') \in Nat /\ Used(readSeq, writeSeq) \in Nat
                     /\ Used(readSeq, writeSeq') <= Capacity
                     /\ Used(readSeq, writeSeq') >= Used(readSeq, writeSeq)
  BY <1>1, CommitWriteFits
<1>r. CommitRead => Used(readSeq', writeSeq) <= Capacity
  BY <1>1, CommitReadFits
<1> USE <1>1, ThreadFacts, UsedType DEF RewindsAlone, WriterOccupancy, ReaderOccupancy, Relies,
        Views, Rewinds, Returns, SamplePoints,
        NormalPoints, At, Goto, seqVars, localVars, waitVars, callVars, dataVars, OpenTransaction, Transaction, Other
<1>2. ASSUME NEW t \in Threads, Rests(t) PROVE RewindsAlone'
  BY <1>2 DEF Rests, LocalsKept, QuietPoints, Other
<1>3. ASSUME NEW t \in Threads, SampleRead(t) PROVE RewindsAlone'
  BY <1>3 DEF SampleRead
<1>4. ASSUME NEW t \in Threads, SampleWrite(t) PROVE RewindsAlone'
  <2>1. CASE t = Writer
    BY <1>4, <2>1, BehindNow DEF SampleWrite, SampleDone, EndOperation
  <2>2. CASE t = Reader
    BY <1>4, <2>2 DEF SampleWrite, SampleDone, EndOperation
  <2> QED
    BY <2>1, <2>2
<1>5. ASSUME NEW t \in Threads, SampleLock(t) PROVE RewindsAlone'
  BY <1>5 DEF SampleLock, SampleDone, EndOperation
<1>6. ASSUME NEW t \in Threads, NormalizeZeroRead(t) PROVE RewindsAlone'
  <2>1. lock = 1 /\ ~Relies(Other(t))
    BY <1>6, OverlapStays DEF NormalizeZeroRead, RingInv, NormalizeMutex, Normalizing
  <2> QED
    BY <1>6, <2>1 DEF NormalizeZeroRead
<1>7. ASSUME NEW t \in Threads, NormalizeZeroWrite(t) PROVE RewindsAlone'
  <2>1. lock = 1 /\ pc[Other(t)] # "nZeroWrite"
    BY <1>7 DEF NormalizeZeroWrite, RingInv, NormalizeMutex, Normalizing
  <2>2. Used(readSeq', writeSeq') = 0
    BY <1>7, ValueFacts, UsedNone DEF NormalizeZeroWrite
  <2> QED
    BY <1>7, <2>1, <2>2, RingAssumption DEF NormalizeZeroWrite
<1>8. ASSUME NEW t \in Threads, NormalizeUnlock(t) PROVE RewindsAlone'
  <2>1. pc[Other(t)] \notin {"nZeroWrite", "sampleLock"}
    BY <1>8 DEF NormalizeUnlock, RingInv, NormalizeMutex, Normalizing
  <2> QED
    BY <1>8, <2>1 DEF NormalizeUnlock, NormalizeReturn
<1>9. ASSUME NEW t \in Threads, CheckLockBefore(t) PROVE RewindsAlone'
  BY <1>9 DEF CheckLockBefore, Retry
<1>10. ASSUME NEW t \in Threads, LoadReadSeq(t) PROVE RewindsAlone'
  BY <1>10 DEF LoadReadSeq
<1>11. ASSUME NEW t \in Threads, LoadWriteSeq(t) PROVE RewindsAlone'
  BY <1>11 DEF LoadWriteSeq
<1>12. ASSUME NEW t \in Threads, CheckLockAfter(t) PROVE RewindsAlone'
  BY <1>12 DEF CheckLockAfter, Retry
<1>13. ASSUME NEW t \in Threads, Acquire(t) PROVE RewindsAlone'
  BY <1>13 DEF Acquire, ThrowErrored, EndOperation
<1>14. CASE WriteFrame
  BY <1>14 DEF WriteFrame
<1>15. CASE CommitWrite
  BY <1>15, <1>w DEF CommitWrite
<1>16. CASE ReadHeader
  BY <1>16 DEF ReadHeader, ThrowErrored, EndOperation
<1>17. CASE CommitRead
  BY <1>17, <1>r DEF CommitRead
<1> QED
  BY RestsOrBusy, <1>2, <1>3, <1>4, <1>5, <1>6, <1>7, <1>8, <1>9, <1>10, <1>11, <1>12, <1>13,
     <1>14, <1>15, <1>16, <1>17 DEF Busy, RingInv


LEMMA WriterOccupancyStep ==
    ASSUME RingInv, [Next]_vars, ~overlap'
    PROVE  WriterOccupancy'
<1>1. /\ ~overlap /\ Returns /\ RewindsAlone /\ WriterOccupancy /\ ReaderOccupancy
      /\ pc \in [Threads -> Points] /\ rs \in [Threads -> Seqs] /\ ws \in [Threads -> Seqs]
      /\ ret \in [Threads -> {"idle", "top", "expect", "holding", "sampleRead"}]
      /\ seen \in [Threads -> Seqs] /\ readSeq \in Seqs /\ writeSeq \in Seqs /\ lock \in {0, 1}
  BY OverlapStays DEF RingInv, IType, TypeOK, Occupancy
<1>w. CommitWrite => /\ Used(readSeq, writeSeq') \in Nat /\ Used(readSeq, writeSeq) \in Nat
                     /\ Used(readSeq, writeSeq') <= Capacity
                     /\ Used(readSeq, writeSeq') >= Used(readSeq, writeSeq)
  BY <1>1, CommitWriteFits
<1>r. CommitRead => Used(readSeq', writeSeq) <= Capacity
  BY <1>1, CommitReadFits
<1> USE <1>1, ThreadFacts, UsedType DEF RewindsAlone, WriterOccupancy, ReaderOccupancy, Relies,
        Views, Rewinds, Returns, SamplePoints,
        NormalPoints, At, Goto, seqVars, localVars, waitVars, callVars, dataVars, OpenTransaction, Transaction, Other
<1>2. ASSUME NEW t \in Threads, Rests(t) PROVE WriterOccupancy'
  BY <1>2 DEF Rests, LocalsKept, QuietPoints, Other
<1>3. ASSUME NEW t \in Threads, SampleRead(t) PROVE WriterOccupancy'
  <2>1. ~Rewinds => Behind(readSeq, readSeq, writeSeq)
    BY BehindAtOnce
  <2> QED
    BY <1>3, <2>1 DEF SampleRead
<1>4. ASSUME NEW t \in Threads, SampleWrite(t) PROVE WriterOccupancy'
  BY <1>4 DEF SampleWrite, SampleDone, EndOperation
<1>5. ASSUME NEW t \in Threads, SampleLock(t) PROVE WriterOccupancy'
  BY <1>5 DEF SampleLock, SampleDone, EndOperation
<1>6. ASSUME NEW t \in Threads, NormalizeZeroRead(t) PROVE WriterOccupancy'
  BY <1>6 DEF NormalizeZeroRead
<1>7. ASSUME NEW t \in Threads, NormalizeZeroWrite(t) PROVE WriterOccupancy'
  <2>1. Behind(0, 0, 0)
    BY BehindAtOnce, UsedNone, ValueFacts, RingAssumption
  <2>2. pc[Other(t)] # "nZeroWrite"
    BY <1>7 DEF NormalizeZeroWrite, RingInv, NormalizeMutex, Normalizing
  <2> QED
    BY <1>7, <2>1, <2>2 DEF NormalizeZeroWrite
<1>8. ASSUME NEW t \in Threads, NormalizeUnlock(t) PROVE WriterOccupancy'
  BY <1>8 DEF NormalizeUnlock, NormalizeReturn
<1>9. ASSUME NEW t \in Threads, CheckLockBefore(t) PROVE WriterOccupancy'
  BY <1>9 DEF CheckLockBefore, Retry
<1>10. ASSUME NEW t \in Threads, LoadReadSeq(t) PROVE WriterOccupancy'
  <2>1. ~Rewinds => Behind(readSeq, readSeq, writeSeq)
    BY BehindAtOnce
  <2> QED
    BY <1>10, <2>1 DEF LoadReadSeq
<1>11. ASSUME NEW t \in Threads, LoadWriteSeq(t) PROVE WriterOccupancy'
  BY <1>11 DEF LoadWriteSeq
<1>12. ASSUME NEW t \in Threads, CheckLockAfter(t) PROVE WriterOccupancy'
  BY <1>12 DEF CheckLockAfter, Retry
<1>13. ASSUME NEW t \in Threads, Acquire(t) PROVE WriterOccupancy'
  <2>1. CASE t = Reader
    BY <1>13, <2>1 DEF Acquire, ThrowErrored, EndOperation
  <2>2. CASE t = Writer
    <3>1. pc'[Writer] = "granted" => Used(rs[Writer], writeSeq) + frame.size <= Capacity
      BY <1>13, <2>2, FrameSize, RingAssumption DEF Acquire, Fits, ThrowErrored, EndOperation,
         RingInv, IType
    <3> QED
      BY <1>13, <2>2, <3>1 DEF Acquire, ThrowErrored, EndOperation
  <2> QED
    BY <2>1, <2>2
<1>14. CASE WriteFrame
  BY <1>14 DEF WriteFrame
<1>15. CASE CommitWrite
  BY <1>15 DEF CommitWrite
<1>16. CASE ReadHeader
  BY <1>16 DEF ReadHeader, ThrowErrored, EndOperation
<1>17. CASE CommitRead
  <2>2. \A r \in Seqs : Behind(r, readSeq, writeSeq) => Behind(r, readSeq', writeSeq)
    BY <1>17, CommitReadFits, BehindRead DEF CommitRead
  <2> QED
    BY <1>17, <2>2 DEF CommitRead
<1> QED
  BY RestsOrBusy, <1>2, <1>3, <1>4, <1>5, <1>6, <1>7, <1>8, <1>9, <1>10, <1>11, <1>12, <1>13,
     <1>14, <1>15, <1>16, <1>17 DEF Busy, RingInv


LEMMA ReaderOccupancyStep ==
    ASSUME RingInv, [Next]_vars, ~overlap'
    PROVE  ReaderOccupancy'
<1>1. /\ ~overlap /\ Returns /\ RewindsAlone /\ WriterOccupancy /\ ReaderOccupancy
      /\ pc \in [Threads -> Points] /\ rs \in [Threads -> Seqs] /\ ws \in [Threads -> Seqs]
      /\ ret \in [Threads -> {"idle", "top", "expect", "holding", "sampleRead"}]
      /\ seen \in [Threads -> Seqs] /\ readSeq \in Seqs /\ writeSeq \in Seqs /\ lock \in {0, 1}
  BY OverlapStays DEF RingInv, IType, TypeOK, Occupancy
<1>w. CommitWrite => /\ Used(readSeq, writeSeq') \in Nat /\ Used(readSeq, writeSeq) \in Nat
                     /\ Used(readSeq, writeSeq') <= Capacity
                     /\ Used(readSeq, writeSeq') >= Used(readSeq, writeSeq)
  BY <1>1, CommitWriteFits
<1>r. CommitRead => Used(readSeq', writeSeq) <= Capacity
  BY <1>1, CommitReadFits
<1> USE <1>1, ThreadFacts, UsedType DEF RewindsAlone, WriterOccupancy, ReaderOccupancy, Relies,
        Views, Rewinds, Returns, SamplePoints,
        NormalPoints, At, Goto, seqVars, localVars, waitVars, callVars, dataVars, OpenTransaction, Transaction, Other
<1>2. ASSUME NEW t \in Threads, Rests(t) PROVE ReaderOccupancy'
  BY <1>2 DEF Rests, LocalsKept, QuietPoints, Other
<1>3. ASSUME NEW t \in Threads, SampleRead(t) PROVE ReaderOccupancy'
  BY <1>3 DEF SampleRead
<1>4. ASSUME NEW t \in Threads, SampleWrite(t) PROVE ReaderOccupancy'
  BY <1>4 DEF SampleWrite, SampleDone, EndOperation
<1>5. ASSUME NEW t \in Threads, SampleLock(t) PROVE ReaderOccupancy'
  BY <1>5 DEF SampleLock, SampleDone, EndOperation
<1>6. ASSUME NEW t \in Threads, NormalizeZeroRead(t) PROVE ReaderOccupancy'
  <2>1. lock = 1 /\ ~Relies(Other(t)) /\ pc[Other(t)] # "sampleWrite"
    BY <1>6, OverlapStays DEF NormalizeZeroRead, RingInv, NormalizeMutex, Normalizing
  <2> QED
    BY <1>6, <2>1 DEF NormalizeZeroRead
<1>7. ASSUME NEW t \in Threads, NormalizeZeroWrite(t) PROVE ReaderOccupancy'
  BY <1>7 DEF NormalizeZeroWrite
<1>8. ASSUME NEW t \in Threads, NormalizeUnlock(t) PROVE ReaderOccupancy'
  BY <1>8 DEF NormalizeUnlock, NormalizeReturn
<1>9. ASSUME NEW t \in Threads, CheckLockBefore(t) PROVE ReaderOccupancy'
  BY <1>9 DEF CheckLockBefore, Retry
<1>10. ASSUME NEW t \in Threads, LoadReadSeq(t) PROVE ReaderOccupancy'
  BY <1>10 DEF LoadReadSeq
<1>11. ASSUME NEW t \in Threads, LoadWriteSeq(t) PROVE ReaderOccupancy'
  BY <1>11 DEF LoadWriteSeq
<1>12. ASSUME NEW t \in Threads, CheckLockAfter(t) PROVE ReaderOccupancy'
  BY <1>12 DEF CheckLockAfter, Retry
<1>13. ASSUME NEW t \in Threads, Acquire(t) PROVE ReaderOccupancy'
  <2>1. CASE t = Writer
    BY <1>13, <2>1 DEF Acquire, ThrowErrored, EndOperation
  <2>2. CASE t = Reader
    <3>1. pc'[Reader] = "granted" => Used(readSeq, ws[Reader]) >= HeaderSize
      BY <1>13, <2>2 DEF Acquire, Fits, ThrowErrored, EndOperation
    <3> QED
      BY <1>13, <2>2, <3>1 DEF Acquire, ThrowErrored, EndOperation
  <2> QED
    BY <2>1, <2>2
<1>14. CASE WriteFrame
  BY <1>14 DEF WriteFrame
<1>15. CASE CommitWrite
  <2>1. Used(readSeq, ws[Reader]) \in Nat
    BY UsedType
  <2>2. Views => view.size \in Nat
    BY FrameSize, RingAssumption
  <2>3. Used(readSeq, ws[Reader]) <= Used(readSeq, writeSeq) => Used(readSeq, ws[Reader]) <= Used(readSeq, writeSeq')
    BY ONLY <1>15, <1>w, <2>1
  <2>4. Views /\ view.size <= Used(readSeq, writeSeq) => view.size <= Used(readSeq, writeSeq')
    BY ONLY <1>15, <1>w, <2>2
  <2> QED
    BY <1>15, <2>3, <2>4 DEF CommitWrite
<1>16. CASE ReadHeader
  <2>1. mem[toOffset(rs[Reader])] \in Cells
    BY OffsetType DEF toOffset, Seqs, RingInv, IType, TypeOK
  <2>2. \A c \in Cells : c.kind = "head" => c.frame \in Frames
    BY DEF Cells, Blank
  <2> QED
    BY <1>16, <2>1, <2>2 DEF ReadHeader, ThrowErrored, EndOperation
<1>17. CASE CommitRead
  BY <1>17 DEF CommitRead
<1> QED
  BY RestsOrBusy, <1>2, <1>3, <1>4, <1>5, <1>6, <1>7, <1>8, <1>9, <1>10, <1>11, <1>12, <1>13,
     <1>14, <1>15, <1>16, <1>17 DEF Busy, RingInv

LEMMA OccupancyStep == RingInv /\ [Next]_vars => RingInv'
BY TypeStep, MutexStep, ReturnsStep, RewindsAloneStep, WriterOccupancyStep, ReaderOccupancyStep
   DEF RingInv, Occupancy

LEMMA OccupancyInit == Init => RingInv
<1> SUFFICES ASSUME Init PROVE RingInv
  OBVIOUS
<1>1. Used(0, 0) = 0
  BY RingAssumption, ValueFacts, UsedNone
<1> QED
  BY <1>1, TypeInit, ThreadFacts, RingAssumption
  DEF Init, RingInv, NormalizeMutex, Normalizing, Returns, SamplePoints, NormalPoints, Occupancy,
      RewindsAlone, WriterOccupancy, ReaderOccupancy, Relies, Views, Rewinds

LEMMA RingInvariant == Spec => []RingInv
BY OccupancyInit, OccupancyStep, PTL DEF Spec

(* No thread reaches the branch of computeUsedBytes, sampleUsedBytes or    *)
(* readFrameHeader that calls the ring corrupt, until a normalization hits *)
(* an open transaction.                                                    *)
THEOREM NoFalseErrors == Spec => []NoFalseError
<1>1. RingInv => NoFalseError
  <2> SUFFICES ASSUME RingInv, ~overlap PROVE NoFalseError
    BY DEF NoFalseError
  <2>1. RewindsAlone /\ WriterOccupancy /\ ReaderOccupancy
    BY DEF RingInv, Occupancy
  <2>2. /\ rs[Writer] \in Seqs /\ rs[Reader] \in Seqs /\ ws[Reader] \in Seqs
        /\ readSeq \in Seqs /\ writeSeq \in Seqs
    BY ThreadFacts DEF RingInv, IType, TypeOK
  <2>3. pc[Writer] = "acquire" => Used(rs[Writer], ws[Writer]) <= Capacity
    BY <2>1, <2>2, BehindNow DEF WriterOccupancy
  <2>4. pc[Reader] \in {"acquire", "granted"} => Used(readSeq, writeSeq) <= Capacity /\ rs[Reader] = readSeq
    BY <2>1 DEF RewindsAlone, Rewinds, Relies, ReaderOccupancy
  <2>5. pc[Reader] = "acquire" => Used(rs[Reader], ws[Reader]) <= Capacity
    <3>1. pc[Reader] = "acquire" => Used(readSeq, ws[Reader]) <= Used(readSeq, writeSeq)
      BY <2>1 DEF ReaderOccupancy
    <3>2. Used(readSeq, ws[Reader]) \in Nat /\ Used(readSeq, writeSeq) \in Nat
      BY <2>2, UsedType
    <3> QED
      BY <2>4, <3>1, <3>2, RingAssumption
  <2>6. \A t \in Threads : pc[t] = "sampleLock" => lock = 1
    BY <2>1, ThreadFacts DEF RewindsAlone
  <2> QED
    BY <2>3, <2>4, <2>5, <2>6, ThreadFacts DEF NoFalseError
<1> QED
  BY RingInvariant, <1>1, PTL

=============================================================================
