----------------------------- MODULE SharedRing -----------------------------
(***************************************************************************)
(* One ring of core/ring/shared-ring.ts at the granularity of its Atomics  *)
(* operations.  The WRITER thread runs DuplexEndpoint.writeFrame, the      *)
(* READER thread DuplexEndpoint.receive and FrameReadView.finish; either   *)
(* may run forceClose or markErrored at a point where it awaits.  A thread *)
(* is single threaded JavaScript: between two awaits only the OTHER thread *)
(* interleaves with it, at each access of the shared control words.        *)
(*                                                                         *)
(* Lengths are in frame-alignment units (8 bytes).  READ_SEQ and WRITE_SEQ *)
(* are the code's u32 byte counters, here modulo SeqModulus; RESERVED_0 is     *)
(* `lock'.  DATA_SEQ and SPACE_SEQ are only ever compared with a value     *)
(* loaded earlier, so the model keeps, per thread, whether that value is   *)
(* still current (`fresh'); a counter that wraps its 2^32 values between   *)
(* the load and the comparison is not modelled.  LAST_ERROR only words     *)
(* error messages and is left out.                                         *)
(***************************************************************************)
EXTENDS Integers, Sequences

CONSTANTS
    Capacity,        \* capacityBytes
    SeqModulus,      \* 2^32, the modulus of u32
    Threshold,       \* NORMALIZE_THRESHOLD
    HeaderSize,      \* HEADER_SIZE
    Msgs,            \* frame contents the properties tell apart
    MaxAbandoned     \* bound on wait registrations left behind by an abort

ASSUME RingAssumption ==
    /\ Capacity \in Nat /\ HeaderSize \in Nat /\ SeqModulus \in Nat /\ Threshold \in Nat
    /\ MaxAbandoned \in Nat
    /\ 0 < HeaderSize /\ HeaderSize <= Capacity
    /\ Capacity <= Threshold      \* MAX_CAPACITY_BYTES = NORMALIZE_THRESHOLD
    /\ Threshold < SeqModulus
    /\ Capacity < SeqModulus
    /\ SeqModulus % Capacity = 0      \* both are powers of two

Writer == "writer"
Reader == "reader"
Threads == {Writer, Reader}
Other(t) == IF t = Writer THEN Reader ELSE Writer

Open    == 0
Closing == 1
Closed  == 2
Errored == 3
TransportState == Open .. Errored

Seqs   == 0 .. SeqModulus - 1
Frames == [msg : Msgs, size : HeaderSize .. Capacity]
NoFrame == [msg |-> "none", size |-> 0]
Blank   == [kind |-> "blank", frame |-> NoFrame]
Cells   == {Blank} \cup [kind : {"head", "body"}, frame : Frames]

(* u32(w - r) and u32(s + n) for operands already reduced.                 *)
Used(r, w)    == IF w >= r THEN w - r ELSE w + SeqModulus - r
AdvanceUnwrapped(s, n) == s + n   \* a mutated form, as are the others so named below
Advance(s, n) == IF s + n >= SeqModulus THEN s + n - SeqModulus ELSE s + n
toOffset(s)   == s % Capacity

VARIABLES
    readSeq, writeSeq,   \* control[READ_SEQ], control[WRITE_SEQ]
    state,               \* control[STATE]
    lock,                \* control[RESERVED_0]
    mem,                 \* the data area, one cell per unit
    pc,                  \* where each thread is in its operation
    call,                \* where it is inside markX / wakeAll, "none" outside
    goal,                \* the state the running markX raises the ring to
    ret,                 \* where maybeNormalize / sampleUsedBytes returns to
    rs, ws,              \* the sequence pair the thread loaded
    seen,                \* the READ_SEQ loaded by maybeNormalize / sampleUsedBytes
    fresh,               \* the waitIndex still holds the `expected' loaded
    waiting,             \* the thread is on the waiter list of its waitIndex
    abandoned,           \* aborted SPACE_SEQ waits still on that list
    closed,              \* #closed of the thread's DuplexEndpoint
    frame,               \* the frame being sent
    view,                \* the FrameReadView held by the reader
    queue,               \* history: frames committed and not yet released; ends at `overlap'
    overlap              \* history: a normalization zeroed READ_SEQ while the other
                         \* thread had a transaction open or had just committed one,
                         \* or unlocked under a sample that had seen it half done

seqVars   == <<readSeq, writeSeq>>
localVars == <<ret, rs, ws, seen>>
waitVars  == <<fresh, waiting, abandoned>>
callVars  == <<call, goal, closed>>
dataVars  == <<mem, frame, view, queue>>
vars == <<seqVars, state, lock, pc, localVars, waitVars, callVars, dataVars, overlap>>

-----------------------------------------------------------------------------
AwaitPoints == {"idle", "asleep", "granted", "holding"}
SyncPoints  == {"sampleRead", "sampleWrite", "sampleLock", "top",
                "nRead", "nWrite", "nCas", "nReread", "nRewrite", "nZeroRead",
                "nZeroWrite", "nUnlock", "expect", "lock1", "loadRead",
                "loadWrite", "lock2", "acquire", "recheck", "register",
                "store", "add", "notify"}
Points      == AwaitPoints \cup SyncPoints
CallPoints  == {"none", "mark", "addData", "notifyData", "addSpace", "notifySpace"}
(* From the first RESERVED_0 check to the commit a thread relies on the    *)
(* sequence numbers it loaded: a transaction of waitForSpace and its user. *)
Transaction == {"loadRead", "loadWrite", "lock2", "acquire", "granted",
                "store", "holding", "sampleWrite", "sampleLock"}

Init ==
    /\ readSeq = 0 /\ writeSeq = 0
    /\ state = Open
    /\ lock = 0
    /\ mem = [o \in 0 .. Capacity - 1 |-> Blank]
    /\ pc = [t \in Threads |-> "idle"]
    /\ call = [t \in Threads |-> "none"]
    /\ goal = [t \in Threads |-> Open]
    /\ ret = [t \in Threads |-> "idle"]
    /\ rs = [t \in Threads |-> 0]
    /\ ws = [t \in Threads |-> 0]
    /\ seen = [t \in Threads |-> 0]
    /\ fresh = [t \in Threads |-> FALSE]
    /\ waiting = [t \in Threads |-> FALSE]
    /\ abandoned = 0
    /\ closed = [t \in Threads |-> FALSE]
    /\ frame = NoFrame
    /\ view = NoFrame
    /\ queue = <<>>
    /\ overlap = FALSE

(* sampleUsedBytes between its loads is one as well, and so is the sample  *)
(* endpoint.receive takes while the view it returns is already built.      *)
OpenTransaction(t) == pc[t] \in Transaction \/ ret[t] = "holding"

(* The thread executes its operation at label l.                           *)
At(t, l)   == call[t] = "none" /\ pc[t] = l
Goto(t, l) == pc' = [pc EXCEPT ![t] = l]

(* The operation ends, with a result or an exception: its locals die.      *)
EndOperation(t) ==
    /\ Goto(t, "idle")
    /\ ret' = [ret EXCEPT ![t] = "idle"]
    /\ rs' = [rs EXCEPT ![t] = 0]
    /\ ws' = [ws EXCEPT ![t] = 0]
    /\ seen' = [seen EXCEPT ![t] = 0]
    /\ frame' = IF t = Writer THEN NoFrame ELSE frame
    /\ view' = IF t = Reader THEN NoFrame ELSE view

(* markErrored from inside the operation, which then throws.               *)
ThrowErrored(t) ==
    /\ EndOperation(t)
    /\ goal' = [goal EXCEPT ![t] = Errored]
    /\ call' = [call EXCEPT ![t] = "mark"]

-----------------------------------------------------------------------------
(* sampleUsedBytes: soft on a normalization in progress, but an impossible *)
(* pair still marks the ring errored (observeSaturation only swallows the  *)
(* exception).                                                             *)
SampleRead(t) ==
    /\ At(t, "sampleRead")
    /\ seen' = [seen EXCEPT ![t] = readSeq]
    /\ Goto(t, "sampleWrite")
    /\ UNCHANGED <<seqVars, state, lock, ret, rs, ws, waitVars, callVars, dataVars, overlap>>

SampleDone(t) ==
    IF ret[t] = "idle"
    THEN EndOperation(t)
    ELSE /\ Goto(t, ret[t])
         /\ ret' = [ret EXCEPT ![t] = "idle"]
         /\ seen' = [seen EXCEPT ![t] = 0]
         /\ UNCHANGED <<rs, ws, frame, view>>

SampleWrite(t) ==
    /\ At(t, "sampleWrite")
    /\ IF Used(seen[t], writeSeq) <= Capacity
       THEN SampleDone(t)
       ELSE Goto(t, "sampleLock") /\ UNCHANGED <<localVars, frame, view>>
    /\ UNCHANGED <<seqVars, state, lock, waitVars, callVars, mem, queue, overlap>>

SampleLock(t) ==
    /\ At(t, "sampleLock")
    /\ SampleDone(t)
    /\ IF lock # 0
       THEN UNCHANGED <<call, goal>>
       ELSE /\ goal' = [goal EXCEPT ![t] = Errored]
            /\ call' = [call EXCEPT ![t] = "mark"]
    /\ UNCHANGED <<seqVars, state, lock, waitVars, closed, mem, queue, overlap>>

-----------------------------------------------------------------------------
(* maybeNormalize, called by waitForSpace (ret = "expect") and commitRead  *)
(* (ret = "sampleRead").                                                   *)
NormalizeReturn(t) ==
    /\ Goto(t, ret[t])
    /\ ret' = [ret EXCEPT ![t] = "idle"]
    /\ seen' = [seen EXCEPT ![t] = 0]

NormalizeRead(t) ==
    /\ At(t, "nRead")
    /\ IF readSeq < Threshold
       THEN NormalizeReturn(t)
       ELSE /\ seen' = [seen EXCEPT ![t] = readSeq]
            /\ Goto(t, "nWrite")
            /\ UNCHANGED ret
    /\ UNCHANGED <<seqVars, state, lock, rs, ws, waitVars, callVars, dataVars, overlap>>

NormalizeWrite(t) ==
    /\ At(t, "nWrite")
    /\ IF seen[t] # writeSeq
       THEN NormalizeReturn(t)
       ELSE Goto(t, "nCas") /\ UNCHANGED <<ret, seen>>
    /\ UNCHANGED <<seqVars, state, lock, rs, ws, waitVars, callVars, dataVars, overlap>>

NormalizeLockIgnoringHolder(t) ==
    /\ At(t, "nCas")
    /\ lock' = 1 /\ Goto(t, "nReread") /\ UNCHANGED <<ret, seen>>
    /\ UNCHANGED <<seqVars, state, rs, ws, waitVars, callVars, dataVars, overlap>>

NormalizeLock(t) ==
    /\ At(t, "nCas")
    /\ IF lock # 0
       THEN NormalizeReturn(t) /\ UNCHANGED lock
       ELSE lock' = 1 /\ Goto(t, "nReread") /\ UNCHANGED <<ret, seen>>
    /\ UNCHANGED <<seqVars, state, rs, ws, waitVars, callVars, dataVars, overlap>>

NormalizeReread(t) ==
    /\ At(t, "nReread")
    /\ seen' = [seen EXCEPT ![t] = readSeq]
    /\ Goto(t, "nRewrite")
    /\ UNCHANGED <<seqVars, state, lock, ret, rs, ws, waitVars, callVars, dataVars, overlap>>

NormalizeRewrite(t) ==
    /\ At(t, "nRewrite")
    /\ IF seen[t] = writeSeq /\ seen[t] >= Threshold
       THEN Goto(t, "nZeroRead")
       ELSE Goto(t, "nUnlock")
    /\ UNCHANGED <<seqVars, state, lock, localVars, waitVars, callVars, dataVars, overlap>>

NormalizeZeroRead(t) ==
    /\ At(t, "nZeroRead")
    /\ readSeq' = 0
    /\ overlap' = (overlap \/ OpenTransaction(Other(t)) \/ readSeq # writeSeq)
    /\ queue' = IF overlap' THEN <<>> ELSE queue
    /\ Goto(t, "nZeroWrite")
    /\ UNCHANGED <<writeSeq, state, lock, localVars, waitVars, callVars, mem, frame, view>>

NormalizeZeroWrite(t) ==
    /\ At(t, "nZeroWrite")
    /\ writeSeq' = 0
    /\ call' = [call EXCEPT ![t] = "addData"]
    /\ Goto(t, "nUnlock")
    /\ UNCHANGED <<readSeq, state, lock, localVars, waitVars, goal, closed, dataVars, overlap>>

NormalizeUnlock(t) ==
    /\ At(t, "nUnlock")
    /\ lock' = 0
    /\ overlap' = (overlap \/ pc[Other(t)] = "sampleLock")
    /\ queue' = IF overlap' THEN <<>> ELSE queue
    /\ NormalizeReturn(t)
    /\ UNCHANGED <<seqVars, state, rs, ws, waitVars, callVars, mem, frame, view>>

-----------------------------------------------------------------------------
(* waitForSpace: the loop both waitForWritable and waitForReadable run.    *)
LoopTop(t) ==
    /\ At(t, "top")
    /\ IF t = Writer /\ state # Open
       THEN EndOperation(t)
       ELSE /\ Goto(t, "nRead")
            /\ ret' = [ret EXCEPT ![t] = "expect"]
            /\ UNCHANGED <<rs, ws, seen, frame, view>>
    /\ UNCHANGED <<seqVars, state, lock, waitVars, callVars, mem, queue, overlap>>

LoadExpected(t) ==
    /\ At(t, "expect")
    /\ fresh' = [fresh EXCEPT ![t] = TRUE]
    /\ Goto(t, "lock1")
    /\ UNCHANGED <<seqVars, state, lock, localVars, waiting, abandoned, callVars, dataVars, overlap>>

(* `continue': the loaded pair and the expected value are dropped.         *)
Retry(t) ==
    /\ Goto(t, "top")
    /\ rs' = [rs EXCEPT ![t] = 0]
    /\ ws' = [ws EXCEPT ![t] = 0]
    /\ fresh' = [fresh EXCEPT ![t] = FALSE]

CheckLockBeforeSkipped(t) ==
    /\ At(t, "lock1")
    /\ Goto(t, "loadRead") /\ UNCHANGED <<rs, ws, fresh>>
    /\ UNCHANGED <<seqVars, state, lock, ret, seen, waiting, abandoned, callVars, dataVars, overlap>>

CheckLockBefore(t) ==
    /\ At(t, "lock1")
    /\ IF lock # 0
       THEN Retry(t)
       ELSE Goto(t, "loadRead") /\ UNCHANGED <<rs, ws, fresh>>
    /\ UNCHANGED <<seqVars, state, lock, ret, seen, waiting, abandoned, callVars, dataVars, overlap>>

LoadReadSeq(t) ==
    /\ At(t, "loadRead")
    /\ rs' = [rs EXCEPT ![t] = readSeq]
    /\ Goto(t, "loadWrite")
    /\ UNCHANGED <<seqVars, state, lock, ret, ws, seen, waitVars, callVars, dataVars, overlap>>

LoadWriteSeq(t) ==
    /\ At(t, "loadWrite")
    /\ ws' = [ws EXCEPT ![t] = writeSeq]
    /\ Goto(t, "lock2")
    /\ UNCHANGED <<seqVars, state, lock, ret, rs, seen, waitVars, callVars, dataVars, overlap>>

CheckLockAfter(t) ==
    /\ At(t, "lock2")
    /\ IF lock # 0
       THEN Retry(t)
       ELSE Goto(t, "acquire") /\ UNCHANGED <<rs, ws, fresh>>
    /\ UNCHANGED <<seqVars, state, lock, ret, seen, waiting, abandoned, callVars, dataVars, overlap>>

(* The tryAcquire callbacks of waitForWritable and waitForReadable: what   *)
(* the caller waits for, and when its assertion on STATE throws instead.   *)
Fits(t, used)  == IF t = Writer THEN Capacity - used >= frame.size ELSE used >= HeaderSize
Fails(t, used) == state # Open /\ (t = Writer \/ used = 0)

(* computeUsedBytes, then tryAcquire.                                      *)
Acquire(t) ==
    LET used  == Used(rs[t], ws[t])
        fits  == Fits(t, used)
        fails == Fails(t, used)
    IN
    /\ At(t, "acquire")
    /\ \/ /\ used > Capacity
          /\ ThrowErrored(t)
       \/ /\ used <= Capacity /\ fails
          /\ EndOperation(t)
          /\ UNCHANGED <<call, goal>>
       \/ /\ used <= Capacity /\ ~fails
          /\ Goto(t, IF fits THEN "granted" ELSE "recheck")
          /\ UNCHANGED <<localVars, frame, view, call, goal>>
    /\ fresh' = IF pc'[t] = "recheck" THEN fresh ELSE [fresh EXCEPT ![t] = FALSE]
    /\ UNCHANGED <<seqVars, state, lock, waiting, abandoned, closed, mem, queue, overlap>>

(* Not enough room or data: a moved waitIndex means there is news.  An     *)
(* exhausted deadline is noticed here too.                                 *)
Recheck(t) ==
    /\ At(t, "recheck")
    /\ IF fresh[t]
       THEN Goto(t, "register") /\ UNCHANGED <<rs, ws, fresh>>
       ELSE Retry(t)
    /\ UNCHANGED <<seqVars, state, lock, ret, seen, waiting, abandoned, callVars, dataVars, overlap>>

(* Atomics.waitAsync compares and enlists in one critical section.         *)
RegisterWithoutCompare(t) ==
    /\ At(t, "register")
    /\ waiting' = [waiting EXCEPT ![t] = TRUE]
    /\ fresh' = [fresh EXCEPT ![t] = FALSE]
    /\ rs' = [rs EXCEPT ![t] = 0]
    /\ ws' = [ws EXCEPT ![t] = 0]
    /\ Goto(t, "asleep")
    /\ UNCHANGED <<seqVars, state, lock, ret, seen, abandoned, callVars, dataVars, overlap>>

Register(t) ==
    /\ At(t, "register")
    /\ IF fresh[t]
       THEN /\ waiting' = [waiting EXCEPT ![t] = TRUE]
            /\ fresh' = [fresh EXCEPT ![t] = FALSE]
            /\ rs' = [rs EXCEPT ![t] = 0]
            /\ ws' = [ws EXCEPT ![t] = 0]
            /\ Goto(t, "asleep")
       ELSE Retry(t) /\ UNCHANGED waiting
    /\ UNCHANGED <<seqVars, state, lock, ret, seen, abandoned, callVars, dataVars, overlap>>

Resume(t) ==
    /\ At(t, "asleep") /\ ~waiting[t]
    /\ Goto(t, "top")
    /\ UNCHANGED <<seqVars, state, lock, localVars, waitVars, callVars, dataVars, overlap>>

(* The deadline passes, in waitAsync or just before it.                    *)
WaitTimeout(t) ==
    /\ At(t, "asleep") \/ At(t, "register")
    /\ EndOperation(t)
    /\ waiting' = [waiting EXCEPT ![t] = FALSE]
    /\ fresh' = [fresh EXCEPT ![t] = FALSE]
    /\ UNCHANGED <<seqVars, state, lock, abandoned, callVars, mem, queue, overlap>>

(* raceWaitWithAbort: the signal of the send aborts the wait.  The promise *)
(* of waitAsync is dropped, its registration stays on the waiter list.     *)
(* Only sends pass a signal; receive does not.                             *)
WaitAbort ==
    /\ At(Writer, "asleep")
    /\ waiting[Writer] => abandoned < MaxAbandoned
    /\ EndOperation(Writer)
    /\ waiting' = [waiting EXCEPT ![Writer] = FALSE]
    /\ abandoned' = IF waiting[Writer] THEN abandoned + 1 ELSE abandoned
    /\ UNCHANGED <<seqVars, state, lock, fresh, callVars, mem, queue, overlap>>

-----------------------------------------------------------------------------
(* DuplexEndpoint.send / writeFrame.                                       *)
StartWrite(f) ==
    /\ At(Writer, "idle") /\ ~closed[Writer]
    /\ frame' = f
    /\ ret' = [ret EXCEPT ![Writer] = "top"]
    /\ Goto(Writer, "sampleRead")
    /\ UNCHANGED <<seqVars, state, lock, rs, ws, seen, waitVars, callVars, mem, view, queue, overlap>>

WriteFrameWithoutSplit ==
    /\ At(Writer, "granted")
    /\ mem' = [o \in 0 .. Capacity - 1 |->
                 LET i == o - toOffset(ws[Writer])
                 IN  IF i \in 0 .. frame.size - 1
                     THEN [kind |-> IF i = 0 THEN "head" ELSE "body", frame |-> frame]
                     ELSE mem[o]]
    /\ Goto(Writer, "store")
    /\ UNCHANGED <<seqVars, state, lock, localVars, waitVars, callVars, frame, view, queue, overlap>>

(* Header, payload and padding are plain stores into the granted region.   *)
WriteFrame ==
    /\ At(Writer, "granted")
    /\ mem' = [o \in 0 .. Capacity - 1 |->
                 LET i == (o - toOffset(ws[Writer])) % Capacity
                 IN  IF i < frame.size
                     THEN [kind |-> IF i = 0 THEN "head" ELSE "body", frame |-> frame]
                     ELSE mem[o]]
    /\ Goto(Writer, "store")
    /\ UNCHANGED <<seqVars, state, lock, localVars, waitVars, callVars, frame, view, queue, overlap>>

CommitWrite ==
    /\ At(Writer, "store")
    /\ writeSeq' = Advance(ws[Writer], frame.size)
    /\ queue' = IF overlap THEN queue ELSE Append(queue, frame)
    /\ Goto(Writer, "add")
    /\ UNCHANGED <<readSeq, state, lock, localVars, waitVars, callVars, mem, frame, view, overlap>>

CommitWriteAdd ==
    /\ At(Writer, "add")
    /\ fresh' = [fresh EXCEPT ![Reader] = FALSE]
    /\ Goto(Writer, "notify")
    /\ UNCHANGED <<seqVars, state, lock, localVars, waiting, abandoned, callVars, dataVars, overlap>>

CommitWriteNotifyDropped ==
    /\ At(Writer, "notify")
    /\ ret' = [ret EXCEPT ![Writer] = "idle"]
    /\ Goto(Writer, "sampleRead")
    /\ UNCHANGED <<seqVars, state, lock, rs, ws, seen, waitVars, callVars, dataVars, overlap>>

CommitWriteNotify ==
    /\ At(Writer, "notify")
    /\ waiting' = [waiting EXCEPT ![Reader] = FALSE]
    /\ ret' = [ret EXCEPT ![Writer] = "idle"]
    /\ Goto(Writer, "sampleRead")
    /\ UNCHANGED <<seqVars, state, lock, rs, ws, seen, fresh, abandoned, callVars, dataVars, overlap>>

-----------------------------------------------------------------------------
(* DuplexEndpoint.receive, FrameReadView and commitRead.                   *)
StartRead ==
    /\ At(Reader, "idle") /\ ~closed[Reader]
    /\ Goto(Reader, "top")
    /\ UNCHANGED <<seqVars, state, lock, localVars, waitVars, callVars, dataVars, overlap>>

(* readFrameHeader and the FrameReadView constructor: a bad or truncated   *)
(* header makes endpoint.receive mark the endpoint errored.                *)
ReadHeader ==
    LET cell  == mem[toOffset(rs[Reader])]
        avail == Used(rs[Reader], writeSeq)
        valid == cell.kind = "head" /\ cell.frame.size <= avail /\ avail <= Capacity
    IN
    /\ At(Reader, "granted")
    /\ IF valid
       THEN /\ view' = cell.frame
            /\ ret' = [ret EXCEPT ![Reader] = "holding"]
            /\ Goto(Reader, "sampleRead")
            /\ UNCHANGED <<rs, ws, seen, frame, callVars>>
       ELSE /\ ThrowErrored(Reader)
            /\ closed' = [closed EXCEPT ![Reader] = TRUE]
    /\ UNCHANGED <<seqVars, state, lock, waitVars, mem, queue, overlap>>

CommitRead ==
    /\ At(Reader, "holding")
    /\ readSeq' = Advance(rs[Reader], view.size)
    /\ queue' = IF overlap \/ queue = <<>> THEN queue ELSE Tail(queue)
    /\ Goto(Reader, "add")
    /\ UNCHANGED <<writeSeq, state, lock, localVars, waitVars, callVars, mem, frame, view, overlap>>

CommitReadAdd ==
    /\ At(Reader, "add")
    /\ fresh' = [fresh EXCEPT ![Writer] = FALSE]
    /\ Goto(Reader, "notify")
    /\ UNCHANGED <<seqVars, state, lock, localVars, waiting, abandoned, callVars, dataVars, overlap>>

NotifyOneSpaceLost == UNCHANGED <<waiting, abandoned>>

(* Atomics.notify(SPACE_SEQ, 1) releases the oldest registration.          *)
NotifyOneSpace ==
    IF abandoned > 0
    THEN abandoned' = abandoned - 1 /\ UNCHANGED waiting
    ELSE waiting' = [waiting EXCEPT ![Writer] = FALSE] /\ UNCHANGED abandoned

CommitReadNotify ==
    LET next == Advance(rs[Reader], view.size) IN
    /\ At(Reader, "notify")
    /\ NotifyOneSpace
    /\ IF next >= Threshold
       THEN Goto(Reader, "nRead") /\ ret' = [ret EXCEPT ![Reader] = "sampleRead"]
       ELSE Goto(Reader, "sampleRead") /\ ret' = [ret EXCEPT ![Reader] = "idle"]
    /\ UNCHANGED <<seqVars, state, lock, rs, ws, seen, fresh, callVars, dataVars, overlap>>

-----------------------------------------------------------------------------
(* forceClose runs markClosing then markClosed on this ring.               *)
ForceClose(t) ==
    /\ call[t] = "none" /\ pc[t] \in AwaitPoints /\ ~closed[t]
    /\ closed' = [closed EXCEPT ![t] = TRUE]
    /\ goal' = [goal EXCEPT ![t] = Closing]
    /\ call' = [call EXCEPT ![t] = "mark"]
    /\ UNCHANGED <<seqVars, state, lock, pc, localVars, waitVars, dataVars, overlap>>

(* DuplexEndpoint.markErrored, when the thread's other ring or the layer   *)
(* above reports a protocol error; explored once per ring.                 *)
MarkErrored(t) ==
    /\ call[t] = "none" /\ pc[t] \in AwaitPoints /\ state # Errored
    /\ closed' = [closed EXCEPT ![t] = TRUE]
    /\ goal' = [goal EXCEPT ![t] = Errored]
    /\ call' = [call EXCEPT ![t] = "mark"]
    /\ UNCHANGED <<seqVars, state, lock, pc, localVars, waitVars, dataVars, overlap>>

UpdateStateBlindly(t) ==
    /\ call[t] = "mark"
    /\ state' = goal[t]
    /\ call' = [call EXCEPT ![t] = "addData"]
    /\ UNCHANGED <<seqVars, lock, pc, localVars, waitVars, goal, closed, dataVars, overlap>>

(* updateState: the CAS loop raises STATE and never lowers it.             *)
UpdateState(t) ==
    /\ call[t] = "mark"
    /\ state' = IF state >= goal[t] THEN state ELSE goal[t]
    /\ call' = [call EXCEPT ![t] = "addData"]
    /\ UNCHANGED <<seqVars, lock, pc, localVars, waitVars, goal, closed, dataVars, overlap>>

(* wakeAll: bump and notify both wait indexes.                             *)
WakeAddData(t) ==
    /\ call[t] = "addData"
    /\ fresh' = [fresh EXCEPT ![Reader] = FALSE]
    /\ call' = [call EXCEPT ![t] = "notifyData"]
    /\ UNCHANGED <<seqVars, state, lock, pc, localVars, waiting, abandoned, goal, closed, dataVars, overlap>>

WakeNotifyData(t) ==
    /\ call[t] = "notifyData"
    /\ waiting' = [waiting EXCEPT ![Reader] = FALSE]
    /\ call' = [call EXCEPT ![t] = "addSpace"]
    /\ UNCHANGED <<seqVars, state, lock, pc, localVars, fresh, abandoned, goal, closed, dataVars, overlap>>

WakeAddSpace(t) ==
    /\ call[t] = "addSpace"
    /\ fresh' = [fresh EXCEPT ![Writer] = FALSE]
    /\ call' = [call EXCEPT ![t] = "notifySpace"]
    /\ UNCHANGED <<seqVars, state, lock, pc, localVars, waiting, abandoned, goal, closed, dataVars, overlap>>

WakeNotifySpaceDropped(t) ==
    /\ call[t] = "notifySpace"
    /\ IF goal[t] = Closing
       THEN /\ goal' = [goal EXCEPT ![t] = Closed]
            /\ call' = [call EXCEPT ![t] = "mark"]
       ELSE /\ goal' = [goal EXCEPT ![t] = Open]
            /\ call' = [call EXCEPT ![t] = "none"]
    /\ UNCHANGED <<seqVars, state, lock, pc, localVars, waitVars, closed, dataVars, overlap>>

WakeNotifySpace(t) ==
    /\ call[t] = "notifySpace"
    /\ waiting' = [waiting EXCEPT ![Writer] = FALSE]
    /\ abandoned' = 0
    /\ IF goal[t] = Closing
       THEN /\ goal' = [goal EXCEPT ![t] = Closed]
            /\ call' = [call EXCEPT ![t] = "mark"]
       ELSE /\ goal' = [goal EXCEPT ![t] = Open]
            /\ call' = [call EXCEPT ![t] = "none"]
    /\ UNCHANGED <<seqVars, state, lock, pc, localVars, fresh, closed, dataVars, overlap>>

-----------------------------------------------------------------------------
Sample(t)    == SampleRead(t) \/ SampleWrite(t) \/ SampleLock(t)
Normalize(t) == \/ NormalizeRead(t) \/ NormalizeWrite(t) \/ NormalizeLock(t)
                \/ NormalizeReread(t) \/ NormalizeRewrite(t)
                \/ NormalizeZeroRead(t) \/ NormalizeZeroWrite(t) \/ NormalizeUnlock(t)
WaitLoop(t)  == \/ LoopTop(t) \/ LoadExpected(t) \/ CheckLockBefore(t)
                \/ LoadReadSeq(t) \/ LoadWriteSeq(t) \/ CheckLockAfter(t)
                \/ Acquire(t) \/ Recheck(t) \/ Register(t) \/ Resume(t)
Mark(t)      == \/ UpdateState(t) \/ WakeAddData(t) \/ WakeNotifyData(t)
                \/ WakeAddSpace(t) \/ WakeNotifySpace(t)
Write        == WriteFrame \/ CommitWrite \/ CommitWriteAdd \/ CommitWriteNotify
Read         == ReadHeader \/ CommitRead \/ CommitReadAdd \/ CommitReadNotify

(* What a thread does by itself once an operation has been started.        *)
Step(t) == \/ Sample(t) \/ Normalize(t) \/ WaitLoop(t) \/ Mark(t)
           \/ t = Writer /\ Write
           \/ t = Reader /\ Read

Next ==
    \/ \E t \in Threads : Step(t) \/ WaitTimeout(t) \/ ForceClose(t) \/ MarkErrored(t)
    \/ \E f \in Frames : StartWrite(f)
    \/ StartRead
    \/ WaitAbort

Spec == Init /\ [][Next]_vars

(* Every started operation runs on, and the receive loops of the client    *)
(* and the server call receive again after each frame.                     *)
FairSpec == Spec /\ (\A t \in Threads : WF_vars(Step(t))) /\ WF_vars(StartRead)

-----------------------------------------------------------------------------
TypeOK ==
    /\ readSeq \in Seqs /\ writeSeq \in Seqs
    /\ state \in TransportState
    /\ lock \in {0, 1}
    /\ mem \in [0 .. Capacity - 1 -> Cells]
    /\ pc \in [Threads -> Points]
    /\ call \in [Threads -> CallPoints]
    /\ goal \in [Threads -> TransportState]
    /\ ret \in [Threads -> {"idle", "top", "expect", "holding", "sampleRead"}]
    /\ rs \in [Threads -> Seqs] /\ ws \in [Threads -> Seqs] /\ seen \in [Threads -> Seqs]
    /\ fresh \in [Threads -> BOOLEAN] /\ waiting \in [Threads -> BOOLEAN]
    /\ abandoned \in 0 .. MaxAbandoned
    /\ closed \in [Threads -> BOOLEAN]
    /\ frame \in Frames \cup {NoFrame}
    /\ view \in Frames \cup {NoFrame}
    /\ queue \in Seq(Frames)
    /\ overlap \in BOOLEAN

(* RESERVED_0 is a lock: at most one thread is between its successful      *)
(* compareExchange and its unlock, and the word is 1 exactly while one is. *)
Normalizing(t) == pc[t] \in {"nReread", "nRewrite", "nZeroRead", "nZeroWrite", "nUnlock"}
NormalizeMutex ==
    /\ lock = 1 <=> \E t \in Threads : Normalizing(t)
    /\ ~(Normalizing(Writer) /\ Normalizing(Reader))

Rewinding == \E t \in Threads : pc[t] = "nZeroWrite"

(* Until a normalization hits an open transaction, no thread reaches the   *)
(* `observed invalid usedBytes' branch of computeUsedBytes: not from a     *)
(* pair it loaded, not from a sample unless a normalization is under way,  *)
(* not when it checks a header's frame size.                               *)
NoFalseError ==
    ~overlap =>
        /\ \A t \in Threads : pc[t] = "acquire" => Used(rs[t], ws[t]) <= Capacity
        /\ \A t \in Threads : pc[t] = "sampleLock" => lock = 1
        /\ pc[Reader] = "granted" => Used(rs[Reader], writeSeq) <= Capacity

(* Nobody sleeps through progress: if the reader is enlisted on DATA_SEQ   *)
(* while a header is readable, or the ring has ended empty, the thread     *)
(* that made it so has still to issue its notify.                          *)
DataNews == \/ Used(readSeq, writeSeq) >= HeaderSize
            \/ state # Open /\ Used(readSeq, writeSeq) = 0
DataNotifyDue ==
    \/ pc[Writer] \in {"add", "notify"}
    \/ Rewinding
    \/ \E t \in Threads : call[t] \in {"addData", "notifyData"}
NoStrandedReader == waiting[Reader] /\ DataNews => DataNotifyDue

(* The same for a writer enlisted on SPACE_SEQ.                            *)
SpaceNews == \/ Capacity - Used(readSeq, writeSeq) >= frame.size
             \/ state # Open
SpaceNotifyDue ==
    \/ pc[Reader] \in {"add", "notify"}
    \/ Rewinding
    \/ \E t \in Threads : call[t] \in {"addData", "notifyData", "addSpace", "notifySpace"}
NoStrandedWriter == waiting[Writer] /\ SpaceNews => SpaceNotifyDue
=============================================================================
