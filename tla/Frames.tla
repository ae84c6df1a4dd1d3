--------------------------------- MODULE Frames --------------------------------
(***************************************************************************)
(* What DuplexEndpoint (core/ring/endpoint.ts) puts on a ring, byte by     *)
(* byte: a header, a payload of the measured length and padding, in the    *)
(* positions modulo the capacity, by one of three writers, and how the     *)
(* other end validates and reads it.                                       *)
(*                                                                         *)
(* A payload is measured, then the send waits for space, then it is        *)
(* written: its owner may resize it in between (an array or object may     *)
(* change, the buffer of a Uint8Array may be detached, which leaves 0      *)
(* bytes; that a Uint8Array over a resizable buffer grows is left out).    *)
(* The grant of space and the commit are those of SharedRing, each one     *)
(* step here; the writer's bytes all go in one turn.  A byte is known by   *)
(* the frame it was written for and its place there.                       *)
(*                                                                         *)
(* The writers: "aligned" copies a Uint8Array behind a prefix with its     *)
(* length, "trusted" is a specialized strategy for a witnessed codec, and  *)
(* "checked" is RingBinaryWriter.                                          *)
(*                                                                         *)
(* Each end counts what it sends or receives and watches how full the ring *)
(* gets, for its snapshots.                                                *)
(***************************************************************************)
EXTENDS Naturals, Sequences, FiniteSets, Observability

CONSTANTS
    Capacity, HeaderSize, Alignment, PrefixSize,   \* in the code, a power of two, 32, 8 and 8
    Modulus,      \* 2^32 in the code
    Starts,       \* the sequence numbers a behavior may start from
    Writers,      \* those in use
    Sizes,        \* of payloads
    MaxFrames     \* bounds the sends

ASSUME FramesAssumption ==
    /\ {Capacity, HeaderSize, Alignment, PrefixSize} \subseteq Nat \ {0}
    /\ {Modulus, MaxFrames} \subseteq Nat
    /\ HeaderSize % Alignment = 0 /\ Capacity % Alignment = 0
    /\ Capacity >= HeaderSize /\ Modulus % Capacity = 0 /\ Modulus > Capacity
    /\ Starts \subseteq {s \in 0 .. Modulus - 1 : s % Alignment = 0}
    /\ Writers \subseteq {"aligned", "trusted", "checked"} /\ Sizes \subseteq Nat

VARIABLES
    data,        \* the bytes of the ring
    readSeq, writeSeq,
    send,        \* the send under way, or Idle
    view,        \* the FrameReadView that is not finished, or Idle
    errored,     \* the transport is
    committed,   \* the frames committed so far, as they were measured
    received,    \* the frames handed over so far
    sends,       \* the number of sends so far
    out, in      \* what the sending and the receiving end have counted of this ring

ring == <<data, readSeq, writeSeq>>
vars == <<data, readSeq, writeSeq, send, view, errored, committed, received, sends, out, in>>

Idle == <<>>
Blank == <<"blank">>
Used == (writeSeq + Modulus - readSeq) % Modulus
After(seq, n) == (seq + n) % Modulus
toOffset(seq) == seq % Capacity

(* What an endpoint counts: frames, failures, sizes and the saturation.     *)
NoCounts == [frames |-> 0, errors |-> 0, sizes |-> createHistogram, timeline |-> NoTimeline]
observeSaturation(counts, used) ==
    [counts EXCEPT !.timeline = observeRingSaturationSample(@, used, Capacity)]
CountFrame(counts, size) ==
    [counts EXCEPT !.frames = @ + 1, !.sizes = recordHistogramValue(@, size)]
CountError(counts) == [counts EXCEPT !.errors = @ + 1]

Init ==
    /\ data = [k \in 0 .. Capacity - 1 |-> Blank]
    /\ readSeq \in Starts /\ writeSeq = readSeq
    /\ send = Idle /\ view = Idle /\ errored = FALSE
    /\ committed = <<>> /\ received = <<>> /\ sends = 0
    /\ out = NoCounts /\ in = NoCounts

-----------------------------------------------------------------------------
(* Bytes to and from the ring: up to its end, and the rest from its start. *)
FirstLength(seq, n) == IF n <= Capacity - toOffset(seq) THEN n ELSE Capacity - toOffset(seq)

writeBytesStraddling(d, seq, bytes) ==   \* a mutated form
    [k \in DOMAIN d |->
        IF k - toOffset(seq) \in 0 .. FirstLength(seq, Len(bytes)) - 1
        THEN bytes[k - toOffset(seq) + 1]
        ELSE IF k < Len(bytes) - FirstLength(seq, Len(bytes)) THEN bytes[k + 1] ELSE d[k]]
writeBytes(d, seq, bytes) ==
    LET first == FirstLength(seq, Len(bytes))
    IN  [k \in DOMAIN d |->
            IF k >= toOffset(seq) /\ k < toOffset(seq) + first THEN bytes[k - toOffset(seq) + 1]
            ELSE IF k < Len(bytes) - first THEN bytes[first + k + 1]
            ELSE d[k]]

readBytes(seq, n) ==
    [i \in 1 .. n |-> IF i <= FirstLength(seq, n) THEN data[toOffset(seq) + i - 1]
                      ELSE data[i - FirstLength(seq, n) - 1]]

zeroFill(d, seq, n) == writeBytes(d, seq, [i \in 1 .. n |-> <<"zero">>])

-----------------------------------------------------------------------------
(* The layout of a frame.                                                  *)
Align(n) == ((n + Alignment - 1) \div Alignment) * Alignment
FrameSize(length) == Align(HeaderSize + length)
Fits(length) == length <= Capacity - HeaderSize
PaddingFromPayload(length) == FrameSize(length) - length   \* a mutated form
Padding(length) == FrameSize(length) - HeaderSize - length

EncodedLength(writer, size) == IF writer = "aligned" THEN size + PrefixSize ELSE size
BodyLength(f) == IF f.writer = "aligned" THEN f.length - PrefixSize ELSE f.length

Header(f) ==
    [i \in 1 .. HeaderSize |-> <<"header", i, [id |-> f.id, writer |-> f.writer, length |-> f.length]>>]
Prefix(size) == [i \in 1 .. PrefixSize |-> <<"prefix", i, size>>]
Body(id, n) == [i \in 1 .. n |-> <<"body", id, i>>]

-----------------------------------------------------------------------------
(* writeFrame.  The oversize check is on the payload: the capacity is a    *)
(* multiple of the alignment, so the frame then fits as well.              *)
Measure ==
    /\ send = Idle /\ ~errored /\ sends < MaxFrames
    /\ \E w \in Writers, n \in Sizes :
          IF Fits(EncodedLength(w, n))
          THEN /\ send' = [id |-> sends + 1, writer |-> w, length |-> EncodedLength(w, n), size |-> n]
               /\ out' = observeSaturation(out, Used)
          ELSE out' = CountError(out) /\ UNCHANGED send
    /\ sends' = sends + 1
    /\ UNCHANGED <<ring, view, errored, committed, received, in>>

Resize ==
    /\ send # Idle
    /\ \E n \in (IF send.writer = "aligned" THEN {0} ELSE Sizes) :
          n # send.size /\ send' = [send EXCEPT !.size = n]
    /\ UNCHANGED <<ring, view, errored, committed, received, sends, out, in>>

(* The wait for space is given up: a timeout, an abort, or the ring's end. *)
SendFails ==
    /\ send # Idle
    /\ send' = Idle /\ out' = CountError(out)
    /\ UNCHANGED <<ring, view, errored, committed, received, sends, in>>

(* What reaches the ring: an empty measure skips the writing, the checked  *)
(* writer stops at the measured length, and the strategies of the trusted  *)
(* one measure again before their first byte.                              *)
AlignedWrite(f) == Prefix(f.size) \o Body(f.id, f.size)
TrustedWrite(f) == IF f.size = f.length THEN Body(f.id, f.size) ELSE <<>>
CheckedWrite(f) == Body(f.id, IF f.size <= f.length THEN f.size ELSE f.length)
Reached(f) ==
    CASE f.length = 0 -> <<>>
      [] f.length # 0 /\ f.writer = "aligned" -> AlignedWrite(f)
      [] f.length # 0 /\ f.writer = "trusted" -> TrustedWrite(f)
      [] f.length # 0 /\ f.writer = "checked" -> CheckedWrite(f)

MismatchThrows(f) == f.writer # "aligned" /\ f.length # 0 /\ f.size # f.length

Granted(length) == Capacity - Used >= FrameSize(length)

CountSentPayload(counts, f) == CountFrame(counts, f.length)   \* a mutated form
CountSent(counts, f) == CountFrame(counts, FrameSize(f.length))

Write ==
    /\ send # Idle /\ ~errored /\ Granted(send.length)
    /\ LET payloadSeq == After(writeSeq, HeaderSize)
           written == writeBytes(writeBytes(data, writeSeq, Header(send)), payloadSeq, Reached(send))
       IN  IF MismatchThrows(send)
           THEN data' = written /\ out' = CountError(out) /\ UNCHANGED <<writeSeq, committed>>
           ELSE /\ data' = zeroFill(written, After(payloadSeq, send.length), Padding(send.length))
                /\ writeSeq' = After(writeSeq, FrameSize(send.length))
                /\ committed' = Append(committed, send)
                /\ out' = observeSaturation(CountSent(out, send), Used + FrameSize(send.length))
    /\ send' = Idle
    /\ UNCHANGED <<readSeq, view, errored, received, sends, in>>

-----------------------------------------------------------------------------
(* receive and FrameReadView.                                              *)
ReadHeader == readBytes(readSeq, HeaderSize)
ValidHeader ==
    LET h == ReadHeader[1]
    IN  /\ h[1] = "header" /\ ReadHeader = Header(h[3])
        /\ Fits(h[3].length) /\ Used >= FrameSize(h[3].length)

ValidateAnyPrefix(h) == h.writer = "aligned" => h.length >= PrefixSize   \* a mutated form
ValidateAligned(h) ==
    h.writer = "aligned" =>
        /\ h.length >= PrefixSize
        /\ readBytes(After(readSeq, HeaderSize), PrefixSize) = Prefix(h.length - PrefixSize)

(* With the fast path the prefix is validated when the view is made,       *)
(* without it when the payload is read.                                    *)
Receive ==
    /\ view = Idle /\ ~errored /\ Used >= HeaderSize
    /\ \E fastPath \in BOOLEAN :
          IF ValidHeader /\ (fastPath => ValidateAligned(ReadHeader[1][3]))
          THEN /\ view' = ReadHeader[1][3]
               /\ in' = observeSaturation(CountFrame(in, FrameSize(ReadHeader[1][3].length)), Used)
               /\ UNCHANGED errored
          ELSE errored' = TRUE /\ in' = CountError(in) /\ UNCHANGED view
    /\ UNCHANGED <<ring, send, committed, received, sends, out>>

BodySeq(f) ==
    After(readSeq, HeaderSize + (IF f.writer = "aligned" THEN PrefixSize ELSE 0))

ReadBody(f) == readBytes(BodySeq(f), BodyLength(f))

Read ==
    /\ view # Idle /\ ~errored
    /\ IF ValidateAligned(view)
       THEN /\ received' = Append(received, [id |-> view.id, body |-> ReadBody(view)])
            /\ UNCHANGED errored
       ELSE errored' = TRUE /\ UNCHANGED received
    /\ readSeq' = After(readSeq, FrameSize(view.length))
    /\ view' = Idle
    /\ in' = observeSaturation(in, Used - FrameSize(view.length))
    /\ UNCHANGED <<data, writeSeq, send, committed, sends, out>>

Next == Measure \/ Resize \/ SendFails \/ Write \/ Receive \/ Read
Spec == Init /\ [][Next]_vars

-----------------------------------------------------------------------------
FrameHeaders == [id : 1 .. MaxFrames, writer : Writers, length : Nat]
TypeOK ==
    /\ DOMAIN data = 0 .. Capacity - 1
    /\ {readSeq, writeSeq} \subseteq 0 .. Modulus - 1 /\ Used <= Capacity
    /\ send # Idle => send \in [id : 1 .. MaxFrames, writer : Writers, length : Nat, size : Nat]
    /\ view # Idle => view \in FrameHeaders
    /\ errored \in BOOLEAN /\ sends \in 0 .. MaxFrames
    /\ Len(received) <= Len(committed)

(* Whatever was resized while its send waited, and wherever the frames     *)
(* meet the end of the ring, the reader gets the committed frames in       *)
(* order and each one as it was measured.  It rejects one only when that   *)
(* is an aligned payload that was resized.                                 *)
Whole(f) == [id |-> f.id, body |-> Body(f.id, BodyLength(f))]
FramesArriveWhole ==
    /\ \A i \in DOMAIN received : received[i] = Whole(committed[i])
    /\ errored => \E i \in DOMAIN committed :
                      /\ committed[i].writer = "aligned"
                      /\ committed[i].length # EncodedLength("aligned", committed[i].size)

(* No send, not even one that fails half-way, touches the bytes of a frame *)
(* that is committed and has not been read.                                *)
UnreadUntouched ==
    [][\A n \in 0 .. Used - 1 :
          LET k == toOffset(After(readSeq, n)) IN data'[k] = data[k]]_vars

(* The two ends count alike: every send is counted once, as a frame or as  *)
(* a failure; the receiver never counts more than the sender, and when     *)
(* nothing is under way both have the same histogram of sizes.             *)
UnderWay == Used - (IF view = Idle THEN 0 ELSE FrameSize(view.length))
EndsCountAlike ==
    /\ sends = out.frames + out.errors + (IF send = Idle THEN 0 ELSE 1)
    /\ \A counts \in {out, in} : /\ counts.frames = counts.sizes.totalCount
                                /\ counts.frames = BucketTotal(counts.sizes)
    /\ \A b \in DOMAIN BucketStarts : in.sizes.buckets[b].count <= out.sizes.buckets[b].count
    /\ UnderWay = 0 /\ ~errored => in.sizes = out.sizes

(* However long a timeline gets, a period of saturation that is not over   *)
(* is in its list, one for each threshold that is exceeded; a period at a  *)
(* higher threshold is within one at each lower threshold; and the list    *)
(* stays within the limit, unless nothing in it is over.                   *)
TimelinesFaithful ==
    \A counts \in {out, in} :
        LET t == counts.timeline
            Open == {i \in DOMAIN t.events : ~t.events[i].exited}
        IN  /\ {t.events[i].threshold : i \in Open} = t.active
            /\ Cardinality(Open) = Cardinality(t.active)
            /\ \A high \in t.active : \A i \in DOMAIN Thresholds : Thresholds[i] < high =>
                    \E lower, i2 \in Open : /\ t.events[i2].threshold = high
                                           /\ t.events[lower].threshold = Thresholds[i]
                                           /\ lower < i2 /\ t.events[lower].peak >= t.events[i2].peak
            /\ \A i \in DOMAIN t.events : Above(t.events[i].threshold, t.events[i].peak, Capacity)
            /\ Len(t.events) <= TimelineLimit \/ Len(t.events) <= Len(Thresholds)
================================================================================
