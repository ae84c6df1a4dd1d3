----------------------------- MODULE Observability -----------------------------
(***************************************************************************)
(* What an endpoint keeps for its snapshots (core/rpc/observability.ts):   *)
(* a histogram of frame sizes per direction and, per ring, a timeline of   *)
(* the periods in which it was fuller than a threshold.                    *)
(*                                                                         *)
(* A timeline is [active, events, dropped]: the thresholds that were       *)
(* exceeded when the ring was last looked at, the periods in the order of  *)
(* their beginning, and how many have been dropped.  An event is           *)
(* [threshold, exited, peak]; its times are left out.  The active event of *)
(* a threshold is the one in the list that has not been exited, and the    *)
(* code holds on to it even if it should have left the list.               *)
(***************************************************************************)
EXTENDS Naturals, Sequences
Lists == INSTANCE SequencesExt

CONSTANTS
    Thresholds,        \* in percent of the capacity, in order; 50, 80 and 95 in the code
    TimelineLimit,     \* 256 in the code
    BucketStarts       \* minInclusive of each bucket, in order

ASSUME ObservabilityAssumption ==
    /\ TimelineLimit \in Nat \ {0}
    /\ Thresholds \in Seq(Nat)
    /\ \A i, j \in DOMAIN Thresholds : i < j => Thresholds[i] < Thresholds[j]
    /\ BucketStarts \in Seq(Nat) \ {<<>>} /\ BucketStarts[1] = 0
    /\ \A b, c \in DOMAIN BucketStarts : b < c => BucketStarts[b] < BucketStarts[c]

NoTimeline == [active |-> {}, events |-> <<>>, dropped |-> 0]

(* Room is made by dropping what is over, the oldest first; a list of what *)
(* is not over may be longer than the limit.                               *)
trimOldestFirst(t) ==    \* a mutated form
    IF Len(t.events) <= TimelineLimit THEN t
    ELSE [t EXCEPT !.events = Tail(@), !.dropped = @ + 1]
TrimOnce(t) ==
    LET removable == Lists!SelectInSeq(t.events, LAMBDA event : event.exited)
    IN  IF Len(t.events) <= TimelineLimit \/ removable = 0 THEN t
        ELSE [t EXCEPT !.events = Lists!RemoveAt(@, removable), !.dropped = @ + 1]
trimSaturationTimeline(t) ==
    LET trimmed[k \in 0 .. Len(t.events)] == IF k = 0 THEN t ELSE TrimOnce(trimmed[k - 1])
    IN  trimmed[Len(t.events)]

Above(threshold, used, capacity) == used * 100 > threshold * capacity

(* One threshold after the other.                                          *)
ObserveThreshold(t, threshold, used, capacity) ==
    LET OnActive(Changed(_)) ==
            [i \in DOMAIN t.events |->
                IF t.events[i].threshold = threshold /\ ~t.events[i].exited THEN Changed(t.events[i])
                ELSE t.events[i]]
        Raised(event) == [event EXCEPT !.peak = IF used > @ THEN used ELSE @]
        Exited(event) == [event EXCEPT !.exited = TRUE]
    IN  IF Above(threshold, used, capacity)
        THEN IF threshold \in t.active THEN [t EXCEPT !.events = OnActive(Raised)]
             ELSE trimSaturationTimeline(
                    [t EXCEPT !.active = @ \cup {threshold},
                              !.events = Append(@, [threshold |-> threshold, exited |-> FALSE,
                                                    peak |-> used])])
        ELSE IF threshold \in t.active
             THEN [t EXCEPT !.active = @ \ {threshold}, !.events = OnActive(Exited)] ELSE t

observeRingSaturationSample(timeline, used, capacity) ==
    LET after[k \in 0 .. Len(Thresholds)] ==
            IF k = 0 THEN timeline ELSE ObserveThreshold(after[k - 1], Thresholds[k], used, capacity)
    IN  after[Len(Thresholds)]

-----------------------------------------------------------------------------
(* A histogram: the count and the sum of all values, and of those in each  *)
(* bucket.  A value that falls into no bucket is not counted.              *)
createHistogram ==
    [totalCount |-> 0, totalValue |-> 0,
     buckets |-> [b \in DOMAIN BucketStarts |-> [count |-> 0, totalValue |-> 0]]]
InBucket(b, value) ==
    value >= BucketStarts[b] /\ (b < Len(BucketStarts) => value < BucketStarts[b + 1])
CountValue(counter, value) ==
    [count |-> counter.count + 1, totalValue |-> counter.totalValue + value]
recordHistogramValue(histogram, value) ==
    IF \E b \in DOMAIN BucketStarts : InBucket(b, value)
    THEN [totalCount |-> histogram.totalCount + 1, totalValue |-> histogram.totalValue + value,
          buckets |-> [b \in DOMAIN BucketStarts |->
                          IF InBucket(b, value) THEN CountValue(histogram.buckets[b], value)
                          ELSE histogram.buckets[b]]]
    ELSE histogram
BucketTotal(histogram) ==
    LET upTo[b \in 0 .. Len(BucketStarts)] ==
            IF b = 0 THEN 0 ELSE upTo[b - 1] + histogram.buckets[b].count
    IN  upTo[Len(BucketStarts)]
================================================================================
