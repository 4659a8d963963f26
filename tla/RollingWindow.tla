---------------------------- MODULE RollingWindow ----------------------------
(***************************************************************************)
(* The rolling counter of pkg/shield/window: a ring of Size buckets that   *)
(* is advanced lazily, by the next Add, and read by Reduce.                *)
(*                                                                         *)
(* A bucket is abstracted to the sum of its points and its Count.  Every   *)
(* operation holds RollingPolicy.mu, so each is one step; time passes      *)
(* between the operations.  `added' is a history variable: what was added  *)
(* in each bucket period since the counter was created, never forgotten.   *)
(***************************************************************************)
EXTENDS Integers, Sequences

CONSTANTS Size,            \* RollingCounterOpts.Size, the number of buckets
          BucketDuration,  \* clock ticks per bucket
          Values,          \* the values passed to Add
          MaxTime,         \* bound: the clock stops here
          MaxAdds          \* bound: values added in one bucket period

ASSUME WindowAssumption == /\ Size \in Nat \ {0}
                           /\ BucketDuration \in Nat \ {0}
                           /\ Values \subseteq Nat
                           /\ MaxTime \in Nat
                           /\ MaxAdds \in Nat

VARIABLES buckets,         \* Window.buckets
          offset,          \* RollingPolicy.offset
          lastAppendTime,  \* RollingPolicy.lastAppendTime
          now,             \* time.Now(), monotonic, 0 at creation
          added            \* history: the bucket period -> what Add put in it

windowVars == <<buckets, offset, lastAppendTime, now, added>>

Index  == 0 .. (Size - 1)
Slots  == 0 .. (MaxTime \div BucketDuration)
Bucket == [sum : Nat, count : Nat]
Empty  == [sum |-> 0, count |-> 0]

(* The bucket period the clock is in. *)
Slot(t) == t \div BucketDuration

-----------------------------------------------------------------------------
(* RollingPolicy.timespan: whole buckets since lastAppendTime. *)
timespan == LET v == (now - lastAppendTime) \div BucketDuration
            IN  IF v > -1 THEN v ELSE Size

(* Window.ResetBuckets: empty count buckets from start on, around the ring. *)
ResetBuckets(ring, start, count) ==
  [i \in Index |-> IF \E k \in 0 .. (count - 1) : i = (start + k) % Size
                   THEN Empty
                   ELSE ring[i]]

(* Bucket.Add and Bucket.Append: both add to the sum and bump Count. *)
AddTo(bucket, val) == [sum |-> bucket.sum + val, count |-> bucket.count + 1]

(* RollingPolicy.apply moves the offset by the whole span. *)
NextOffset == (offset + timespan) % Size

(* RollingPolicy.apply advances lastAppendTime by whole buckets. *)
NextAppendTime == lastAppendTime + timespan * BucketDuration

(* A slip: the reset starts at the current bucket instead of the next one. *)
ResetStartCurrent == offset

(* The first bucket the clock has passed over since the last append. *)
ResetStart == (offset + 1) % Size

(* RollingPolicy.apply with Window.Add: reset the buckets the clock passed  *)
(* over, move on, and add val to the current bucket.                        *)
Add(val) ==
  LET capped == IF timespan > Size THEN Size ELSE timespan
      ring   == IF timespan > 0 THEN ResetBuckets(buckets, ResetStart, capped)
                                ELSE buckets
      cur    == IF timespan > 0 THEN NextOffset ELSE offset
  IN  /\ buckets' = [ring EXCEPT ![cur] = AddTo(@, val)]
      /\ offset' = cur
      /\ lastAppendTime' = IF timespan > 0 THEN NextAppendTime ELSE lastAppendTime
      /\ added' = [added EXCEPT ![Slot(now)] = AddTo(@, val)]
      /\ UNCHANGED now

(* The clock moves on.  A long pause may skip the whole ring. *)
Tick == /\ now < MaxTime
        /\ now' \in (now + 1) .. MaxTime
        /\ UNCHANGED <<buckets, offset, lastAppendTime, added>>

-----------------------------------------------------------------------------
(* A slip: Reduce visits the whole ring, expired buckets too. *)
WholeRing == Size

(* RollingPolicy.Reduce: the buckets handed to the reducer, oldest first.   *)
ReduceCount == IF Size - timespan > 0 THEN Size - timespan ELSE 0

ReduceStart == LET o == offset + timespan + 1
               IN  IF o >= Size THEN o - Size ELSE o

(* Iterator.Bucket follows the next pointers around the ring. *)
Visited == [k \in 1 .. ReduceCount |-> buckets[(ReduceStart + k - 1) % Size]]

(* reduce.go: Sum and Count add up the buckets the iterator visits. *)
SumUpTo(v, n) == LET result[k \in 0 .. n] == IF k = 0 THEN 0 ELSE result[k - 1] + v[k]
                 IN  result[n]
SumOf(list)   == SumUpTo([k \in 1 .. Len(list) |-> list[k].sum], Len(list))
CountOf(list) == SumUpTo([k \in 1 .. Len(list) |-> list[k].count], Len(list))

-----------------------------------------------------------------------------
WindowInit == /\ buckets = [i \in Index |-> Empty]
              /\ offset = 0
              /\ lastAppendTime = 0
              /\ now = 0
              /\ added = [s \in Slots |-> Empty]

WindowNext == \/ Tick
              \/ \E val \in Values : added[Slot(now)].count < MaxAdds /\ Add(val)

WindowSpec == WindowInit /\ [][WindowNext]_windowVars

-----------------------------------------------------------------------------
(* Type invariant. *)
WindowTypeOK == /\ buckets \in [Index -> Bucket]
                /\ offset \in Index
                /\ lastAppendTime \in Nat
                /\ now \in 0 .. MaxTime
                /\ added \in [Slots -> Bucket]

(* What was added in bucket period s; nothing before the counter existed. *)
History(s) == IF s \in Slots THEN added[s] ELSE Empty

(* The buckets Reduce visits are, in order, the oldest of the last Size     *)
(* bucket periods, and nothing was added in the periods it does not visit:  *)
(* the lazily reset ring never shows an expired value and never loses one   *)
(* that is still inside the window (RollingPolicy.apply and Reduce).        *)
WindowExact ==
  /\ \A k \in 1 .. ReduceCount : Visited[k] = History(Slot(now) - Size + k)
  /\ \A s \in Slots : s > Slot(now) - Size + ReduceCount => added[s] = Empty

(* The inductive invariant behind WindowExact: the ring holds the last Size *)
(* periods up to the period of the last append, each at its index modulo    *)
(* Size, and the indices no period has reached yet are empty.               *)
RingInv ==
  LET last == Slot(lastAppendTime)
  IN  /\ lastAppendTime <= now
      /\ lastAppendTime = last * BucketDuration
      /\ offset = last % Size
      /\ \A s \in Slots : last - Size < s /\ s <= last => buckets[s % Size] = added[s]
      /\ \A i \in Index : i > last => buckets[i] = Empty
      /\ \A s \in Slots : s > last => added[s] = Empty

=============================================================================
