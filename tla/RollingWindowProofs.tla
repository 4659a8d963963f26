------------------------- MODULE RollingWindowProofs -------------------------
(* Proofs about the rolling counter, for every ring size, bucket duration   *)
(* and time bound.                                                          *)
EXTENDS RollingWindow, TLAPS

(* Division and remainder by a positive number, as the ring uses them.      *)
LEMMA DivMod ==
  ASSUME NEW x \in Int, NEW d \in Nat \ {0}
  PROVE  /\ x \div d \in Int
         /\ x % d \in 0 .. (d - 1)
         /\ x = d * (x \div d) + (x % d)
  OBVIOUS

(* Quotient and remainder are unique.                                       *)
LEMMA EuclidUnique ==
  ASSUME NEW p \in Int, NEW m \in Int, NEW q \in Int, NEW r \in Int,
         NEW d \in Nat \ {0}, 0 <= m, m < d, 0 <= r, r < d,
         d * p + m = d * q + r
  PROVE  p = q /\ m = r
<1>1. d * (p - q) = r - m
  OBVIOUS
<1>2. ASSUME p - q >= 1 PROVE FALSE
  <2>1. d * (p - q) >= d BY <1>2
  <2> QED BY <2>1, <1>1
<1>3. ASSUME p - q <= -1 PROVE FALSE
  <2>1. d * (p - q) <= -d BY <1>3
  <2> QED BY <2>1, <1>1
<1>4. p = q BY <1>2, <1>3
<1> QED BY <1>4, <1>1

(* A number between k and k + 1 times the divisor has quotient k. *)
LEMMA DivUnique ==
  ASSUME NEW q \in Int, NEW r \in Int, NEW d \in Nat \ {0}, 0 <= r, r < d
  PROVE  (d * q + r) \div d = q /\ (d * q + r) % d = r
<1>1. ASSUME NEW x \in Int, x = d * q + r PROVE x \div d = q /\ x % d = r
  <2>1. x = d * (x \div d) + (x % d) /\ x \div d \in Int /\ x % d \in 0 .. (d - 1)
    BY DivMod
  <2>2. PICK p \in Int, m \in 0 .. (d - 1) : p = x \div d /\ m = x % d
    BY <2>1
  <2>3. d * p + m = d * q + r BY <1>1, <2>1, <2>2
  <2>4. p = q /\ m = r BY <2>3, EuclidUnique
  <2> QED BY <2>2, <2>4
<1>2. d * q + r \in Int OBVIOUS
<1> QED BY <1>1, <1>2

(* Walking k places on around the ring from the place of slot a.            *)
LEMMA ModShift ==
  ASSUME NEW a \in Int, NEW k \in Int, NEW d \in Nat \ {0}
  PROVE  ((a % d) + k) % d = (a + k) % d
<1>1. PICK p \in Int, m \in 0 .. (d - 1) : a = d * p + m /\ m = a % d
  BY DivMod
<1>2. PICK q \in Int, r \in 0 .. (d - 1) : m + k = d * q + r /\ r = (m + k) % d
  BY DivMod, m + k \in Int
<1>3. a + k = d * (p + q) + r BY <1>1, <1>2
<1>4. (d * (p + q) + r) % d = r BY DivUnique, p + q \in Int
<1> QED BY <1>1, <1>2, <1>3, <1>4

(* One whole turn of the ring leads back to the same place.                 *)
LEMMA ModTurn ==
  ASSUME NEW a \in Int, NEW d \in Nat \ {0}
  PROVE  (a - d) % d = a % d
<1>1. PICK p \in Int, m \in 0 .. (d - 1) : a = d * p + m /\ m = a % d
  BY DivMod
<1>2. a - d = d * (p - 1) + m BY <1>1
<1>3. (d * (p - 1) + m) % d = m BY DivUnique, p - 1 \in Int
<1> QED BY <1>1, <1>2, <1>3

(* Two slots less than a turn apart have different places.                  *)
LEMMA ModDistinct ==
  ASSUME NEW a \in Int, NEW b \in Int, NEW d \in Nat \ {0}, b < a, a < b + d
  PROVE  a % d # b % d
<1>1. PICK p \in Int, m \in 0 .. (d - 1) : a = d * p + m /\ m = a % d
  BY DivMod
<1>2. PICK q \in Int, r \in 0 .. (d - 1) : b = d * q + r /\ r = b % d
  BY DivMod
<1>3. ASSUME m = r PROVE FALSE
  <2>1. d * (p - q) = a - b BY <1>1, <1>2, <1>3
  <2>2. ASSUME p - q >= 1 PROVE FALSE
    <3>1. d * (p - q) >= d BY <2>2
    <3> QED BY <3>1, <2>1
  <2>3. ASSUME p - q <= 0 PROVE FALSE
    <3>1. d * (p - q) <= 0 BY <2>3
    <3> QED BY <3>1, <2>1
  <2> QED BY <2>2, <2>3
<1> QED BY <1>1, <1>2, <1>3

(* Small numbers are their own remainders.                                  *)
LEMMA ModSmall ==
  ASSUME NEW d \in Nat \ {0}, NEW i \in 0 .. (d - 1)
  PROVE  i % d = i
  OBVIOUS

(* Division by the bucket duration preserves order.                         *)
LEMMA DivMonotone ==
  ASSUME NEW a \in Int, NEW b \in Int, NEW d \in Nat \ {0}, a <= b
  PROVE  a \div d <= b \div d
<1>1. PICK p \in Int, m \in 0 .. (d - 1) : a = d * p + m /\ p = a \div d
  BY DivMod
<1>2. PICK q \in Int, r \in 0 .. (d - 1) : b = d * q + r /\ q = b \div d
  BY DivMod
<1>3. ASSUME p - q >= 1 PROVE FALSE
  <2>1. d * (p - q) >= d BY <1>3
  <2>2. d * (p - q) <= r - m BY <1>1, <1>2
  <2> QED BY <2>1, <2>2
<1> QED BY <1>1, <1>2, <1>3

(* From any place, Size steps reach every place of the ring.                *)
LEMMA ModReach ==
  ASSUME NEW d \in Nat \ {0}, NEW i \in 0 .. (d - 1), NEW start \in Int
  PROVE  \E k \in 0 .. (d - 1) : i = (start + k) % d
<1>1. (i - start) % d \in 0 .. (d - 1)
  BY DivMod, i - start \in Int
<1>2. (((i - start) % d) + start) % d = (i - start + start) % d
  BY ModShift, i - start \in Int
<1>3. i - start + start = i OBVIOUS
<1>4. i % d = i BY ModSmall
<1>5. ((i - start) % d) + start = start + ((i - start) % d) BY <1>1
<1> QED BY <1>1, <1>2, <1>3, <1>4, <1>5

-----------------------------------------------------------------------------
(* What the span since the last append says in bucket periods: it is the    *)
(* number of periods between the last append's and the present one.         *)
LEMMA SlotSpan ==
  ASSUME WindowTypeOK, RingInv
  PROVE  /\ Slot(now) \in Slots
         /\ Slot(lastAppendTime) \in Nat
         /\ timespan = Slot(now) - Slot(lastAppendTime)
         /\ timespan >= 0
         /\ lastAppendTime + timespan * BucketDuration = Slot(now) * BucketDuration
         /\ Slot(now) * BucketDuration <= now
         /\ Slot(Slot(now) * BucketDuration) = Slot(now)
<1> DEFINE D == BucketDuration
<1>0. D \in Nat \ {0} /\ MaxTime \in Nat BY WindowAssumption
<1>1. now \in Nat /\ lastAppendTime \in Nat /\ lastAppendTime <= now /\ now <= MaxTime
  BY <1>0 DEF WindowTypeOK, RingInv
<1>2. PICK q \in Int, r \in 0 .. (D - 1) : now = D * q + r /\ q = now \div D
  BY <1>0, <1>1, DivMod
<1>3. PICK last \in Int : last = lastAppendTime \div D
  BY <1>0, <1>1, DivMod
<1>4. lastAppendTime = D * last
  <2>1. lastAppendTime = last * D BY <1>3 DEF RingInv, Slot
  <2> QED BY <2>1, <1>0
<1>5. last >= 0
  <2>1. ASSUME last <= -1 PROVE FALSE
    <3>1. D * last <= -D BY <2>1, <1>0
    <3> QED BY <3>1, <1>4, <1>1, <1>0
  <2> QED BY <2>1
<1>6. last <= q
  BY <1>0, <1>1, <1>2, <1>3, DivMonotone
<1>7. now - lastAppendTime = D * (q - last) + r
  BY <1>0, <1>2, <1>4
<1>8. (D * (q - last) + r) \div D = q - last
  <2>1. PICK e \in Int : e = q - last OBVIOUS
  <2>2. (D * e + r) \div D = e BY <1>0, DivUnique
  <2> QED BY <2>1, <2>2
<1>9. timespan = q - last
  <2>1. (now - lastAppendTime) \div D = q - last BY <1>7, <1>8
  <2> QED BY <2>1, <1>6 DEF timespan
<1>10. q \in Slots
  <2>1. q <= MaxTime \div D BY <1>0, <1>1, <1>2, DivMonotone
  <2>2. MaxTime \div D \in Int BY <1>0, DivMod
  <2> QED BY <2>1, <2>2, <1>5, <1>6 DEF Slots
<1>11. D * last + (q - last) * D = q * D BY <1>0
<1>12. q * D <= now
  <2>1. q * D = D * q BY <1>0
  <2> QED BY <2>1, <1>2, <1>0
<1>13. (q * D) \div D = q
  <2>1. (D * q + 0) \div D = q BY <1>0, DivUnique
  <2>2. D * q + 0 = q * D BY <1>0
  <2> QED BY <2>1, <2>2
<1> HIDE DEF D
<1>14. /\ Slot(now) = q
       /\ Slot(lastAppendTime) = last
       /\ Slot(q * D) = q
  BY <1>2, <1>3, <1>13 DEF Slot, D
<1> QED BY <1>4, <1>5, <1>6, <1>9, <1>10, <1>11, <1>12, <1>14 DEF D

-----------------------------------------------------------------------------
(* The ring inside Add, before val is added to its bucket: what the reset   *)
(* leaves.                                                                  *)
Cleared == IF timespan > 0
           THEN ResetBuckets(buckets, ResetStart,
                             IF timespan > Size THEN Size ELSE timespan)
           ELSE buckets

(* The k-th bucket the reset empties is the one of the k-th period after    *)
(* the last append's.                                                       *)
LEMMA ResetPlace ==
  ASSUME WindowTypeOK, RingInv, NEW k \in Nat
  PROVE  (ResetStart + k) % Size = (Slot(lastAppendTime) + 1 + k) % Size
<1>0. Size \in Nat \ {0} BY WindowAssumption
<1>1. PICK last \in Nat : last = Slot(lastAppendTime) BY SlotSpan
<1>2. offset = last % Size BY <1>1 DEF RingInv
<1>3. last \in Int /\ k \in Int /\ 1 \in Int /\ last + 1 \in Int OBVIOUS
<1>4. ((last % Size) + 1) % Size = (last + 1) % Size BY <1>0, <1>3, ModShift
<1>5. (((last + 1) % Size) + k) % Size = (last + 1 + k) % Size
  <2>1. PICK b \in Int : b = last + 1 BY <1>3
  <2>2. ((b % Size) + k) % Size = (b + k) % Size BY <1>0, <1>3, ModShift
  <2> QED BY <2>1, <2>2
<1> QED BY <1>1, <1>2, <1>4, <1>5 DEF ResetStart

(* After the reset the ring holds the last Size periods up to the present.  *)
LEMMA ClearedRing ==
  ASSUME WindowTypeOK, RingInv
  PROVE  /\ Cleared \in [Index -> Bucket]
         /\ \A s \in Slots : Slot(now) - Size < s /\ s <= Slot(now)
                             => Cleared[s % Size] = added[s]
         /\ \A i \in Index : i > Slot(now) => Cleared[i] = Empty
<1>0. Size \in Nat \ {0} /\ MaxTime \in Nat BY WindowAssumption
<1>1. PICK last \in Nat : last = Slot(lastAppendTime) BY SlotSpan
<1>2. PICK cur \in Slots : cur = Slot(now) BY SlotSpan
<1>3. timespan = cur - last /\ cur >= last /\ cur \in Nat
  BY <1>1, <1>2, SlotSpan DEF Slots
<1>4. PICK n \in Nat : n = timespan BY <1>3 DEF Slots
<1>5. \A s \in Slots : last - Size < s /\ s <= last => buckets[s % Size] = added[s]
  BY <1>1 DEF RingInv
<1>6. \A s \in Slots : s > last => added[s] = Empty BY <1>1 DEF RingInv
<1>7. \A i \in Index : i > last => buckets[i] = Empty BY <1>1 DEF RingInv
<1>8. buckets \in [Index -> Bucket] BY DEF WindowTypeOK
<1>9. Empty \in Bucket BY DEF Empty, Bucket
<1>10. \A s \in Slots : s % Size \in Index /\ s \in Nat
  <2>1. Slots \subseteq Nat BY DEF Slots
  <2> QED BY <2>1, <1>0, DivMod DEF Index
<1>11. CASE n = 0
  <2>1. Cleared = buckets BY <1>4, <1>11 DEF Cleared
  <2>2. cur = last BY <1>3, <1>4, <1>11
  <2> QED BY <2>1, <2>2, <1>1, <1>2, <1>5, <1>7, <1>8
<1>12. CASE n > 0
  <2> DEFINE capped == IF n > Size THEN Size ELSE n
  <2>1. capped \in Nat /\ capped <= n BY <1>0
  <2>2. \A k \in 0 .. (capped - 1) : (ResetStart + k) % Size = (last + 1 + k) % Size
    BY <1>1, <2>1, ResetPlace
  <2>3. Cleared = [i \in Index |-> IF \E k \in 0 .. (capped - 1) : i = (ResetStart + k) % Size
                                   THEN Empty ELSE buckets[i]]
    BY <1>4, <1>12 DEF Cleared, ResetBuckets
  <2>4. Cleared = [i \in Index |-> IF \E k \in 0 .. (capped - 1) : i = (last + 1 + k) % Size
                                   THEN Empty ELSE buckets[i]]
    BY <2>2, <2>3
  <2>5. Cleared \in [Index -> Bucket] BY <2>4, <1>8, <1>9
  <2>6. ASSUME NEW i \in Index, i > cur PROVE Cleared[i] = Empty
    <3>1. i > last BY <2>6, <1>3 DEF Index, Slots
    <3> QED BY <3>1, <2>4, <1>7
  <2>7. ASSUME NEW s \in Slots, cur - Size < s, s <= cur
        PROVE  Cleared[s % Size] = added[s]
    <3>0. s \in Nat /\ s % Size \in Index BY <1>10
    <3>1. CASE s > last /\ n <= Size
      <4>1. capped = n BY <3>1, <1>0
      <4>2. s - last - 1 \in 0 .. (capped - 1)
        BY <4>1, <3>0, <3>1, <2>7, <1>3, <1>4 DEF Slots
      <4>3. last + 1 + (s - last - 1) = s BY <3>0
      <4>4. \E k \in 0 .. (capped - 1) : s % Size = (last + 1 + k) % Size
        BY <4>2, <4>3
      <4>5. Cleared[s % Size] = Empty BY <4>4, <2>4, <3>0
      <4> QED BY <4>5, <1>6, <3>1
    <3>2. CASE s > last /\ n > Size
      <4>1. capped = Size BY <3>2, <1>0
      <4>2. \E k \in 0 .. (capped - 1) : s % Size = (last + 1 + k) % Size
        BY <4>1, <3>0, <1>0, ModReach, last + 1 \in Int DEF Index
      <4>3. Cleared[s % Size] = Empty BY <4>2, <2>4, <3>0
      <4> QED BY <4>3, <1>6, <3>2
    <3>3. CASE s <= last
      <4>1. last - Size < s BY <2>7, <1>3, <3>0, <1>0 DEF Slots
      <4>2. n <= Size BY <2>7, <3>3, <1>3, <1>4, <1>0, <3>0 DEF Slots
      <4>3. ASSUME NEW k \in 0 .. (capped - 1) PROVE s % Size # (last + 1 + k) % Size
        <5>1. last + 1 + k \in Int /\ s < last + 1 + k BY <3>3, <3>0, <2>1
        <5>2. last + 1 + k < s + Size
          BY <4>2, <2>7, <1>3, <1>4, <2>1, <1>0, <3>0 DEF Slots
        <5>3. PICK a \in Int, b \in Int : a = last + 1 + k /\ b = s BY <5>1, <3>0
        <5>4. b < a /\ a < b + Size BY <5>1, <5>2, <5>3
        <5>5. a % Size # b % Size BY <5>4, <1>0, ModDistinct
        <5> QED BY <5>3, <5>5
      <4>4. Cleared[s % Size] = buckets[s % Size] BY <4>3, <2>4, <3>0
      <4> QED BY <4>4, <4>1, <3>3, <1>5
    <3> QED BY <3>1, <3>2, <3>3, <3>0, <1>0
  <2> QED BY <2>5, <2>6, <2>7, <1>2
<1> QED BY <1>11, <1>12

(* What Add does, in bucket periods: it moves the ring to the present       *)
(* period and adds val there.                                               *)
LEMMA AddEffect ==
  ASSUME WindowTypeOK, RingInv, NEW val \in Nat, Add(val)
  PROVE  /\ offset' = Slot(now) % Size
         /\ buckets' = [Cleared EXCEPT ![Slot(now) % Size] = AddTo(@, val)]
         /\ lastAppendTime' = Slot(now) * BucketDuration
         /\ added' = [added EXCEPT ![Slot(now)] = AddTo(@, val)]
         /\ now' = now
<1>0. Size \in Nat \ {0} /\ BucketDuration \in Nat \ {0} BY WindowAssumption
<1>1. PICK last \in Nat : last = Slot(lastAppendTime) BY SlotSpan
<1>2. PICK cur \in Slots : cur = Slot(now) BY SlotSpan
<1>3. PICK n \in Nat : n = timespan /\ cur = last + n
  BY <1>1, <1>2, SlotSpan DEF Slots
<1>4. offset = last % Size BY <1>1 DEF RingInv
<1>5. ((last % Size) + n) % Size = cur % Size
  <2>1. last \in Int /\ n \in Int OBVIOUS
  <2>2. ((last % Size) + n) % Size = (last + n) % Size BY <2>1, <1>0, ModShift
  <2> QED BY <2>2, <1>3
<1>6. (offset + timespan) % Size = cur % Size BY <1>3, <1>4, <1>5
<1>7. lastAppendTime + timespan * BucketDuration = cur * BucketDuration
  BY <1>2, SlotSpan
<1>8. CASE n = 0
  <2>1. cur % Size = offset BY <1>3, <1>4, <1>8
  <2>2. lastAppendTime = cur * BucketDuration
    BY <1>1, <1>3, <1>8 DEF RingInv
  <2>3. ~(timespan > 0) BY <1>3, <1>8
  <2> QED BY <2>1, <2>2, <2>3, <1>2 DEF Add, Cleared
<1>9. CASE n > 0
  BY <1>9, <1>2, <1>3, <1>6, <1>7 DEF Add, Cleared, NextOffset, NextAppendTime
<1> QED BY <1>8, <1>9

(* Add keeps the ring equal to the recent history.                          *)
LEMMA AddPreserves ==
  ASSUME WindowTypeOK, RingInv, NEW val \in Nat, Add(val)
  PROVE  WindowTypeOK' /\ RingInv'
<1>0. /\ Size \in Nat \ {0} /\ BucketDuration \in Nat \ {0}
      /\ MaxTime \in Nat /\ val \in Nat
  BY WindowAssumption
<1>1. PICK cur \in Slots : cur = Slot(now) BY SlotSpan
<1>2. cur \in Nat /\ cur \in Int BY <1>1 DEF Slots
<1>3. cur % Size \in Index BY <1>0, <1>2, DivMod DEF Index
<1>4. cur >= Slot(lastAppendTime) /\ Slot(lastAppendTime) \in Nat
  BY <1>1, <1>2, SlotSpan
<1>5. /\ offset' = cur % Size
      /\ buckets' = [Cleared EXCEPT ![cur % Size] = AddTo(@, val)]
      /\ lastAppendTime' = cur * BucketDuration
      /\ added' = [added EXCEPT ![cur] = AddTo(@, val)]
      /\ now' = now
  BY <1>1, AddEffect
<1>6. /\ Cleared \in [Index -> Bucket]
      /\ \A s \in Slots : cur - Size < s /\ s <= cur => Cleared[s % Size] = added[s]
      /\ \A i \in Index : i > cur => Cleared[i] = Empty
  BY <1>1, ClearedRing
<1>7. added \in [Slots -> Bucket] /\ now \in 0 .. MaxTime BY DEF WindowTypeOK
<1>8. \A b \in Bucket : AddTo(b, val) \in Bucket BY <1>0 DEF AddTo, Bucket
<1>9. cur * BucketDuration \in Nat /\ cur * BucketDuration <= now
  <2>1. cur * BucketDuration <= now BY <1>1, SlotSpan
  <2> QED BY <2>1, <1>0, <1>2
<1>10. Slot(cur * BucketDuration) = cur BY <1>1, SlotSpan
<1>11. WindowTypeOK'
  BY <1>3, <1>5, <1>6, <1>7, <1>8, <1>9, <1>1 DEF WindowTypeOK
<1>12. Slot(lastAppendTime)' = cur BY <1>5, <1>10 DEF Slot
<1>13. ASSUME NEW s \in Slots, cur - Size < s, s <= cur
       PROVE  buckets'[s % Size] = added'[s]
  <2>0. s \in Int BY DEF Slots
  <2>1. s % Size \in Index BY <2>0, <1>0, DivMod DEF Index
  <2>2. Cleared[s % Size] = added[s] BY <1>6, <1>13
  <2>3. CASE s = cur
    BY <2>1, <2>2, <2>3, <1>3, <1>5, <1>6, <1>7
  <2>4. CASE s # cur
    <3>1. s < cur /\ cur < s + Size BY <2>4, <2>0, <1>13, <1>2, <1>0
    <3>2. cur % Size # s % Size BY <3>1, <2>0, <1>2, <1>0, ModDistinct
    <3> QED BY <3>2, <2>1, <2>2, <2>4, <1>5, <1>6, <1>7
  <2> QED BY <2>3, <2>4
<1>14. ASSUME NEW i \in Index, i > cur PROVE buckets'[i] = Empty
  <2>1. cur \in 0 .. (Size - 1) BY <1>14, <1>2, <1>0 DEF Index
  <2>2. cur % Size = cur BY <2>1, <1>0, ModSmall
  <2>3. i # cur BY <1>14, <1>2 DEF Index
  <2> QED BY <2>2, <2>3, <1>14, <1>5, <1>6
<1>15. ASSUME NEW s \in Slots, s > cur PROVE added'[s] = Empty
  <2>1. s # cur /\ s > Slot(lastAppendTime) BY <1>15, <1>2, <1>4 DEF Slots
  <2>2. added[s] = Empty BY <2>1 DEF RingInv
  <2> QED BY <2>1, <2>2, <1>5, <1>7
<1>16. RingInv'
  BY <1>5, <1>9, <1>12, <1>13, <1>14, <1>15 DEF RingInv
<1> QED BY <1>11, <1>16

(* Time passing, and a step of somebody else, keep the ring.                *)
LEMMA RingRests ==
  ASSUME WindowTypeOK, RingInv, now' \in now .. MaxTime,
         UNCHANGED <<buckets, offset, lastAppendTime, added>>
  PROVE  WindowTypeOK' /\ RingInv'
<1>1. now \in 0 .. MaxTime /\ lastAppendTime \in Nat /\ lastAppendTime <= now
  BY DEF WindowTypeOK, RingInv
<1>2. lastAppendTime' <= now' /\ now' \in 0 .. MaxTime
  BY <1>1, WindowAssumption
<1>3. Slot(lastAppendTime)' = Slot(lastAppendTime) BY DEF Slot
<1> QED BY <1>2, <1>3 DEF WindowTypeOK, RingInv

(* The ring invariant is inductive.                                         *)
LEMMA RingInductive ==
  ASSUME WindowTypeOK, RingInv, [WindowNext]_windowVars
  PROVE  WindowTypeOK' /\ RingInv'
<1>1. CASE UNCHANGED windowVars
  BY <1>1 DEF windowVars, WindowTypeOK, RingInv, Slot
<1>2. CASE Tick
  <2>1. now \in 0 .. MaxTime BY DEF WindowTypeOK
  <2> QED BY <1>2, <2>1, RingRests, WindowAssumption DEF Tick
<1>3. ASSUME NEW val \in Values, Add(val) PROVE WindowTypeOK' /\ RingInv'
  BY <1>3, AddPreserves, WindowAssumption
<1> QED BY <1>1, <1>2, <1>3 DEF WindowNext

(* It holds of a new counter.                                               *)
LEMMA RingInitial ==
  ASSUME WindowInit
  PROVE  WindowTypeOK /\ RingInv
<1>0. Size \in Nat \ {0} /\ BucketDuration \in Nat \ {0} /\ MaxTime \in Nat
  BY WindowAssumption
<1>1. 0 \div BucketDuration = 0 /\ 0 % Size = 0 BY <1>0
<1>2. Slot(lastAppendTime) = 0 BY <1>1 DEF WindowInit, Slot
<1>3. \A s \in Slots : s \in Nat BY DEF Slots
<1>4. WindowTypeOK
  BY <1>0 DEF WindowInit, WindowTypeOK, Index, Bucket, Empty
<1>5. ASSUME NEW s \in Slots, 0 - Size < s, s <= 0 PROVE buckets[s % Size] = added[s]
  <2>1. s = 0 BY <1>3, <1>5
  <2> QED BY <2>1, <1>0, <1>1 DEF WindowInit, Index
<1>6. RingInv
  BY <1>0, <1>1, <1>2, <1>5 DEF WindowInit, RingInv
<1> QED BY <1>4, <1>6

(* What Reduce visits follows from the ring invariant.                      *)
LEMMA RingExact ==
  ASSUME WindowTypeOK, RingInv
  PROVE  WindowExact
<1>0. Size \in Nat \ {0} /\ MaxTime \in Nat BY WindowAssumption
<1>1. PICK last \in Nat : last = Slot(lastAppendTime) BY SlotSpan
<1>2. PICK cur \in Slots : cur = Slot(now) BY SlotSpan
<1>3. PICK n \in Nat : n = timespan /\ cur = last + n
  BY <1>1, <1>2, SlotSpan DEF Slots
<1>4. offset = last % Size /\ offset \in 0 .. (Size - 1)
  BY <1>1 DEF RingInv, WindowTypeOK, Index
<1>5. ReduceCount = IF Size - n > 0 THEN Size - n ELSE 0
  BY <1>3 DEF ReduceCount
<1>6. ASSUME NEW k \in 1 .. ReduceCount
      PROVE  Visited[k] = History(cur - Size + k)
  <2>1. k \in Nat /\ 1 <= k /\ n + k <= Size BY <1>5, <1>6, <1>0
  <2>2. (ReduceStart + k - 1) % Size = (cur + k) % Size
    <3>1. ((last % Size) + (n + k)) % Size = (cur + k) % Size
      <4>1. PICK b \in Int : b = n + k BY <2>1
      <4>2. last \in Int OBVIOUS
      <4>3. ((last % Size) + b) % Size = (last + b) % Size
        BY <4>1, <4>2, <1>0, ModShift
      <4>4. last + b = cur + k BY <4>1, <1>3, <2>1
      <4> QED BY <4>1, <4>3, <4>4
    <3>2. PICK o \in Int : o = offset + n + k BY <1>4, <2>1
    <3>3. o % Size = (cur + k) % Size
      <4>1. o = (last % Size) + (n + k) BY <3>2, <1>4, <2>1
      <4> QED BY <4>1, <3>1
    <3>4. (o - Size) % Size = o % Size BY <1>0, ModTurn
    <3>5. ReduceStart + k - 1 = o \/ ReduceStart + k - 1 = o - Size
      BY <3>2, <1>3, <1>4, <1>0, <2>1 DEF ReduceStart
    <3> QED BY <3>3, <3>4, <3>5
  <2>3. Visited[k] = buckets[(cur + k) % Size] BY <2>2, <1>6 DEF Visited
  <2>4. PICK s \in Int : s = cur - Size + k BY <1>0, <1>3, <2>1
  <2>5. (cur + k) % Size = s % Size
    <3>1. PICK b \in Int : b = cur + k BY <1>3, <2>1
    <3>2. (b - Size) % Size = b % Size BY <1>0, ModTurn
    <3>3. s = b - Size BY <2>4, <3>1, <1>0, <1>3, <2>1
    <3> QED BY <3>1, <3>2, <3>3
  <2>6. s <= last /\ last - Size < s BY <2>1, <2>4, <1>0, <1>3
  <2>7. CASE s >= 0
    <3>1. s \in Slots
      <4>1. MaxTime \div BucketDuration \in Int BY WindowAssumption, DivMod
      <4> QED BY <4>1, <2>6, <2>7, <1>3 DEF Slots
    <3>2. buckets[s % Size] = added[s] BY <3>1, <2>6, <1>1 DEF RingInv
    <3> QED BY <3>1, <3>2, <2>3, <2>4, <2>5 DEF History
  <2>8. CASE s < 0
    <3>1. cur + k \in 0 .. (Size - 1) BY <2>8, <2>4, <2>1, <1>3, <1>0
    <3>2. PICK i \in 0 .. (Size - 1) : i = cur + k BY <3>1
    <3>3. i % Size = i BY <1>0, ModSmall
    <3>4. i > last BY <3>2, <1>3, <2>1
    <3>5. buckets[i] = Empty BY <3>2, <3>4, <1>1 DEF RingInv, Index
    <3>6. s \notin Slots BY <2>8 DEF Slots
    <3> QED BY <3>2, <3>3, <3>5, <3>6, <2>3, <2>4 DEF History
  <2> QED BY <2>7, <2>8
<1>7. ASSUME NEW s \in Slots, s > cur - Size + ReduceCount PROVE added[s] = Empty
  <2>1. s \in Nat BY DEF Slots
  <2>2. s > last BY <2>1, <1>7, <1>5, <1>3, <1>0
  <2> QED BY <2>2, <1>1 DEF RingInv
<1> QED BY <1>2, <1>6, <1>7 DEF WindowExact

-----------------------------------------------------------------------------
(* The ring is advanced by an Add only: apart from the first one, the       *)
(* period of the last append has a value.                                   *)
LastUsed == LET last == Slot(lastAppendTime) IN last # 0 => added[last].count > 0

(* An Add leaves a value in the present period.                             *)
LEMMA AddUses ==
  ASSUME WindowTypeOK, RingInv, NEW val \in Nat, Add(val)
  PROVE  LastUsed'
<1>1. PICK cur \in Slots : cur = Slot(now) BY SlotSpan
<1>2. /\ lastAppendTime' = cur * BucketDuration
      /\ added' = [added EXCEPT ![cur] = AddTo(@, val)]
  BY <1>1, AddEffect
<1>3. Slot(cur * BucketDuration) = cur BY <1>1, SlotSpan
<1>4. Slot(lastAppendTime)' = cur BY <1>2, <1>3 DEF Slot
<1>5. added \in [Slots -> Bucket] BY DEF WindowTypeOK
<1>6. added'[cur].count = added[cur].count + 1 /\ added[cur].count \in Nat
  BY <1>1, <1>2, <1>5 DEF AddTo, Bucket
<1> QED BY <1>4, <1>6 DEF LastUsed

(* Reduce visits nothing exactly when a whole window without an Add has     *)
(* passed since the counter was made.                                       *)
LEMMA ReduceNothing ==
  ASSUME WindowTypeOK, RingInv, LastUsed
  PROVE  ReduceCount = 0 <=>
           /\ Slot(now) >= Size
           /\ \A s \in Slots : Slot(now) - Size < s /\ s <= Slot(now) => added[s].count = 0
<1>0. Size \in Nat \ {0} /\ MaxTime \in Nat BY WindowAssumption
<1>1. PICK last \in Nat : last = Slot(lastAppendTime) BY SlotSpan
<1>2. PICK cur \in Slots : cur = Slot(now) BY SlotSpan
<1>3. PICK n \in Nat : n = timespan /\ cur = last + n
  BY <1>1, <1>2, SlotSpan DEF Slots
<1>4. ReduceCount = 0 <=> n >= Size
  BY <1>0, <1>3 DEF ReduceCount
<1>5. last \in Slots
  <2>1. MaxTime \div BucketDuration \in Int BY WindowAssumption, DivMod
  <2> QED BY <1>2, <1>3, <2>1 DEF Slots
<1>6. last # 0 => added[last].count > 0
  BY <1>1 DEF LastUsed
<1>7. CASE n >= Size
  <2>1. ASSUME NEW s \in Slots, cur - Size < s PROVE added[s].count = 0
    <3>1. s \in Nat BY DEF Slots
    <3>2. s > last BY <1>0, <1>3, <1>7, <2>1, <3>1
    <3>3. added[s] = Empty BY <1>1, <3>2 DEF RingInv
    <3> QED BY <3>3 DEF Empty
  <2> QED BY <1>0, <1>2, <1>3, <1>4, <1>7, <2>1
<1>8. CASE n < Size
  <2>1. ASSUME cur >= Size,
               \A s \in Slots : cur - Size < s /\ s <= cur => added[s].count = 0
        PROVE  FALSE
    <3>1. last # 0 /\ cur - Size < last /\ last <= cur BY <1>0, <1>3, <1>8, <2>1
    <3> QED BY <1>5, <1>6, <2>1, <3>1
  <2>2. ReduceCount # 0 BY <1>0, <1>4, <1>8
  <2> QED BY <1>2, <2>1, <2>2
<1> QED BY <1>0, <1>7, <1>8

(* The completed periods of the window, and the buckets visited before the  *)
(* present one.                                                             *)
ClosedSlots == {s \in Slots : Slot(now) - Size < s /\ s < Slot(now)}
Before(n)   == 1 .. (IF n < Size THEN n ELSE Size - 1)

(* Empty buckets aside, a reducer that leaves out the present bucket reads  *)
(* the completed periods, each of them and nothing else.                    *)
LEMMA ReadsClosed ==
  ASSUME WindowTypeOK, RingInv
  PROVE  /\ \A k \in Before(ReduceCount) :
               Visited[k] = Empty \/ \E s \in ClosedSlots : Visited[k] = added[s]
         /\ \A s \in ClosedSlots :
               added[s] = Empty \/ \E k \in Before(ReduceCount) : added[s] = Visited[k]
<1>0. Size \in Nat \ {0} BY WindowAssumption
<1>1. PICK cur \in Slots : cur = Slot(now) BY SlotSpan
<1>2. cur \in Nat BY <1>1 DEF Slots
<1>3. /\ \A k \in 1 .. ReduceCount : Visited[k] = History(cur - Size + k)
      /\ \A s \in Slots : s > cur - Size + ReduceCount => added[s] = Empty
  BY <1>1, RingExact DEF WindowExact
<1>4. ReduceCount \in Int /\ ReduceCount <= Size
  <2>1. timespan \in Nat BY SlotSpan DEF Slots
  <2> QED BY <1>0, <2>1 DEF ReduceCount
<1>5. \A k : k \in Before(ReduceCount) <=> k \in Nat /\ 1 <= k /\ k <= ReduceCount /\ k < Size
  BY <1>0, <1>4 DEF Before
<1>6. ASSUME NEW k \in Before(ReduceCount)
      PROVE  Visited[k] = Empty \/ \E s \in ClosedSlots : Visited[k] = added[s]
  <2>1. k \in 1 .. ReduceCount /\ k \in Nat /\ k < Size BY <1>4, <1>5
  <2>2. Visited[k] = History(cur - Size + k) BY <1>3, <2>1
  <2>3. cur - Size < cur - Size + k /\ cur - Size + k < cur BY <1>0, <1>2, <2>1
  <2>4. CASE cur - Size + k \in Slots
    <3>1. cur - Size + k \in ClosedSlots BY <1>1, <2>3, <2>4 DEF ClosedSlots
    <3> QED BY <2>2, <2>4, <3>1 DEF History
  <2>5. CASE cur - Size + k \notin Slots
    BY <2>2, <2>5 DEF History
  <2> QED BY <2>4, <2>5
<1>7. ASSUME NEW s \in ClosedSlots
      PROVE  added[s] = Empty \/ \E k \in Before(ReduceCount) : added[s] = Visited[k]
  <2>1. s \in Slots /\ s \in Nat /\ cur - Size < s /\ s < cur BY <1>1 DEF ClosedSlots, Slots
  <2>2. PICK k \in Int : k = s - cur + Size BY <1>0, <1>2, <2>1
  <2>3. k \in Nat /\ 1 <= k /\ k < Size /\ s = cur - Size + k BY <1>0, <1>2, <2>1, <2>2
  <2>4. CASE k <= ReduceCount
    <3>1. k \in Before(ReduceCount) /\ k \in 1 .. ReduceCount BY <1>4, <1>5, <2>3, <2>4
    <3>2. Visited[k] = History(s) BY <1>3, <2>3, <3>1
    <3> QED BY <2>1, <3>1, <3>2 DEF History
  <2>5. CASE k > ReduceCount
    <3>1. s > cur - Size + ReduceCount BY <1>0, <1>2, <1>4, <2>3, <2>5
    <3> QED BY <1>3, <2>1, <3>1
  <2> QED BY <1>4, <2>3, <2>4, <2>5
<1> QED BY <1>6, <1>7

-----------------------------------------------------------------------------
(* The offset stays inside the ring and the buckets keep their shape, for   *)
(* every size, duration and pause between calls (RollingPolicy.apply).      *)
THEOREM TypeCorrect == WindowSpec => []WindowTypeOK
<1>1. WindowInit => WindowTypeOK /\ RingInv BY RingInitial
<1>2. WindowTypeOK /\ RingInv /\ [WindowNext]_windowVars => (WindowTypeOK /\ RingInv)'
  BY RingInductive
<1> QED BY <1>1, <1>2, PTL DEF WindowSpec

(* The ring always holds the last Size bucket periods, each at its index    *)
(* modulo Size, whatever the pauses between Adds (RollingPolicy.apply).     *)
THEOREM RingCorrect == WindowSpec => []RingInv
<1>1. WindowInit => WindowTypeOK /\ RingInv BY RingInitial
<1>2. WindowTypeOK /\ RingInv /\ [WindowNext]_windowVars => (WindowTypeOK /\ RingInv)'
  BY RingInductive
<1> QED BY <1>1, <1>2, PTL DEF WindowSpec

(* Reduce sees exactly what was added during the last Size bucket periods:  *)
(* no expired value, no missing one (RollingPolicy.Reduce).                 *)
THEOREM ReduceExact == WindowSpec => []WindowExact
<1>1. WindowTypeOK /\ RingInv => WindowExact BY RingExact
<1> QED BY <1>1, TypeCorrect, RingCorrect, PTL
=============================================================================
