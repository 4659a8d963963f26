------------------------ MODULE CircuitBreakerProofs ------------------------
(* Proofs about the SRE breaker, for any number of concurrent requests, any *)
(* window and any options: what it sums up, and when it opens and drops.   *)
EXTENDS CircuitBreaker, RollingWindowProofs, WellFoundedInduction

-----------------------------------------------------------------------------
(* Induction over the numbers, as a statement about sets of them. *)
(* A set of numbers that is not empty has a least one. *)
LEMMA LeastNat ==
  ASSUME NEW T, T \subseteq Nat, T # {}
  PROVE  \E x \in T : \A y \in T : x <= y
<1>1. PICK R : R = OpToRel(<, Nat) OBVIOUS
<1>2. IsWellFoundedOn(R, Nat)
  BY <1>1, NatLessThanWellFounded
<1>3. PICK x \in T : \A y \in T : ~(<<y, x>> \in R)
  BY <1>2, WFMin
<1>4. \A y \in T : y < x => <<y, x>> \in R
  BY <1>1 DEF OpToRel
<1>5. \A y \in T : ~(y < x)
  BY <1>3, <1>4
<1>6. \A y \in T : x <= y
  BY <1>5
<1> QED BY <1>6

(* Induction on a set of numbers. *)
LEMMA InductiveSet ==
  ASSUME NEW S, 0 \in S, \A n \in Nat : n \in S => n + 1 \in S
  PROVE  Nat \subseteq S
<1> SUFFICES ASSUME Nat \ S # {} PROVE FALSE
  OBVIOUS
<1>1. PICK x \in Nat \ S : \A y \in Nat \ S : x <= y
  BY LeastNat
<1>2. x - 1 \in Nat /\ x - 1 \in S
  BY <1>1
<1> QED BY <1>1, <1>2

-----------------------------------------------------------------------------
(* Sums (reduce.go).  The partial sums that SumUpTo builds. *)
Parts(g, v, n) == g = [k \in 0 .. n |-> IF k = 0 THEN 0 ELSE g[k - 1] + v[k]]

(* There are such sums for every list and length: what makes the recursive *)
(* function of SumUpTo the one its definition describes.                   *)
LEMMA PartsExist ==
  ASSUME NEW v, NEW n \in Nat
  PROVE  \E g : Parts(g, v, n)
<1> DEFINE S == {m \in Nat : \E g : Parts(g, v, m)}
<1>1. 0 \in S
  <2>1. PICK g : g = [k \in 0 .. 0 |-> 0] OBVIOUS
  <2>2. Parts(g, v, 0)
    BY <2>1 DEF Parts
  <2> QED BY <2>2
<1>2. ASSUME NEW m \in Nat, m \in S PROVE m + 1 \in S
  <2>1. PICK g : Parts(g, v, m)
    BY <1>2
  <2>2. PICK h : h = [k \in 0 .. (m + 1) |-> IF k = m + 1 THEN g[m] + v[m + 1] ELSE g[k]]
    OBVIOUS
  <2>3. \A k \in 0 .. m : h[k] = g[k] /\ h[m + 1] = g[m] + v[m + 1]
    BY <2>2
  <2>4. \A k \in 0 .. m : g[k] = IF k = 0 THEN 0 ELSE g[k - 1] + v[k]
    BY <2>1 DEF Parts
  <2>5. ASSUME NEW k \in 0 .. (m + 1) PROVE h[k] = IF k = 0 THEN 0 ELSE h[k - 1] + v[k]
    <3>1. CASE k = m + 1
      BY <2>3, <3>1
    <3>2. CASE k \in 0 .. m
      BY <2>3, <2>4, <3>2
    <3> QED BY <3>1, <3>2
  <2>6. Parts(h, v, m + 1)
    BY <2>2, <2>5 DEF Parts
  <2> QED BY <2>6
<1> HIDE DEF S
<1>3. Nat \subseteq S
  BY <1>1, <1>2, InductiveSet
<1> QED BY <1>3 DEF S

(* The partial sums of lists that agree agree. *)
LEMMA PartsAgree ==
  ASSUME NEW v, NEW w, NEW n \in Nat, NEW m \in Nat, n <= m, NEW g, NEW h,
         Parts(g, v, n), Parts(h, w, m), \A k \in 1 .. n : v[k] = w[k]
  PROVE  g[n] = h[n]
<1> DEFINE S == {k \in Nat : k <= n => g[k] = h[k]}
<1>1. /\ \A k \in 0 .. n : g[k] = IF k = 0 THEN 0 ELSE g[k - 1] + v[k]
      /\ \A k \in 0 .. n : h[k] = IF k = 0 THEN 0 ELSE h[k - 1] + w[k]
  BY DEF Parts
<1>2. 0 \in S
  BY <1>1
<1>3. ASSUME NEW k \in Nat, k \in S PROVE k + 1 \in S
  BY <1>1, <1>3
<1> HIDE DEF S
<1>4. Nat \subseteq S
  BY <1>2, <1>3, InductiveSet
<1> QED BY <1>4 DEF S

(* SumUpTo is the last partial sum. *)
LEMMA SumParts ==
  ASSUME NEW v, NEW n \in Nat
  PROVE  \E g : Parts(g, v, n) /\ SumUpTo(v, n) = g[n]
<1>1. PICK g : g = CHOOSE x : Parts(x, v, n) OBVIOUS
<1>2. Parts(g, v, n)
  BY <1>1, PartsExist
<1>3. SumUpTo(v, n) = (CHOOSE x : Parts(x, v, n))[n]
  BY DEF SumUpTo, Parts
<1> QED BY <1>1, <1>2, <1>3

(* What the sum is. *)
LEMMA SumSteps ==
  ASSUME NEW v
  PROVE  /\ SumUpTo(v, 0) = 0
         /\ \A n \in Nat : SumUpTo(v, n + 1) = SumUpTo(v, n) + v[n + 1]
<1>1. SumUpTo(v, 0) = 0
  BY SumParts DEF Parts
<1>2. ASSUME NEW n \in Nat PROVE SumUpTo(v, n + 1) = SumUpTo(v, n) + v[n + 1]
  <2>1. PICK g : Parts(g, v, n) /\ SumUpTo(v, n) = g[n]
    BY SumParts
  <2>2. PICK h : Parts(h, v, n + 1) /\ SumUpTo(v, n + 1) = h[n + 1]
    BY SumParts
  <2>3. h[n + 1] = h[n] + v[n + 1]
    BY <2>2 DEF Parts
  <2>4. g[n] = h[n]
    BY <2>1, <2>2, PartsAgree
  <2> QED BY <2>1, <2>2, <2>3, <2>4
<1> QED BY <1>1, <1>2

(* A sum depends on what is summed and on nothing else. *)
LEMMA SumAgrees ==
  ASSUME NEW v, NEW w, NEW n \in Nat, \A k \in 1 .. n : v[k] = w[k]
  PROVE  SumUpTo(v, n) = SumUpTo(w, n)
<1>1. PICK g : Parts(g, v, n) /\ SumUpTo(v, n) = g[n]
  BY SumParts
<1>2. PICK h : Parts(h, w, n) /\ SumUpTo(w, n) = h[n]
  BY SumParts
<1> QED BY <1>1, <1>2, PartsAgree

(* Sums of numbers are numbers, and grow with what is summed. *)
LEMMA SumGrows ==
  ASSUME NEW v, NEW w, NEW n \in Nat,
         \A k \in 1 .. n : v[k] \in Nat /\ w[k] \in Nat /\ v[k] <= w[k]
  PROVE  SumUpTo(v, n) \in Nat /\ SumUpTo(w, n) \in Nat /\ SumUpTo(v, n) <= SumUpTo(w, n)
<1> DEFINE S == {k \in Nat : k <= n => /\ SumUpTo(v, k) \in Nat /\ SumUpTo(w, k) \in Nat
                                       /\ SumUpTo(v, k) <= SumUpTo(w, k)}
<1>1. 0 \in S
  BY SumSteps
<1>2. ASSUME NEW k \in Nat, k \in S PROVE k + 1 \in S
  <2>1. SumUpTo(v, k + 1) = SumUpTo(v, k) + v[k + 1] /\ SumUpTo(w, k + 1) = SumUpTo(w, k) + w[k + 1]
    BY SumSteps
  <2> QED BY <1>2, <2>1
<1> HIDE DEF S
<1>3. Nat \subseteq S
  BY <1>1, <1>2, InductiveSet
<1> QED BY <1>3 DEF S

(* Nothing is added by zeros. *)
LEMMA SumTail ==
  ASSUME NEW v, NEW n \in Nat, NEW m \in Nat, m <= n,
         \A k \in 1 .. n : v[k] \in Nat, \A k \in 1 .. n : k > m => v[k] = 0
  PROVE  SumUpTo(v, n) = SumUpTo(v, m)
<1> DEFINE S == {k \in Nat : m <= k /\ k <= n => SumUpTo(v, k) = SumUpTo(v, m)}
<1>0. SumUpTo(v, m) \in Nat
  BY SumGrows
<1>1. 0 \in S
  BY SumSteps
<1>2. ASSUME NEW k \in Nat, k \in S PROVE k + 1 \in S
  <2>1. SumUpTo(v, k + 1) = SumUpTo(v, k) + v[k + 1]
    BY SumSteps
  <2>2. CASE k + 1 <= m
    BY <2>2
  <2>3. CASE ~(k + 1 <= m)
    BY <1>0, <1>2, <2>1, <2>3
  <2> QED BY <2>2, <2>3
<1> HIDE DEF S
<1>3. Nat \subseteq S
  BY <1>1, <1>2, InductiveSet
<1> QED BY <1>3 DEF S

-----------------------------------------------------------------------------
(* What Reduce visits adds up to what was added in the last Size periods.  *)
LEMMA WindowSums ==
  ASSUME WindowTypeOK, RingInv
  PROVE  /\ SumOf(Visited) = SumUpTo([k \in 1 .. Size |-> History(Slot(now) - Size + k).sum], Size)
         /\ CountOf(Visited) = SumUpTo([k \in 1 .. Size |-> History(Slot(now) - Size + k).count], Size)
<1> DEFINE past(k) == History(Slot(now) - Size + k)
           sums   == [k \in 1 .. Size |-> past(k).sum]
           counts == [k \in 1 .. Size |-> past(k).count]
<1>0. Size \in Nat \ {0} BY WindowAssumption
<1>1. PICK cur \in Slots : cur = Slot(now) BY SlotSpan
<1>2. cur \in Nat BY <1>1 DEF Slots
<1>3. PICK n \in Nat : n = ReduceCount /\ n <= Size
  <2>1. timespan \in Nat BY SlotSpan DEF Slots
  <2> QED BY <1>0, <2>1 DEF ReduceCount
<1>4. /\ \A k \in 1 .. n : Visited[k] = past(k)
      /\ \A s \in Slots : s > cur - Size + n => added[s] = Empty
  BY <1>1, <1>3, RingExact DEF WindowExact
<1>5. \A k \in 1 .. Size : k > n => past(k) = Empty
  <2> SUFFICES ASSUME NEW k \in 1 .. Size, k > n PROVE History(cur - Size + k) = Empty
    BY <1>1
  <2>1. cur - Size + k > cur - Size + n BY <1>0, <1>2, <1>3
  <2> QED BY <1>4, <2>1 DEF History
<1>6. \A k \in 1 .. Size : past(k) \in Bucket
  BY DEF History, WindowTypeOK, Empty, Bucket
<1> HIDE DEF past
<1>7. \A k \in 1 .. Size : sums[k] = past(k).sum /\ counts[k] = past(k).count
  OBVIOUS
<1>8. \A k \in 1 .. Size : sums[k] \in Nat /\ counts[k] \in Nat
  BY <1>6, <1>7 DEF Bucket
<1>9. \A k \in 1 .. Size : k > n => sums[k] = 0 /\ counts[k] = 0
  BY <1>5, <1>7 DEF Empty
<1> HIDE DEF sums, counts
<1>10. SumUpTo(sums, Size) = SumUpTo(sums, n) /\ SumUpTo(counts, Size) = SumUpTo(counts, n)
  BY <1>0, <1>3, <1>8, <1>9, SumTail
<1>11. Len(Visited) = n
  BY <1>3 DEF Visited
<1>12. PICK v, w : /\ v = [k \in 1 .. Len(Visited) |-> Visited[k].sum]
                   /\ w = [k \in 1 .. Len(Visited) |-> Visited[k].count]
  OBVIOUS
<1>13. \A k \in 1 .. n : v[k] = sums[k] /\ w[k] = counts[k]
  <2> SUFFICES ASSUME NEW k \in 1 .. n PROVE v[k] = sums[k] /\ w[k] = counts[k]
    OBVIOUS
  <2>1. k \in 1 .. Size BY <1>0, <1>3
  <2> QED BY <1>4, <1>7, <1>11, <1>12, <2>1
<1>14. SumUpTo(v, n) = SumUpTo(sums, n) /\ SumUpTo(w, n) = SumUpTo(counts, n)
  BY <1>13, SumAgrees
<1>15. SumOf(Visited) = SumUpTo(v, n) /\ CountOf(Visited) = SumUpTo(w, n)
  BY <1>11, <1>12 DEF SumOf, CountOf
<1>16. SumOf(Visited) = SumUpTo(sums, Size) /\ CountOf(Visited) = SumUpTo(counts, Size)
  BY <1>10, <1>14, <1>15
<1> QED BY <1>16 DEF sums, counts, past

-----------------------------------------------------------------------------
(* The window holds at most what the callers really had, and in a period   *)
(* in which every call was marked it holds exactly that.                   *)
MarksInv == \A s \in Slots : /\ added[s].count <= served[s].count
                             /\ s \notin unmarked => served[s] = added[s]

(* What a summary saw is related to the real outcomes in the same way.     *)
SeenTrue(r) == r.total <= r.calls /\ (~r.blind => r.accepts = r.good /\ r.total = r.calls)
SeenInv     == \A c \in Callers : SeenTrue(seen[c])

(* The inductive invariant of the breaker. *)
BreakerInv == BreakerTypeOK /\ RingInv /\ MarksInv /\ SeenInv

(* Breaker.summary reads the truth while every recent call was marked, and *)
(* never more calls than there were.                                       *)
LEMMA SummaryTrue ==
  ASSUME BreakerInv
  PROVE  /\ SumOf(Visited) \in Nat /\ CountOf(Visited) \in Nat
         /\ SumOf(LastServed) \in Nat /\ CountOf(LastServed) \in Nat
         /\ CountOf(Visited) <= CountOf(LastServed)
         /\ Recent \cap unmarked = {} =>
              SumOf(Visited) = SumOf(LastServed) /\ CountOf(Visited) = CountOf(LastServed)
<1>0. Size \in Nat \ {0} BY WindowAssumption
<1>1. WindowTypeOK /\ RingInv /\ MarksInv /\ served \in [Slots -> Bucket] /\ added \in [Slots -> Bucket]
  BY DEF BreakerInv, BreakerTypeOK, WindowTypeOK
<1>2. PICK cur \in Slots : cur = Slot(now) BY <1>1, SlotSpan
<1>3. cur \in Nat BY <1>2 DEF Slots
<1>4. PICK a, n, g, t :
        /\ a = [k \in 1 .. Size |-> History(cur - Size + k).sum]
        /\ n = [k \in 1 .. Size |-> History(cur - Size + k).count]
        /\ g = [k \in 1 .. Size |-> Outcome(cur - Size + k).sum]
        /\ t = [k \in 1 .. Size |-> Outcome(cur - Size + k).count]
  OBVIOUS
<1>5. SumOf(Visited) = SumUpTo(a, Size) /\ CountOf(Visited) = SumUpTo(n, Size)
  BY <1>1, <1>2, <1>4, WindowSums
<1>6. SumOf(LastServed) = SumUpTo(g, Size) /\ CountOf(LastServed) = SumUpTo(t, Size)
  <2>1. LastServed = [k \in 1 .. Size |-> Outcome(cur - Size + k)] BY <1>2 DEF LastServed
  <2>2. Len(LastServed) = Size BY <1>0, <2>1
  <2>3. /\ [k \in 1 .. Len(LastServed) |-> LastServed[k].sum] = g
        /\ [k \in 1 .. Len(LastServed) |-> LastServed[k].count] = t
    BY <1>4, <2>1, <2>2
  <2> QED BY <2>2, <2>3 DEF SumOf, CountOf
<1>7. ASSUME NEW k \in 1 .. Size
      PROVE  /\ a[k] \in Nat /\ n[k] \in Nat /\ g[k] \in Nat /\ t[k] \in Nat /\ n[k] <= t[k]
             /\ Recent \cap unmarked = {} => a[k] = g[k] /\ n[k] = t[k]
  <2>1. /\ a[k] = History(cur - Size + k).sum /\ n[k] = History(cur - Size + k).count
        /\ g[k] = Outcome(cur - Size + k).sum /\ t[k] = Outcome(cur - Size + k).count
    BY <1>4
  <2>2. CASE cur - Size + k \in Slots
    <3>1. PICK s \in Slots : s = cur - Size + k BY <2>2
    <3>2. History(s) = added[s] /\ Outcome(s) = served[s] BY DEF History, Outcome
    <3>3. /\ added[s].sum \in Nat /\ added[s].count \in Nat
          /\ served[s].sum \in Nat /\ served[s].count \in Nat
      BY <1>1 DEF Bucket
    <3>4. added[s].count <= served[s].count /\ (s \notin unmarked => served[s] = added[s])
      BY <1>1 DEF MarksInv
    <3>5. s \in Recent
      BY <1>0, <1>2, <1>3, <3>1 DEF Recent
    <3> QED BY <2>1, <3>1, <3>2, <3>3, <3>4, <3>5
  <2>3. CASE cur - Size + k \notin Slots
    BY <2>1, <2>3 DEF History, Outcome, Empty
  <2> QED BY <2>2, <2>3
<1>8. /\ SumUpTo(n, Size) \in Nat /\ SumUpTo(t, Size) \in Nat /\ SumUpTo(n, Size) <= SumUpTo(t, Size)
  BY <1>0, <1>7, SumGrows
<1>9. SumUpTo(a, Size) \in Nat /\ SumUpTo(g, Size) \in Nat
  <2>1. \A k \in 1 .. Size : a[k] \in Nat /\ a[k] <= a[k] /\ g[k] \in Nat /\ g[k] <= g[k] BY <1>7
  <2> QED BY <1>0, <2>1, SumGrows
<1>10. ASSUME Recent \cap unmarked = {}
       PROVE  SumUpTo(a, Size) = SumUpTo(g, Size) /\ SumUpTo(n, Size) = SumUpTo(t, Size)
  <2>1. \A k \in 1 .. Size : a[k] = g[k] /\ n[k] = t[k] BY <1>7, <1>10
  <2> QED BY <1>0, <2>1, SumAgrees
<1> QED BY <1>5, <1>6, <1>8, <1>9, <1>10

(* The invariant holds of a new breaker. *)
LEMMA BreakerInitial ==
  ASSUME BreakerInit
  PROVE  BreakerInv
<1>1. WindowTypeOK /\ RingInv BY RingInitial DEF BreakerInit
<1>2. Empty \in Bucket /\ Empty.count = 0 BY DEF Empty, Bucket
<1>3. added = [s \in Slots |-> Empty] /\ served = [s \in Slots |-> Empty] /\ unmarked = {}
  BY DEF BreakerInit, WindowInit
<1>4. MarksInv BY <1>2, <1>3 DEF MarksInv
<1>5. /\ NotRead \in [accepts : Nat, total : Nat, good : Nat, calls : Nat, blind : BOOLEAN]
      /\ SeenTrue(NotRead)
  BY DEF NotRead, SeenTrue
<1>6. SeenInv BY <1>5 DEF BreakerInit, SeenInv
<1>7. BreakerTypeOK
  BY <1>1, <1>2, <1>3, <1>5 DEF BreakerInit, BreakerTypeOK
<1> QED BY <1>1, <1>4, <1>6, <1>7 DEF BreakerInv

(* Only the present period's outcomes grow. *)
LEMMA ServedGrows ==
  ASSUME BreakerInv, NEW outcome, Served(outcome)
  PROVE  /\ served' \in [Slots -> Bucket]
         /\ \A s \in Slots : s # Slot(now) => served'[s] = served[s]
         /\ served'[Slot(now)] = AddTo(served[Slot(now)], IF outcome \in {"ok", "other"} THEN 1 ELSE 0)
         /\ served'[Slot(now)].count = served[Slot(now)].count + 1
<1>1. WindowTypeOK /\ RingInv /\ served \in [Slots -> Bucket]
  BY DEF BreakerInv, BreakerTypeOK
<1>2. PICK cur \in Slots : cur = Slot(now) BY <1>1, SlotSpan
<1>3. PICK v \in Nat : v = IF outcome \in {"ok", "other"} THEN 1 ELSE 0 OBVIOUS
<1>4. served' = [served EXCEPT ![cur] = AddTo(@, v)] BY <1>2, <1>3 DEF Served
<1>5. AddTo(served[cur], v) \in Bucket /\ AddTo(served[cur], v).count = served[cur].count + 1
  BY <1>1, <1>2 DEF AddTo, Bucket
<1> QED BY <1>1, <1>2, <1>3, <1>4, <1>5

(* A call that is marked for what it was keeps the window true to the       *)
(* outcomes; one that is not marked leaves its period among the unmarked.   *)
LEMMA MarkKeeps ==
  ASSUME BreakerInv, NEW outcome, Served(outcome),
         \/ Add(IF outcome \in {"ok", "other"} THEN 1 ELSE 0) /\ unmarked \subseteq unmarked'
         \/ UNCHANGED windowVars /\ unmarked' = unmarked \cup {Slot(now)}
  PROVE  WindowTypeOK' /\ RingInv' /\ MarksInv'
<1>1. WindowTypeOK /\ RingInv /\ MarksInv /\ added \in [Slots -> Bucket] /\ served \in [Slots -> Bucket]
  BY DEF BreakerInv, BreakerTypeOK, WindowTypeOK
<1>2. PICK cur \in Slots : cur = Slot(now) BY <1>1, SlotSpan
<1>3. PICK v \in Nat : v = IF outcome \in {"ok", "other"} THEN 1 ELSE 0 OBVIOUS
<1>4. /\ \A s \in Slots : s # cur => served'[s] = served[s]
      /\ served'[cur] = AddTo(served[cur], v)
      /\ served'[cur].count = served[cur].count + 1
  BY <1>2, <1>3, ServedGrows
<1>5. \A s \in Slots : added[s].count \in Nat /\ served[s].count \in Nat BY <1>1 DEF Bucket
<1>6. CASE Add(v) /\ unmarked \subseteq unmarked'
  <2>1. WindowTypeOK' /\ RingInv' BY <1>1, <1>6, AddPreserves
  <2>2. added' = [added EXCEPT ![cur] = AddTo(@, v)] BY <1>1, <1>2, <1>6, AddEffect
  <2>3. \A s \in Slots : s # cur => added'[s] = added[s] BY <1>1, <2>2
  <2>4. added'[cur] = AddTo(added[cur], v) /\ added'[cur].count = added[cur].count + 1
    BY <1>1, <1>2, <2>2 DEF AddTo
  <2>5. ASSUME NEW s \in Slots
        PROVE  added'[s].count <= served'[s].count /\ (s \notin unmarked' => served'[s] = added'[s])
    BY <1>1, <1>4, <1>5, <1>6, <2>3, <2>4 DEF MarksInv
  <2> QED BY <2>1, <2>5 DEF MarksInv
<1>7. CASE UNCHANGED windowVars /\ unmarked' = unmarked \cup {cur}
  <2>1. WindowTypeOK' /\ RingInv'
    BY <1>1, <1>7 DEF windowVars, WindowTypeOK, RingInv, Slot
  <2>2. added' = added BY <1>7 DEF windowVars
  <2>3. ASSUME NEW s \in Slots
        PROVE  added'[s].count <= served'[s].count /\ (s \notin unmarked' => served'[s] = added'[s])
    BY <1>1, <1>4, <1>5, <1>7, <2>2 DEF MarksInv
  <2> QED BY <2>1, <2>3 DEF MarksInv
<1> QED BY <1>2, <1>3, <1>6, <1>7

(* What each caller marks is what its call was, or nothing. *)
LEMMA MarkTrue ==
  ASSUME NEW outcome \in Outcomes, NEW m \in {GinMark(outcome), GrpcMark(outcome)}, Mark(m)
  PROVE  \/ m # "none" /\ Add(IF outcome \in {"ok", "other"} THEN 1 ELSE 0)
         \/ m = "none" /\ UNCHANGED windowVars
<1>1. outcome \in {"ok", "other", "hit", "panic"} BY BreakerAssumption
<1>2. CASE outcome = "panic"
  <2>1. m = "none" BY <1>2 DEF GinMark, GrpcMark
  <2> QED BY <2>1 DEF Mark
<1>3. CASE outcome = "hit"
  <2>1. m = "failed" BY <1>3 DEF GinMark, GrpcMark
  <2> QED BY <1>3, <2>1 DEF Mark
<1>4. CASE outcome = "other"
  <2>1. m = "success" BY <1>4 DEF GinMark, GrpcMark
  <2> QED BY <1>4, <2>1 DEF Mark
<1>5. CASE outcome = "ok"
  <2>1. m = "success" \/ m = "none" BY <1>5 DEF GinMark, GrpcMark
  <2>2. CASE m = "success" BY <1>5, <2>2 DEF Mark
  <2>3. CASE m = "none" BY <2>3 DEF Mark
  <2> QED BY <2>1, <2>2, <2>3
<1> QED BY <1>1, <1>2, <1>3, <1>4, <1>5

(* Every step of the breaker and its callers keeps the invariant. *)
LEMMA BreakerInductive ==
  ASSUME BreakerInv, [BreakerNext]_breakerVars
  PROVE  BreakerInv'
<1> DEFINE Read == [accepts : Nat, total : Nat, good : Nat, calls : Nat, blind : BOOLEAN]
<1>0. /\ WindowTypeOK /\ RingInv /\ MarksInv /\ SeenInv
      /\ transport \in Transports /\ breakerState \in {"open", "closed"}
      /\ pc \in [Callers -> {"idle", "decide", "inCall", "rejected"}]
      /\ seen \in [Callers -> Read]
      /\ served \in [Slots -> Bucket] /\ unmarked \subseteq Slots
  BY DEF BreakerInv, BreakerTypeOK
<1>1. Slot(now) \in Slots BY <1>0, SlotSpan
<1>2. UNCHANGED windowVars => WindowTypeOK' /\ RingInv'
  BY <1>0 DEF windowVars, WindowTypeOK, RingInv, Slot
<1>3. UNCHANGED <<added, histVars>> => MarksInv'
  BY <1>0 DEF MarksInv, histVars
<1>4. UNCHANGED seen => SeenInv'
  BY <1>0 DEF SeenInv
<1>5. CASE UNCHANGED breakerVars
  <2>1. UNCHANGED <<windowVars, added, histVars, seen>> BY <1>5 DEF breakerVars, windowVars
  <2> QED BY <1>0, <1>2, <1>3, <1>4, <1>5, <2>1 DEF BreakerInv, BreakerTypeOK, breakerVars, histVars
<1>6. CASE BreakerTick
  <2>1. WindowTypeOK' /\ RingInv'
    <3>1. now \in 0 .. MaxTime BY <1>0 DEF WindowTypeOK
    <3> QED BY <1>0, <1>6, <3>1, RingRests, WindowAssumption DEF BreakerTick, Tick
  <2>2. UNCHANGED <<added, histVars, seen>> BY <1>6 DEF BreakerTick, Tick
  <2> QED BY <1>0, <1>3, <1>4, <1>6, <2>1, <2>2 DEF BreakerTick, BreakerInv, BreakerTypeOK, histVars
<1>7. ASSUME NEW c \in Callers, Summarise(c) PROVE BreakerInv'
  <2>1. UNCHANGED <<windowVars, added, histVars>> BY <1>7 DEF Summarise, windowVars
  <2>2. PICK r : r = [accepts |-> SumOf(Visited), total |-> CountOf(Visited),
                      good |-> SumOf(LastServed), calls |-> CountOf(LastServed),
                      blind |-> Recent \cap unmarked # {}]
    OBVIOUS
  <2>3. r \in Read /\ SeenTrue(r)
    BY <2>2, SummaryTrue DEF SeenTrue
  <2>4. seen' = [seen EXCEPT ![c] = r] BY <1>7, <2>2 DEF Summarise
  <2>5. SeenInv' /\ seen' \in [Callers -> Read]
    BY <1>0, <2>3, <2>4 DEF SeenInv
  <2>6. pc' \in [Callers -> {"idle", "decide", "inCall", "rejected"}]
    BY <1>0, <1>7 DEF Summarise
  <2> QED BY <1>0, <1>2, <1>3, <1>7, <2>1, <2>5, <2>6
          DEF Summarise, BreakerInv, BreakerTypeOK, histVars
<1>8. ASSUME NEW c \in Callers, Decide(c) PROVE BreakerInv'
  <2>1. UNCHANGED <<windowVars, added, histVars>> BY <1>8 DEF Decide, windowVars
  <2>2. NotRead \in Read /\ SeenTrue(NotRead) BY DEF NotRead, SeenTrue
  <2>3. seen' = [seen EXCEPT ![c] = NotRead] BY <1>8 DEF Decide
  <2>4. SeenInv' /\ seen' \in [Callers -> Read]
    BY <1>0, <2>2, <2>3 DEF SeenInv
  <2>5. pc' \in [Callers -> {"idle", "decide", "inCall", "rejected"}]
    BY <1>0, <1>8 DEF Decide
  <2>6. breakerState' \in {"open", "closed"} BY <1>8 DEF Decide
  <2> QED BY <1>0, <1>2, <1>3, <1>8, <2>1, <2>4, <2>5, <2>6
          DEF Decide, BreakerInv, BreakerTypeOK, histVars
<1>9. ASSUME NEW c \in Callers, Reject(c) PROVE BreakerInv'
  <2>1. Served("rejected") /\ Add(0) /\ unmarked' = unmarked BY <1>9 DEF Reject
  <2>2. WindowTypeOK' /\ RingInv' /\ MarksInv'
    <3>1. Add(IF "rejected" \in {"ok", "other"} THEN 1 ELSE 0) BY <2>1
    <3> QED BY <2>1, <3>1, MarkKeeps
  <2>3. served' \in [Slots -> Bucket] BY <2>1, ServedGrows
  <2>4. pc' \in [Callers -> {"idle", "decide", "inCall", "rejected"}]
    BY <1>0, <1>9 DEF Reject
  <2> QED BY <1>0, <1>4, <1>9, <2>2, <2>3, <2>4 DEF Reject, BreakerInv, BreakerTypeOK
<1>10. ASSUME NEW c \in Callers, NEW outcome \in Outcomes, Return(c, outcome) PROVE BreakerInv'
  <2>1. PICK m \in {GinMark(outcome), GrpcMark(outcome)} :
          /\ Mark(m) /\ Served(outcome)
          /\ unmarked' = unmarked \cup (IF m = "none" THEN {Slot(now)} ELSE {})
    BY <1>10 DEF Return
  <2>2. \/ m # "none" /\ Add(IF outcome \in {"ok", "other"} THEN 1 ELSE 0)
        \/ m = "none" /\ UNCHANGED windowVars
    BY <2>1, MarkTrue
  <2>3. WindowTypeOK' /\ RingInv' /\ MarksInv'
    <3>1. CASE m = "none"
      <4>1. UNCHANGED windowVars /\ unmarked' = unmarked \cup {Slot(now)} BY <2>1, <2>2, <3>1
      <4> QED BY <2>1, <4>1, MarkKeeps
    <3>2. CASE m # "none"
      <4>1. /\ Add(IF outcome \in {"ok", "other"} THEN 1 ELSE 0)
            /\ unmarked \subseteq unmarked'
        BY <2>1, <2>2, <3>2
      <4> QED BY <2>1, <4>1, MarkKeeps
    <3> QED BY <3>1, <3>2
  <2>4. served' \in [Slots -> Bucket] BY <2>1, ServedGrows
  <2>5. unmarked' \subseteq Slots BY <1>0, <1>1, <2>1
  <2>6. pc' \in [Callers -> {"idle", "decide", "inCall", "rejected"}]
    BY <1>0, <1>10 DEF Return
  <2> QED BY <1>0, <1>4, <1>10, <2>3, <2>4, <2>5, <2>6 DEF Return, BreakerInv, BreakerTypeOK
<1> QED BY <1>5, <1>6, <1>7, <1>8, <1>9, <1>10 DEF BreakerNext

-----------------------------------------------------------------------------
(* A request leaves the decision by Breaker.Allow only. *)
LEMMA DecidesAlone ==
  ASSUME BreakerInv, BreakerNext, NEW c \in Callers, pc[c] = "decide", pc'[c] # "decide"
  PROVE  Decide(c)
<1>0. pc \in [Callers -> {"idle", "decide", "inCall", "rejected"}]
  BY DEF BreakerInv, BreakerTypeOK
<1>1. CASE BreakerTick BY <1>1 DEF BreakerTick
<1>2. ASSUME NEW d \in Callers, Summarise(d) PROVE FALSE BY <1>0, <1>2 DEF Summarise
<1>3. ASSUME NEW d \in Callers, Reject(d) PROVE FALSE BY <1>0, <1>3 DEF Reject
<1>4. ASSUME NEW d \in Callers, NEW outcome \in Outcomes, Return(d, outcome) PROVE FALSE
  BY <1>0, <1>4 DEF Return
<1>5. ASSUME NEW d \in Callers, Decide(d) PROVE d = c BY <1>0, <1>5 DEF Decide
<1> QED BY <1>1, <1>2, <1>3, <1>4, <1>5 DEF BreakerNext

(* Types of the breaker and its window, for any requests and any options    *)
(* (Breaker and RollingPolicy).                                             *)
THEOREM BreakerTypeCorrect == BreakerSpec => []BreakerTypeOK
<1>1. BreakerInit => BreakerInv BY BreakerInitial
<1>2. BreakerInv /\ [BreakerNext]_breakerVars => BreakerInv' BY BreakerInductive
<1>3. BreakerInv => BreakerTypeOK BY DEF BreakerInv
<1> QED BY <1>1, <1>2, <1>3, PTL DEF BreakerSpec

(* While every call of the window was marked, Allow opens the breaker       *)
(* exactly if their real outcomes were failing, and drops a request only    *)
(* if their success rate was below `success' (Breaker.Allow and the marks   *)
(* of the gin and gRPC middleware).                                         *)
THEOREM BreakerTripsExactly == BreakerSpec => TripsExactly
<1> DEFINE Step == \A c \in Callers :
                     pc[c] = "decide" /\ pc'[c] # "decide" /\ ~seen[c].blind
                     => /\ breakerState' = "open" <=> Failing(seen[c])
                        /\ pc'[c] = "rejected" => Failing(seen[c]) /\ BelowSuccess(seen[c])
<1>1. BreakerInit => BreakerInv BY BreakerInitial
<1>2. BreakerInv /\ [BreakerNext]_breakerVars => BreakerInv' BY BreakerInductive
<1>3. ASSUME BreakerInv, BreakerNext PROVE Step
  <2> SUFFICES ASSUME NEW c \in Callers, pc[c] = "decide", pc'[c] # "decide", ~seen[c].blind
               PROVE  /\ breakerState' = "open" <=> Failing(seen[c])
                      /\ pc'[c] = "rejected" => Failing(seen[c]) /\ BelowSuccess(seen[c])
    OBVIOUS
  <2>1. Decide(c) BY <1>3, DecidesAlone
  <2>2. /\ seen[c].total = seen[c].calls /\ seen[c].accepts = seen[c].good
        /\ seen[c].calls \in Nat /\ seen[c].good \in Nat
    BY <1>3 DEF BreakerInv, BreakerTypeOK, SeenInv, SeenTrue
  <2>3. Request \in Nat /\ Num \in Nat /\ Den \in Nat BY BreakerAssumption
  <2>4. Healthy(seen[c]) <=> ~Failing(seen[c])
    <3>1. PICK x \in Nat, y \in Nat : x = seen[c].calls * Num /\ y = Den * seen[c].good
      BY <2>2, <2>3
    <3> QED BY <2>2, <2>3, <3>1 DEF Healthy, Failing
  <2>5. pc \in [Callers -> {"idle", "decide", "inCall", "rejected"}]
    BY <1>3 DEF BreakerInv, BreakerTypeOK
  <2>6. breakerState' = IF Healthy(seen[c]) THEN "closed" ELSE "open" BY <2>1 DEF Decide
  <2>7. pc'[c] = "rejected" => ~Healthy(seen[c]) /\ MayDrop(seen[c]) BY <2>1, <2>5 DEF Decide
  <2>8. MayDrop(seen[c]) <=> BelowSuccess(seen[c]) BY <2>2 DEF MayDrop, BelowSuccess
  <2> QED BY <2>4, <2>6, <2>7, <2>8
<1>4. BreakerInv /\ [BreakerNext]_breakerVars => [Step]_breakerVars BY <1>3
<1>5. BreakerSpec => [][Step]_breakerVars
  BY <1>1, <1>2, <1>4, PTL DEF BreakerSpec
<1> QED BY <1>5 DEF TripsExactly

(* A request that reads the window after a quiet window is let in, however  *)
(* long the breaker had been open and whatever was not marked (summary over *)
(* the lazily reset ring, then Breaker.Allow).                              *)
THEOREM BreakerQuietAdmits == BreakerSpec => QuietWindowAdmits
<1> DEFINE Step == \A c \in Callers :
                     pc[c] = "decide" /\ seen[c].calls = 0 => pc'[c] # "rejected"
<1>1. BreakerInit => BreakerInv BY BreakerInitial
<1>2. BreakerInv /\ [BreakerNext]_breakerVars => BreakerInv' BY BreakerInductive
<1>3. ASSUME BreakerInv, BreakerNext PROVE Step
  <2> SUFFICES ASSUME NEW c \in Callers, pc[c] = "decide", seen[c].calls = 0, pc'[c] = "rejected"
               PROVE  FALSE
    OBVIOUS
  <2>1. Decide(c) BY <1>3, DecidesAlone
  <2>2. seen[c].total <= seen[c].calls /\ seen[c].total \in Nat
    BY <1>3 DEF BreakerInv, BreakerTypeOK, SeenInv, SeenTrue
  <2>3. Request \in Nat \ {0} BY BreakerAssumption
  <2>4. Healthy(seen[c]) BY <2>2, <2>3 DEF Healthy
  <2>5. pc \in [Callers -> {"idle", "decide", "inCall", "rejected"}]
    BY <1>3 DEF BreakerInv, BreakerTypeOK
  <2> QED BY <2>1, <2>4, <2>5 DEF Decide
<1>4. BreakerInv /\ [BreakerNext]_breakerVars => [Step]_breakerVars BY <1>3
<1>5. BreakerSpec => [][Step]_breakerVars
  BY <1>1, <1>2, <1>4, PTL DEF BreakerSpec
<1> QED BY <1>5 DEF QuietWindowAdmits

-----------------------------------------------------------------------------
(* The gin middleware leaves out panics alone, which are failures: the      *)
(* successes it has marked are the real ones.                               *)
GinInv == /\ transport = "gin"
          /\ \A s \in Slots : added[s].sum = served[s].sum
          /\ \A c \in Callers : seen[c].accepts = seen[c].good

(* So a summary counts the successes that there were. *)
LEMMA SuccessesTrue ==
  ASSUME BreakerInv, GinInv
  PROVE  SumOf(Visited) = SumOf(LastServed)
<1>0. Size \in Nat \ {0} BY WindowAssumption
<1>1. WindowTypeOK /\ RingInv BY DEF BreakerInv, BreakerTypeOK
<1>2. PICK a, g : /\ a = [k \in 1 .. Size |-> History(Slot(now) - Size + k).sum]
                  /\ g = [k \in 1 .. Size |-> Outcome(Slot(now) - Size + k).sum]
  OBVIOUS
<1>3. SumOf(Visited) = SumUpTo(a, Size) BY <1>1, <1>2, WindowSums
<1>4. SumOf(LastServed) = SumUpTo(g, Size)
  <2>1. Len(LastServed) = Size BY <1>0 DEF LastServed
  <2>2. [k \in 1 .. Len(LastServed) |-> LastServed[k].sum] = g BY <1>2, <2>1 DEF LastServed
  <2> QED BY <2>1, <2>2 DEF SumOf
<1>5. \A k \in 1 .. Size : a[k] = g[k] BY <1>2 DEF GinInv, History, Outcome
<1> QED BY <1>0, <1>3, <1>4, <1>5, SumAgrees

(* Every step of a breaker behind the gin middleware keeps that. *)
LEMMA GinInductive ==
  ASSUME BreakerInv, GinInv, [BreakerNext]_breakerVars
  PROVE  GinInv'
<1>0. /\ WindowTypeOK /\ RingInv
      /\ added \in [Slots -> Bucket] /\ served \in [Slots -> Bucket]
      /\ DOMAIN seen = Callers
  BY DEF BreakerInv, BreakerTypeOK, WindowTypeOK
<1>1. PICK cur \in Slots : cur = Slot(now) BY <1>0, SlotSpan
<1>2. ASSUME NEW v \in Nat, Add(v), UNCHANGED <<transport, seen>>,
             served' = [served EXCEPT ![cur] = AddTo(@, v)]
      PROVE  GinInv'
  <2>1. added' = [added EXCEPT ![cur] = AddTo(@, v)] BY <1>0, <1>1, <1>2, AddEffect
  <2>2. ASSUME NEW s \in Slots PROVE added'[s].sum = served'[s].sum
    <3>1. CASE s = cur
      <4>1. added'[s].sum = added[s].sum + v BY <1>0, <2>1, <3>1 DEF AddTo
      <4>2. served'[s].sum = served[s].sum + v BY <1>0, <1>2, <3>1 DEF AddTo
      <4> QED BY <4>1, <4>2 DEF GinInv
    <3>2. CASE s # cur BY <1>0, <1>2, <2>1, <3>2 DEF GinInv
    <3> QED BY <3>1, <3>2
  <2> QED BY <1>2, <2>2 DEF GinInv
<1>3. ASSUME UNCHANGED <<added, served, transport, seen>> PROVE GinInv'
  BY <1>3 DEF GinInv
<1>4. CASE UNCHANGED breakerVars BY <1>3, <1>4 DEF breakerVars, windowVars, histVars
<1>5. CASE BreakerTick BY <1>3, <1>5 DEF BreakerTick, Tick, histVars
<1>6. ASSUME NEW c \in Callers, Summarise(c) PROVE GinInv'
  <2>1. UNCHANGED <<added, served, transport>> BY <1>6 DEF Summarise, windowVars, histVars
  <2>2. PICK r : r = [accepts |-> SumOf(Visited), total |-> CountOf(Visited),
                      good |-> SumOf(LastServed), calls |-> CountOf(LastServed),
                      blind |-> Recent \cap unmarked # {}]
    OBVIOUS
  <2>3. r.accepts = r.good BY <2>2, SuccessesTrue
  <2>4. seen' = [seen EXCEPT ![c] = r] BY <1>6, <2>2 DEF Summarise
  <2>5. \A d \in Callers : seen'[d] = IF d = c THEN r ELSE seen[d] BY <1>0, <2>4
  <2> QED BY <2>1, <2>3, <2>5 DEF GinInv
<1>7. ASSUME NEW c \in Callers, Decide(c) PROVE GinInv'
  <2>1. UNCHANGED <<added, served, transport>> BY <1>7 DEF Decide, windowVars, histVars
  <2>2. \A d \in Callers : seen'[d] = IF d = c THEN NotRead ELSE seen[d] BY <1>0, <1>7 DEF Decide
  <2> QED BY <2>1, <2>2 DEF GinInv, NotRead
<1>8. ASSUME NEW c \in Callers, Reject(c) PROVE GinInv'
  BY <1>1, <1>2, <1>8 DEF Reject, Served
<1>9. ASSUME NEW c \in Callers, NEW outcome \in Outcomes, Return(c, outcome) PROVE GinInv'
  <2>1. /\ Mark(GinMark(outcome)) /\ Served(outcome) /\ UNCHANGED <<transport, seen>>
    BY <1>9 DEF Return, GinInv
  <2>2. PICK v \in Nat : v = IF outcome \in {"ok", "other"} THEN 1 ELSE 0 OBVIOUS
  <2>3. served' = [served EXCEPT ![cur] = AddTo(@, v)] BY <1>1, <2>1, <2>2 DEF Served
  <2>4. \/ GinMark(outcome) # "none" /\ Add(v)
        \/ GinMark(outcome) = "none" /\ UNCHANGED windowVars
    BY <2>1, <2>2, MarkTrue
  <2>5. CASE GinMark(outcome) # "none" BY <1>2, <2>1, <2>3, <2>4, <2>5
  <2>6. CASE GinMark(outcome) = "none"
    <3>1. outcome = "panic" BY <2>6 DEF GinMark
    <3>2. v = 0 BY <2>2, <3>1
    <3>3. added' = added BY <2>4, <2>6 DEF windowVars
    <3>4. ASSUME NEW s \in Slots PROVE served'[s].sum = served[s].sum
      <4>1. served[s].sum \in Nat BY <1>0 DEF Bucket
      <4>2. CASE s = cur BY <1>0, <2>3, <3>2, <4>1, <4>2 DEF AddTo
      <4>3. CASE s # cur BY <1>0, <2>3, <4>3
      <4> QED BY <4>2, <4>3
    <3> QED BY <2>1, <3>3, <3>4 DEF GinInv
  <2> QED BY <2>5, <2>6
<1> QED BY <1>4, <1>5, <1>6, <1>7, <1>8, <1>9 DEF BreakerNext

(* Behind the gin middleware, whatever the handlers do, panics included:    *)
(* the breaker opens, and a request is dropped, only if the real outcomes   *)
(* were failing, equality included.  The gRPC interceptors alone break this *)
(* (Breaker.Allow, gin's CircuitBreaker).                                   *)
THEOREM GinTripsOnlyWhenFailing ==
  ASSUME "grpc" \notin Transports
  PROVE  BreakerSpec => TripsOnlyWhenFailing
<1> DEFINE Step == \A c \in Callers :
                     /\ pc[c] = "decide"
                     /\ pc'[c] \in {"inCall", "rejected"}
                     /\ breakerState' = "open" /\ (breakerState = "closed" \/ pc'[c] = "rejected")
                     => Failing(seen[c])
           Inv == BreakerInv /\ GinInv
<1>1. BreakerInit => Inv
  <2> SUFFICES ASSUME BreakerInit PROVE Inv OBVIOUS
  <2>1. BreakerInv BY BreakerInitial
  <2>2. transport = "gin" BY BreakerAssumption DEF BreakerInit
  <2>3. \A s \in Slots : added[s].sum = served[s].sum BY DEF BreakerInit, WindowInit
  <2>4. \A c \in Callers : seen[c].accepts = seen[c].good BY DEF BreakerInit, NotRead
  <2> QED BY <2>1, <2>2, <2>3, <2>4 DEF GinInv
<1>2. Inv /\ [BreakerNext]_breakerVars => Inv' BY BreakerInductive, GinInductive
<1>3. ASSUME Inv, BreakerNext PROVE Step
  <2> SUFFICES ASSUME NEW c \in Callers, pc[c] = "decide", pc'[c] \in {"inCall", "rejected"},
                      breakerState' = "open"
               PROVE  Failing(seen[c])
    OBVIOUS
  <2>1. Decide(c) BY <1>3, DecidesAlone
  <2>2. ~Healthy(seen[c]) BY <2>1 DEF Decide
  <2>3. /\ seen[c].total <= seen[c].calls /\ seen[c].accepts = seen[c].good
        /\ seen[c].total \in Nat /\ seen[c].calls \in Nat /\ seen[c].good \in Nat
    BY <1>3 DEF GinInv, BreakerInv, BreakerTypeOK, SeenInv, SeenTrue
  <2>4. Request \in Nat /\ Num \in Nat /\ Den \in Nat BY BreakerAssumption
  <2>5. seen[c].total * Num <= seen[c].calls * Num
    <3>0. PICK t \in Nat, n \in Nat : t = seen[c].total /\ n = seen[c].calls BY <2>3
    <3>1. PICK e \in Nat : n = t + e
      <4>1. n - t \in Nat /\ n = t + (n - t) BY <2>3, <3>0
      <4> QED BY <4>1
    <3>2. (t + e) * Num = t * Num + e * Num /\ e * Num >= 0 BY <2>4
    <3> QED BY <2>4, <3>0, <3>1, <3>2
  <2>6. PICK x \in Nat, y \in Nat, z \in Nat :
          x = seen[c].total * Num /\ y = seen[c].calls * Num /\ z = Den * seen[c].good
    BY <2>3, <2>4
  <2> QED BY <2>2, <2>3, <2>4, <2>5, <2>6 DEF Healthy, Failing
<1>4. Inv /\ [BreakerNext]_breakerVars => [Step]_breakerVars BY <1>3
<1>5. BreakerSpec => [][Step]_breakerVars
  BY <1>1, <1>2, <1>4, PTL DEF BreakerSpec
<1> QED BY <1>5 DEF TripsOnlyWhenFailing
=============================================================================
