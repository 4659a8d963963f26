----------------------------- MODULE BBRLimiter -----------------------------
(***************************************************************************)
(* The adaptive limiter of pkg/shield/ratelimit (bbr.go) under the gin     *)
(* middleware and the gRPC interceptors that call it.                      *)
(*                                                                         *)
(* Requests run concurrently; every atomic load or store and every         *)
(* operation on a rolling counter is one step.  The limiter keeps two      *)
(* rolling counters (RollingWindow): passed requests and response times.   *)
(*                                                                         *)
(* `hotDrops', `leaked' and `others' are history: when requests were       *)
(* dropped under load, how many handlers have panicked, and how many       *)
(* requests were being handled, or had panicked, when a request read       *)
(* inFlight.                                                               *)
(***************************************************************************)
EXTENDS Integers, FiniteSetsExt

CONSTANTS Requests,        \* concurrent requests
          MaxCalls,        \* bound: requests in all
          Panics,          \* may a handler panic?
          Second,          \* clock ticks per second
          Size, BucketDuration, Values, MaxTime, MaxAdds  \* of the counters

ASSUME LimiterAssumption == /\ MaxCalls \in Nat
                            /\ Panics \in BOOLEAN
                            /\ Second \in Nat \ {0} /\ 1000 % Second = 0
                            /\ Size \in Nat \ {0} /\ BucketDuration \in Nat \ {0}
                            /\ Values \subseteq Nat /\ MaxTime \in Nat /\ MaxAdds \in Nat

VARIABLES passBuckets, passOffset, passTime, passAdded,  \* BBR.passStat
          rtBuckets, rtOffset, rtTime, rtAdded,          \* BBR.rtStat
          now,
          inFlight,       \* BBR.inFlight
          prevDropTime,   \* BBR.prevDropTime, 0 for none
          maxPASSCache, minRtCache,
          hot,            \* cpu() >= opts.CPUThreshold
          req,            \* each request: where it is and what it has read
          calls, hotDrops, leaked

Pass == INSTANCE RollingWindow WITH buckets <- passBuckets, offset <- passOffset,
                                    lastAppendTime <- passTime, added <- passAdded
Rt   == INSTANCE RollingWindow WITH buckets <- rtBuckets, offset <- rtOffset,
                                    lastAppendTime <- rtTime, added <- rtAdded

statVars    == <<passBuckets, passOffset, passTime, passAdded,
                 rtBuckets, rtOffset, rtTime, rtAdded>>
cacheVars   == <<maxPASSCache, minRtCache>>
histVars    == <<hotDrops, leaked>>
limiterVars == <<statVars, now, inFlight, prevDropTime, cacheVars, hot, req, calls, histVars>>

NoCache == [val |-> 0, time |-> -1]
Fresh   == [at |-> "idle", hot |-> FALSE, now |-> 0, inFlight |-> 0, others |-> 0,
            pass |-> 0, rt |-> 0, start |-> 0]

bucketPerSecond == Second \div BucketDuration
Milliseconds(ticks) == ticks * (1000 \div Second)

Go(r, at) == req' = [req EXCEPT ![r].at = at]

-----------------------------------------------------------------------------
(* A slip: the current bucket, still filling, is counted. *)
CompletedAll(count) == 1 .. count

(* The buckets a reducer reads: iterator.Next() && i < opts.Bucket. *)
Completed(count) == 1 .. (IF count < Size THEN count ELSE Size - 1)

(* What maxPASS computes: the fullest completed bucket, at least 1.  Reduce *)
(* returns 0 when the whole window has passed since the last Add.           *)

RawMaxPass ==
  IF Pass!ReduceCount = 0 THEN 0
  ELSE Max({1} \cup {Pass!Visited[k].sum : k \in Completed(Pass!ReduceCount)})

(* int64(math.Ceil(math.MaxFloat64)): the smallest int64 on amd64, which    *)
(* minRT turns into 1, and the largest on arm64, written Saturated here.    *)
Saturated == 0
CeilAvg(bucket) == (bucket.sum + bucket.count - 1) \div bucket.count

(* The values minRT may compute. *)
RawMinRT ==
  LET times == {CeilAvg(Rt!Visited[k]) :
                  k \in {j \in Completed(Rt!ReduceCount) : Rt!Visited[j].count > 0}}
  IN  CASE Rt!ReduceCount = 0 -> {1}
        [] times = {}         -> {1, Saturated}
        [] OTHER              -> {Min(times)}

(* maxInFlight.  With a saturated minRT the product wraps around: pass *    *)
(* (2^63 - 1) * bucketPerSecond is close to 2^63 for an odd factor and just *)
(* below zero, which rounds to 0, for an even one.                          *)
Unlimited == MaxCalls
maxInFlight(pass, rt) ==
  IF rt # Saturated
  THEN (pass * rt * bucketPerSecond) \div 1000
  ELSE IF (pass * bucketPerSecond) % 2 = 0 THEN 0 ELSE Unlimited

(* BBR.timespan(cache.time) < 1 *)
Valid(cache) == cache # NoCache /\ (now - cache.time) \div BucketDuration < 1

-----------------------------------------------------------------------------
(* Handled by now: admitted, and done has not given the place back. *)
Running == {r \in Requests : req[r].at \in {"handling", "doneRt", "doneInFlight"}}

(* Allow, shouldDrop: read the clock (a wall clock, never 0) and the load. *)
Arrive(r) ==
  /\ req[r].at = "idle" /\ calls < MaxCalls
  /\ calls' = calls + 1
  /\ req' = [req EXCEPT ![r] = [Fresh EXCEPT !.at = IF hot THEN "inFlight" ELSE "prevDrop",
                                             !.hot = hot, !.now = now + 1]]
  /\ UNCHANGED <<statVars, now, inFlight, prevDropTime, cacheVars, hot, histVars>>

(* A slip: dropping, once started, has no end. *)
CoolingForever(r) == prevDropTime # 0

Cooling(r) == req[r].now - prevDropTime <= Second

(* Below the threshold: nothing was dropped lately, dropping started within *)
(* the last second, or it is time to forget it.                             *)
LoadPrevDrop(r) ==
  /\ req[r].at = "prevDrop"
  /\ Go(r, CASE prevDropTime = 0 -> "admit"
             [] prevDropTime # 0 /\ Cooling(r) -> "inFlight"
             [] OTHER -> "forget")
  /\ UNCHANGED <<statVars, now, inFlight, prevDropTime, cacheVars, hot, calls, histVars>>

ForgetDrop(r) ==
  /\ req[r].at = "forget"
  /\ prevDropTime' = 0
  /\ Go(r, "admit")
  /\ UNCHANGED <<statVars, now, inFlight, cacheVars, hot, calls, histVars>>

(* inFlight > 1 && ... *)
LoadInFlight(r) ==
  /\ req[r].at = "inFlight"
  /\ req' = [req EXCEPT ![r].at = IF inFlight > 1 THEN "maxPASS" ELSE "admit",
                        ![r].inFlight = inFlight,
                        ![r].others = Cardinality(Running) + leaked]
  /\ UNCHANGED <<statVars, now, inFlight, prevDropTime, cacheVars, hot, calls, histVars>>

LoadMaxPass(r) ==
  /\ req[r].at = "maxPASS"
  /\ req' = IF Valid(maxPASSCache)
            THEN [req EXCEPT ![r].at = "minRT", ![r].pass = maxPASSCache.val]
            ELSE [req EXCEPT ![r].at = "storePASS", ![r].pass = RawMaxPass]
  /\ UNCHANGED <<statVars, now, inFlight, prevDropTime, cacheVars, hot, calls, histVars>>

StoreMaxPass(r) ==
  /\ req[r].at = "storePASS"
  /\ maxPASSCache' = [val |-> req[r].pass, time |-> now]
  /\ Go(r, "minRT")
  /\ UNCHANGED <<statVars, now, inFlight, prevDropTime, minRtCache, hot, calls, histVars>>

LoadMinRT(r) ==
  /\ req[r].at = "minRT"
  /\ IF Valid(minRtCache)
     THEN req' = [req EXCEPT ![r].at = "judge", ![r].rt = minRtCache.val]
     ELSE \E rt \in RawMinRT :
            req' = [req EXCEPT ![r].at = "storeRT", ![r].rt = rt]
  /\ UNCHANGED <<statVars, now, inFlight, prevDropTime, cacheVars, hot, calls, histVars>>

StoreMinRT(r) ==
  /\ req[r].at = "storeRT"
  /\ minRtCache' = [val |-> req[r].rt, time |-> now]
  /\ Go(r, "judge")
  /\ UNCHANGED <<statVars, now, inFlight, prevDropTime, maxPASSCache, hot, calls, histVars>>

(* ... && inFlight > maxInFlight(); under load prevDropTime is read next. *)
Judge(r) ==
  LET drop == req[r].inFlight > maxInFlight(req[r].pass, req[r].rt)
  IN  /\ req[r].at = "judge"
      /\ Go(r, CASE ~drop -> "admit"
                 [] drop /\ req[r].hot /\ prevDropTime = 0 -> "startDrop"
                 [] OTHER -> "dropped")
      /\ hotDrops' = hotDrops \cup (IF drop /\ req[r].hot THEN {req[r].now} ELSE {})
      /\ UNCHANGED <<statVars, now, inFlight, prevDropTime, cacheVars, hot, calls, leaked>>

StartDrop(r) ==
  /\ req[r].at = "startDrop"
  /\ prevDropTime' = req[r].now
  /\ Go(r, "dropped")
  /\ UNCHANGED <<statVars, now, inFlight, cacheVars, hot, calls, histVars>>

(* ErrLimitExceed: the middleware answers and stops. *)
Refuse(r) ==
  /\ req[r].at = "dropped"
  /\ req' = [req EXCEPT ![r] = Fresh]
  /\ UNCHANGED <<statVars, now, inFlight, prevDropTime, cacheVars, hot, calls, histVars>>

Admit(r) ==
  /\ req[r].at = "admit"
  /\ inFlight' = inFlight + 1
  /\ req' = [req EXCEPT ![r] = [Fresh EXCEPT !.at = "handling", !.start = now]]
  /\ UNCHANGED <<statVars, now, prevDropTime, cacheVars, hot, calls, histVars>>

(* The handler returns and the middleware calls done. *)
Return(r) ==
  /\ req[r].at = "handling"
  /\ Go(r, "doneRt")
  /\ UNCHANGED <<statVars, now, inFlight, prevDropTime, cacheVars, hot, calls, histVars>>

(* The handler panics: the stack unwinds past the call of done. *)
Panic(r) ==
  /\ Panics /\ req[r].at = "handling"
  /\ req' = [req EXCEPT ![r] = Fresh]
  /\ leaked' = leaked + 1
  /\ UNCHANGED <<statVars, now, inFlight, prevDropTime, cacheVars, hot, calls, hotDrops>>

(* done: the response time, at least a millisecond; *)
DoneRt(r) ==
  LET rt == Milliseconds(now - req[r].start)
  IN  /\ req[r].at = "doneRt"
      /\ Rt!Add(IF rt <= 0 THEN 1 ELSE rt)
      /\ Go(r, "doneInFlight")
      /\ UNCHANGED <<passBuckets, passOffset, passTime, passAdded, inFlight, prevDropTime,
                     cacheVars, hot, calls, histVars>>

(* A slip: the place is not given back. *)
DoneInFlightKept(r) ==
  /\ req[r].at = "doneInFlight"
  /\ Go(r, "donePass")
  /\ UNCHANGED <<statVars, now, inFlight, prevDropTime, cacheVars, hot, calls, histVars>>

(* then the place, *)
DoneInFlight(r) ==
  /\ req[r].at = "doneInFlight"
  /\ inFlight' = inFlight - 1
  /\ Go(r, "donePass")
  /\ UNCHANGED <<statVars, now, prevDropTime, cacheVars, hot, calls, histVars>>

(* then the pass. *)
DonePass(r) ==
  /\ req[r].at = "donePass"
  /\ Pass!Add(1)
  /\ req' = [req EXCEPT ![r] = Fresh]
  /\ UNCHANGED <<rtBuckets, rtOffset, rtTime, rtAdded, inFlight, prevDropTime,
                 cacheVars, hot, calls, histVars>>

(* cpuproc: the smoothed load crosses the threshold. *)
CpuSample ==
  /\ hot' = ~hot
  /\ UNCHANGED <<statVars, now, inFlight, prevDropTime, cacheVars, req, calls, histVars>>

LimiterTick ==
  /\ now < MaxTime /\ now' \in (now + 1) .. MaxTime
  /\ UNCHANGED <<statVars, inFlight, prevDropTime, cacheVars, hot, req, calls, histVars>>

-----------------------------------------------------------------------------
LimiterInit == /\ Pass!WindowInit /\ Rt!WindowInit
               /\ inFlight = 0 /\ prevDropTime = 0
               /\ maxPASSCache = NoCache /\ minRtCache = NoCache
               /\ hot \in BOOLEAN
               /\ req = [r \in Requests |-> Fresh]
               /\ calls = 0 /\ hotDrops = {} /\ leaked = 0

LimiterNext ==
  \/ LimiterTick
  \/ CpuSample
  \/ \E r \in Requests :
       \/ Arrive(r) \/ LoadPrevDrop(r) \/ ForgetDrop(r) \/ LoadInFlight(r)
       \/ LoadMaxPass(r) \/ StoreMaxPass(r) \/ LoadMinRT(r) \/ StoreMinRT(r)
       \/ Judge(r) \/ StartDrop(r) \/ Refuse(r) \/ Admit(r)
       \/ Return(r) \/ Panic(r) \/ DoneRt(r) \/ DoneInFlight(r) \/ DonePass(r)

LimiterSpec == LimiterInit /\ [][LimiterNext]_limiterVars

-----------------------------------------------------------------------------
Places == {"idle", "prevDrop", "forget", "inFlight", "maxPASS", "storePASS", "minRT",
           "storeRT", "judge", "startDrop", "dropped", "admit", "handling", "doneRt",
           "doneInFlight", "donePass"}
Cache  == [val : Nat, time : Int]

(* Type invariant. *)
LimiterTypeOK ==
  /\ Pass!WindowTypeOK /\ Rt!WindowTypeOK
  /\ inFlight \in 0 .. MaxCalls
  /\ prevDropTime \in 0 .. (MaxTime + 1)
  /\ maxPASSCache \in Cache /\ minRtCache \in Cache
  /\ hot \in BOOLEAN /\ {calls, leaked} \subseteq 0 .. MaxCalls
  /\ hotDrops \subseteq 1 .. (MaxTime + 1)
  /\ \A r \in Requests : /\ req[r].at \in Places
                         /\ {req[r].inFlight, req[r].pass, req[r].rt} \subseteq Nat

Dropped == {r \in Requests : req[r].at = "dropped"}

(* A request is dropped only if, when it looked, more requests than the     *)
(* limit, and more than one, held a place: they were being handled, or      *)
(* their handler had panicked and never gave the place back (shouldDrop,    *)
(* Allow and the done function of every middleware).                        *)
DropNeedsConcurrency ==
  \A r \in Dropped : /\ req[r].others > 1
                     /\ req[r].others > maxInFlight(req[r].pass, req[r].rt)

(* A request that found the CPU below the threshold is dropped only within  *)
(* a second of a drop under load, whatever the order in which requests      *)
(* load, store and forget prevDropTime (shouldDrop).                        *)
CoolDownEnds ==
  \A r \in Dropped : ~req[r].hot => \E t \in hotDrops : req[r].now - t <= Second

(* What the limit is computed from: the completed bucket periods still in   *)
(* the window.  After a window without any Add both counters read as empty. *)
Closed   == {s \in Pass!Slots : Pass!Slot(now) - Size < s /\ s < Pass!Slot(now)}
Quiet(h) == /\ Pass!Slot(now) >= Size
            /\ \A s \in Closed \cup {Pass!Slot(now)} : h[s].count = 0

(* maxPASS is the most requests that passed in one completed period of the  *)
(* window, and minRT the best average response time of one (the reducers    *)
(* over the lazily advanced rings).                                         *)
LimitExact ==
  /\ RawMaxPass = IF Quiet(passAdded) THEN 0
                  ELSE Max({1} \cup {passAdded[s].sum : s \in Closed})
  /\ LET timed == {s \in Closed : rtAdded[s].count > 0}
     IN  timed # {} => RawMinRT = {Min({CeilAvg(rtAdded[s]) : s \in timed})}

=============================================================================
