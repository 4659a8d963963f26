-------------------------- MODULE BBRLimiterProofs --------------------------
(* Proofs about the adaptive limiter: what a dropped request has seen,     *)
(* whatever the other requests, the clock and the CPU did meanwhile.       *)
EXTENDS BBRLimiter, FiniteSetTheorems, TLAPS

(* Requests are records of eight fields. *)
Req(at, h, n, i, o, p, t, s) ==
  [at |-> at, hot |-> h, now |-> n, inFlight |-> i, others |-> o, pass |-> p, rt |-> t, start |-> s]
IsReq(x) == x = Req(x.at, x.hot, x.now, x.inFlight, x.others, x.pass, x.rt, x.start)
Shaped   == req = [r \in Requests |-> req[r]] /\ \A r \in Requests : IsReq(req[r])

LEMMA ReqFields ==
  ASSUME NEW at, NEW h, NEW n, NEW i, NEW o, NEW p, NEW t, NEW s, NEW x,
         x = Req(at, h, n, i, o, p, t, s)
  PROVE  /\ x.at = at /\ x.hot = h /\ x.now = n /\ x.inFlight = i /\ x.others = o
         /\ x.pass = p /\ x.rt = t /\ x.start = s /\ IsReq(x)
  BY DEF Req, IsReq

LEMMA FreshFields == /\ Fresh = Req("idle", FALSE, 0, 0, 0, 0, 0, 0)
                     /\ Fresh.at = "idle" /\ Fresh.start = 0 /\ IsReq(Fresh)
  BY DEF Fresh, Req, IsReq

LEMMA FreshStarts == IsReq(Fresh) /\ Fresh.start \in Int
  BY DEF Fresh, IsReq, Req

(* One request becomes d; Go with the fields that are loaded. *)
MovesTo(r, d)          == req' = [req EXCEPT ![r] = d]
GoInFlight(r, a, b, c) == req' = [req EXCEPT ![r].at = a, ![r].inFlight = b, ![r].others = c]
GoPass(r, a, b)        == req' = [req EXCEPT ![r].at = a, ![r].pass = b]
GoRt(r, a, b)          == req' = [req EXCEPT ![r].at = a, ![r].rt = b]

(* One request moves. *)
LEMMA ReqMoves ==
  ASSUME Shaped, NEW r \in Requests, NEW d, IsReq(d), MovesTo(r, d)
  PROVE  Shaped' /\ req'[r] = d /\ \A q \in Requests \ {r} : req'[q] = req[q]
  BY DEF Shaped, MovesTo

(* Go: the request keeps what it knows. *)
LEMMA ReqGoes ==
  ASSUME Shaped, NEW r \in Requests, NEW a, Go(r, a)
  PROVE  \E d : /\ IsReq(d) /\ MovesTo(r, d)
                /\ d.at = a /\ d.hot = req[r].hot /\ d.now = req[r].now
                /\ d.inFlight = req[r].inFlight /\ d.others = req[r].others
                /\ d.pass = req[r].pass /\ d.rt = req[r].rt /\ d.start = req[r].start
<1>1. PICK x : x = req[r] OBVIOUS
<1>2. PICK at, h, n, i, o, p, t, s : x = Req(at, h, n, i, o, p, t, s)
  BY <1>1 DEF Shaped, IsReq
<1>3. PICK d : d = Req(a, h, n, i, o, p, t, s) OBVIOUS
<1>4. /\ x.hot = h /\ x.now = n /\ x.inFlight = i /\ x.others = o /\ x.pass = p /\ x.rt = t
      /\ x.start = s
  BY <1>2, ReqFields
<1>5. [x EXCEPT !["at"] = a] = d
  BY <1>2, <1>3 DEF Req
<1>6. req' = [req EXCEPT ![r] = [x EXCEPT !["at"] = a]]
  BY <1>1 DEF Shaped, Go
<1>7. MovesTo(r, d)
  BY <1>5, <1>6 DEF MovesTo
<1>8. /\ d.at = a /\ d.hot = h /\ d.now = n /\ d.inFlight = i
      /\ d.others = o /\ d.pass = p /\ d.rt = t /\ d.start = s /\ IsReq(d)
  BY <1>3, ReqFields
<1> QED BY <1>1, <1>4, <1>7, <1>8

(* The same, with what it has read of inFlight, *)
LEMMA ReqLoadsInFlight ==
  ASSUME Shaped, NEW r \in Requests, NEW a, NEW b, NEW c,
         GoInFlight(r, a, b, c)
  PROVE  \E d : /\ IsReq(d) /\ MovesTo(r, d)
                /\ d.at = a /\ d.hot = req[r].hot /\ d.now = req[r].now
                /\ d.inFlight = b /\ d.others = c
                /\ d.pass = req[r].pass /\ d.rt = req[r].rt /\ d.start = req[r].start
<1>1. PICK x : x = req[r] OBVIOUS
<1>2. PICK at, h, n, i, o, p, t, s : x = Req(at, h, n, i, o, p, t, s)
  BY <1>1 DEF Shaped, IsReq
<1>3. PICK d : d = Req(a, h, n, b, c, p, t, s) OBVIOUS
<1>4. /\ x.hot = h /\ x.now = n /\ x.inFlight = i /\ x.others = o /\ x.pass = p /\ x.rt = t
      /\ x.start = s
  BY <1>2, ReqFields
<1>5. [x EXCEPT !["at"] = a, !["inFlight"] = b, !["others"] = c] = d
  BY <1>2, <1>3 DEF Req
<1>6. req' = [req EXCEPT ![r] = [x EXCEPT !["at"] = a, !["inFlight"] = b, !["others"] = c]]
  BY <1>1 DEF Shaped, GoInFlight
<1>7. MovesTo(r, d)
  BY <1>5, <1>6 DEF MovesTo
<1>8. /\ d.at = a /\ d.hot = h /\ d.now = n /\ d.inFlight = b
      /\ d.others = c /\ d.pass = p /\ d.rt = t /\ d.start = s /\ IsReq(d)
  BY <1>3, ReqFields
<1> QED BY <1>1, <1>4, <1>7, <1>8

(* with the pass, *)
LEMMA ReqLoadsPass ==
  ASSUME Shaped, NEW r \in Requests, NEW a, NEW b,
         GoPass(r, a, b)
  PROVE  \E d : /\ IsReq(d) /\ MovesTo(r, d)
                /\ d.at = a /\ d.hot = req[r].hot /\ d.now = req[r].now
                /\ d.inFlight = req[r].inFlight /\ d.others = req[r].others
                /\ d.pass = b /\ d.rt = req[r].rt /\ d.start = req[r].start
<1>1. PICK x : x = req[r] OBVIOUS
<1>2. PICK at, h, n, i, o, p, t, s : x = Req(at, h, n, i, o, p, t, s)
  BY <1>1 DEF Shaped, IsReq
<1>3. PICK d : d = Req(a, h, n, i, o, b, t, s) OBVIOUS
<1>4. /\ x.hot = h /\ x.now = n /\ x.inFlight = i /\ x.others = o /\ x.pass = p /\ x.rt = t
      /\ x.start = s
  BY <1>2, ReqFields
<1>5. [x EXCEPT !["at"] = a, !["pass"] = b] = d
  BY <1>2, <1>3 DEF Req
<1>6. req' = [req EXCEPT ![r] = [x EXCEPT !["at"] = a, !["pass"] = b]]
  BY <1>1 DEF Shaped, GoPass
<1>7. MovesTo(r, d)
  BY <1>5, <1>6 DEF MovesTo
<1>8. /\ d.at = a /\ d.hot = h /\ d.now = n /\ d.inFlight = i
      /\ d.others = o /\ d.pass = b /\ d.rt = t /\ d.start = s /\ IsReq(d)
  BY <1>3, ReqFields
<1> QED BY <1>1, <1>4, <1>7, <1>8

(* with the response time. *)
LEMMA ReqLoadsRt ==
  ASSUME Shaped, NEW r \in Requests, NEW a, NEW b,
         GoRt(r, a, b)
  PROVE  \E d : /\ IsReq(d) /\ MovesTo(r, d)
                /\ d.at = a /\ d.hot = req[r].hot /\ d.now = req[r].now
                /\ d.inFlight = req[r].inFlight /\ d.others = req[r].others
                /\ d.pass = req[r].pass /\ d.rt = b /\ d.start = req[r].start
<1>1. PICK x : x = req[r] OBVIOUS
<1>2. PICK at, h, n, i, o, p, t, s : x = Req(at, h, n, i, o, p, t, s)
  BY <1>1 DEF Shaped, IsReq
<1>3. PICK d : d = Req(a, h, n, i, o, p, b, s) OBVIOUS
<1>4. /\ x.hot = h /\ x.now = n /\ x.inFlight = i /\ x.others = o /\ x.pass = p /\ x.rt = t
      /\ x.start = s
  BY <1>2, ReqFields
<1>5. [x EXCEPT !["at"] = a, !["rt"] = b] = d
  BY <1>2, <1>3 DEF Req
<1>6. req' = [req EXCEPT ![r] = [x EXCEPT !["at"] = a, !["rt"] = b]]
  BY <1>1 DEF Shaped, GoRt
<1>7. MovesTo(r, d)
  BY <1>5, <1>6 DEF MovesTo
<1>8. /\ d.at = a /\ d.hot = h /\ d.now = n /\ d.inFlight = i
      /\ d.others = o /\ d.pass = p /\ d.rt = b /\ d.start = s /\ IsReq(d)
  BY <1>3, ReqFields
<1> QED BY <1>1, <1>4, <1>7, <1>8

(* Admit: a fresh request that has started now. *)
LEMMA ReqAdmitted ==
  ASSUME NEW r \in Requests, Admit(r)
  PROVE  \E d : IsReq(d) /\ MovesTo(r, d) /\ d.at = "handling" /\ d.start = now
<1>1. PICK n, h : n = now /\ h = FALSE OBVIOUS
<1>2. PICK d : d = Req("handling", h, 0, 0, 0, 0, 0, n) OBVIOUS
<1>3. [Fresh EXCEPT !["at"] = "handling", !["start"] = n] = d
  <2>1. PICK f : f = Fresh OBVIOUS
  <2>2. f = Req("idle", h, 0, 0, 0, 0, 0, 0)
    BY <1>1, <2>1, FreshFields
  <2>3. [f EXCEPT !["at"] = "handling", !["start"] = n] = d
    BY <1>2, <2>2 DEF Req
  <2> QED BY <2>1, <2>3
<1>4. MovesTo(r, d)
  BY <1>1, <1>3 DEF Admit, MovesTo
<1>5. d.at = "handling" /\ d.start = n /\ IsReq(d)
  BY <1>2, ReqFields
<1> QED BY <1>1, <1>4, <1>5

-----------------------------------------------------------------------------
(* The places of a request that holds a place in inFlight, that has read   *)
(* inFlight and may be dropped, and that is going to be dropped.           *)
HandledAt == {"handling", "doneRt", "doneInFlight"}
LookedAt  == {"maxPASS", "storePASS", "minRT", "storeRT", "judge", "startDrop", "dropped"}
OverAt    == {"startDrop", "dropped"}

(* inFlight as the request has read it is what was being handled or had    *)
(* panicked then, it was more than one, and more than the limit.           *)
Looked(x) == /\ x.at \in LookedAt => x.others = x.inFlight /\ x.inFlight > 1
             /\ x.at \in OverAt => x.inFlight > maxInFlight(x.pass, x.rt)

(* The CPU was hot when the request came, or a drop under load is not over *)
(* a second old; a request that starts the cool-down is such a drop.       *)
Warm(x, drops) ==
  /\ x.at \in LookedAt \cup {"inFlight"} => x.hot \/ \E t \in drops : x.now - t <= Second
  /\ x.at = "startDrop" => x.now \in drops

DropInv ==
  /\ Shaped
  /\ IsFiniteSet(Running) /\ leaked \in Nat /\ inFlight = Cardinality(Running) + leaked
  /\ prevDropTime # 0 => prevDropTime \in hotDrops
  /\ \A r \in Requests : Looked(req[r]) /\ Warm(req[r], hotDrops)

Counts(x) == IF x.at \in HandledAt THEN 1 ELSE 0

LEMMA WarmGrows ==
  ASSUME NEW x, NEW drops, NEW more, Warm(x, drops), drops \subseteq more PROVE Warm(x, more)
  BY DEF Warm

(* A request moves, and inFlight and the panics are kept in step. *)
LEMMA DropMoves ==
  ASSUME DropInv, NEW r \in Requests, NEW d, IsReq(d), MovesTo(r, d),
         hotDrops \subseteq hotDrops', Looked(d), Warm(d, hotDrops'),
         prevDropTime' # 0 => prevDropTime' \in hotDrops',
         leaked' \in Nat,
         inFlight' - leaked' = inFlight - leaked + Counts(d) - Counts(req[r]),
         inFlight' \in Int
  PROVE  DropInv'
<1>1. Shaped' /\ req'[r] = d /\ \A q \in Requests \ {r} : req'[q] = req[q]
  BY ReqMoves DEF DropInv
<1>2. \A q \in Requests : Looked(req'[q]) /\ Warm(req'[q], hotDrops')
  BY <1>1, WarmGrows DEF DropInv
<1>3. IsFiniteSet(Running) /\ Cardinality(Running) \in Nat /\ leaked \in Nat
      /\ inFlight = Cardinality(Running) + leaked
  BY FS_CardinalityType DEF DropInv
<1>4. Running' = IF d.at \in HandledAt THEN Running \cup {r} ELSE Running \ {r}
  BY <1>1 DEF Running, HandledAt
<1>5. r \in Running <=> req[r].at \in HandledAt
  BY DEF Running, HandledAt
<1>6. IsFiniteSet(Running') /\ Cardinality(Running') = Cardinality(Running) + Counts(d) - Counts(req[r])
  <2>1. CASE d.at \in HandledAt
    <3>1. Running' = Running \cup {r} /\ Counts(d) = 1
      BY <1>4, <2>1 DEF Counts
    <3>2. IsFiniteSet(Running \cup {r})
          /\ Cardinality(Running \cup {r}) = IF r \in Running THEN Cardinality(Running) ELSE Cardinality(Running) + 1
      BY <1>3, FS_AddElement
    <3> QED BY <1>3, <1>5, <3>1, <3>2 DEF Counts
  <2>2. CASE d.at \notin HandledAt
    <3>1. Running' = Running \ {r} /\ Counts(d) = 0
      BY <1>4, <2>2 DEF Counts
    <3>2. IsFiniteSet(Running \ {r})
          /\ Cardinality(Running \ {r}) = IF r \in Running THEN Cardinality(Running) - 1 ELSE Cardinality(Running)
      BY <1>3, FS_RemoveElement
    <3> QED BY <1>3, <1>5, <3>1, <3>2 DEF Counts
  <2> QED BY <2>1, <2>2
<1>7. Counts(d) \in Int /\ Counts(req[r]) \in Int /\ Cardinality(Running') \in Int
  BY <1>3, <1>6 DEF Counts
<1>8. inFlight' = Cardinality(Running') + leaked'
  BY <1>3, <1>6, <1>7
<1> QED BY <1>1, <1>2, <1>6, <1>8 DEF DropInv

LEMMA DropInitial == LimiterInit => DropInv
<1> SUFFICES ASSUME LimiterInit PROVE DropInv OBVIOUS
<1>1. req = [r \in Requests |-> Fresh] /\ inFlight = 0 /\ prevDropTime = 0 /\ leaked = 0
  BY DEF LimiterInit
<1>2. Fresh.at = "idle" /\ IsReq(Fresh)
  BY FreshFields
<1>3. Shaped
  BY <1>1, <1>2 DEF Shaped
<1>4. Running = {}
  BY <1>1, <1>2 DEF Running
<1>5. IsFiniteSet(Running) /\ Cardinality(Running) = 0
  BY <1>4, FS_EmptySet
<1>6. \A r \in Requests : Looked(req[r]) /\ Warm(req[r], hotDrops)
  BY <1>1, <1>2 DEF Looked, Warm, LookedAt, OverAt
<1> QED BY <1>1, <1>3, <1>5, <1>6 DEF DropInv

(* A step that changes nothing but where one request is and what it knows. *)
LEMMA DropGoes ==
  ASSUME DropInv, NEW r \in Requests, NEW d, IsReq(d), MovesTo(r, d),
         Looked(d), Warm(d, hotDrops), Counts(d) = Counts(req[r]),
         UNCHANGED <<inFlight, prevDropTime, hotDrops, leaked>>
  PROVE  DropInv'
<1>1. leaked \in Nat /\ inFlight \in Int /\ (prevDropTime # 0 => prevDropTime \in hotDrops)
  BY FS_CardinalityType DEF DropInv
<1>2. Counts(req[r]) \in Int
  BY DEF Counts
<1>3. inFlight' - leaked' = inFlight - leaked + Counts(d) - Counts(req[r])
  BY <1>1, <1>2
<1> QED BY <1>1, <1>3, DropMoves

(* A place that asks nothing of a request. *)
LEMMA DropFree ==
  ASSUME NEW x, x.at \notin LookedAt, x.at # "inFlight", NEW drops
  PROVE  Looked(x) /\ Warm(x, drops)
  BY DEF Looked, Warm, LookedAt, OverAt

(* A request that goes where nothing is asked of it. *)
LEMMA DropRests ==
  ASSUME DropInv, NEW r \in Requests, NEW d, IsReq(d), MovesTo(r, d),
         d.at \notin LookedAt, d.at # "inFlight", Counts(d) = Counts(req[r]),
         UNCHANGED <<inFlight, hotDrops, leaked>>,
         prevDropTime' \in {0, prevDropTime}
  PROVE  DropInv'
<1>1. leaked \in Nat /\ inFlight \in Int /\ (prevDropTime # 0 => prevDropTime \in hotDrops)
  BY FS_CardinalityType DEF DropInv
<1>2. Counts(req[r]) \in Int
  BY DEF Counts
<1>3. inFlight' - leaked' = inFlight - leaked + Counts(d) - Counts(req[r])
  BY <1>1, <1>2
<1>4. Looked(d) /\ Warm(d, hotDrops')
  BY DropFree
<1>5. prevDropTime' # 0 => prevDropTime' \in hotDrops'
  BY <1>1
<1> QED BY <1>1, <1>3, <1>4, <1>5, DropMoves

LEMMA DropStep == DropInv /\ [LimiterNext]_limiterVars => DropInv'
<1> SUFFICES ASSUME DropInv, [LimiterNext]_limiterVars PROVE DropInv' OBVIOUS
<1>0. /\ Shaped
      /\ \A r \in Requests : IsReq(req[r]) /\ Looked(req[r]) /\ Warm(req[r], hotDrops)
      /\ leaked \in Nat /\ inFlight \in Int /\ inFlight = Cardinality(Running) + leaked
      /\ prevDropTime # 0 => prevDropTime \in hotDrops
  BY FS_CardinalityType DEF DropInv, Shaped
<1>1. CASE LimiterTick \/ CpuSample \/ UNCHANGED limiterVars
  <2>1. UNCHANGED <<req, inFlight, prevDropTime, hotDrops, leaked>>
    BY <1>1 DEF LimiterTick, CpuSample, limiterVars, histVars
  <2> QED BY <2>1 DEF DropInv, Shaped, Running
<1>2. ASSUME NEW r \in Requests, Arrive(r) PROVE DropInv'
  <2>1. PICK a \in {"inFlight", "prevDrop"} :
             /\ a = "inFlight" <=> hot
             /\ req' = [req EXCEPT ![r] = [Fresh EXCEPT !.at = a, !.hot = hot, !.now = now + 1]]
    BY <1>2 DEF Arrive
  <2>2. PICK h, n : h = hot /\ n = now + 1 OBVIOUS
  <2>3. PICK d : d = Req(a, h, n, 0, 0, 0, 0, 0) OBVIOUS
  <2>4. [Fresh EXCEPT !["at"] = a, !["hot"] = h, !["now"] = n] = d
    BY <2>3 DEF Fresh, Req
  <2>5. MovesTo(r, d)
    BY <2>1, <2>2, <2>4 DEF MovesTo
  <2>6. d.at = a /\ d.hot = h /\ IsReq(d)
    BY <2>3, ReqFields
  <2>7. UNCHANGED <<inFlight, prevDropTime, hotDrops, leaked>> /\ req[r].at = "idle"
    BY <1>2 DEF Arrive, histVars
  <2>8. Counts(d) = Counts(req[r]) /\ Looked(d)
    BY <2>6, <2>7 DEF Counts, HandledAt, Looked, LookedAt, OverAt
  <2>9. Warm(d, hotDrops)
    <3>1. CASE a = "inFlight"
      <4>1. d.hot
        BY <2>1, <2>2, <2>6, <3>1
      <4> QED BY <2>6, <3>1, <4>1 DEF Warm
    <3>2. CASE a = "prevDrop"
      BY <2>6, <3>2, DropFree DEF LookedAt
    <3> QED BY <3>1, <3>2
  <2> QED BY <2>5, <2>6, <2>7, <2>8, <2>9, DropGoes
<1>3. ASSUME NEW r \in Requests, LoadPrevDrop(r) PROVE DropInv'
  <2>1. PICK a : /\ Go(r, a)
                 /\ \/ a \in {"admit", "forget"}
                    \/ a = "inFlight" /\ prevDropTime # 0 /\ Cooling(r)
    BY <1>3 DEF LoadPrevDrop
  <2>2. PICK d : /\ IsReq(d) /\ MovesTo(r, d) /\ d.at = a /\ d.now = req[r].now
    BY <1>0, <2>1, ReqGoes
  <2>3. UNCHANGED <<inFlight, prevDropTime, hotDrops, leaked>> /\ req[r].at = "prevDrop"
    BY <1>3 DEF LoadPrevDrop, histVars
  <2>4. Counts(d) = Counts(req[r])
    BY <2>1, <2>2, <2>3 DEF Counts, HandledAt
  <2>5. Looked(d)
    BY <2>1, <2>2 DEF Looked, LookedAt, OverAt
  <2>6. Warm(d, hotDrops)
    <3>1. CASE a = "inFlight"
      <4>1. prevDropTime \in hotDrops /\ d.now - prevDropTime <= Second
        BY <1>0, <2>1, <2>2, <3>1 DEF Cooling
      <4> QED BY <2>2, <3>1, <4>1 DEF Warm
    <3>2. CASE a # "inFlight"
      BY <2>1, <2>2, <3>2, DropFree DEF LookedAt
    <3> QED BY <3>1, <3>2
  <2> QED BY <2>2, <2>3, <2>4, <2>5, <2>6, DropGoes
<1>4. ASSUME NEW r \in Requests, ForgetDrop(r) PROVE DropInv'
  <2>1. /\ Go(r, "admit") /\ req[r].at = "forget" /\ prevDropTime' = 0
        /\ UNCHANGED <<inFlight, hotDrops, leaked>>
    BY <1>4 DEF ForgetDrop, histVars
  <2>2. PICK d : IsReq(d) /\ MovesTo(r, d) /\ d.at = "admit"
    BY <1>0, <2>1, ReqGoes
  <2>3. d.at \notin LookedAt /\ d.at # "inFlight" /\ Counts(d) = Counts(req[r])
    BY <2>1, <2>2 DEF LookedAt, Counts, HandledAt
  <2> QED BY <2>1, <2>2, <2>3, DropRests
<1>5. ASSUME NEW r \in Requests, LoadInFlight(r) PROVE DropInv'
  <2>1. PICK a, b, c :
             /\ GoInFlight(r, a, b, c)
             /\ a = IF inFlight > 1 THEN "maxPASS" ELSE "admit"
             /\ b = inFlight /\ c = Cardinality(Running) + leaked
    BY <1>5 DEF LoadInFlight, GoInFlight
  <2>2. PICK d : /\ IsReq(d) /\ MovesTo(r, d) /\ d.at = a
                 /\ d.hot = req[r].hot /\ d.now = req[r].now /\ d.inFlight = b /\ d.others = c
    BY <1>0, <2>1, ReqLoadsInFlight
  <2>3. UNCHANGED <<inFlight, prevDropTime, hotDrops, leaked>> /\ req[r].at = "inFlight"
    BY <1>5 DEF LoadInFlight, histVars
  <2>4. Counts(d) = Counts(req[r])
    BY <2>1, <2>2, <2>3 DEF Counts, HandledAt
  <2>5. Looked(d)
    BY <1>0, <2>1, <2>2 DEF Looked, LookedAt, OverAt
  <2>6. Warm(d, hotDrops)
    BY <1>0, <2>1, <2>2, <2>3 DEF Warm, LookedAt
  <2> QED BY <2>2, <2>3, <2>4, <2>5, <2>6, DropGoes
<1>6. ASSUME NEW r \in Requests, LoadMaxPass(r) \/ LoadMinRT(r) PROVE DropInv'
  <2>1. \E d :
          /\ IsReq(d) /\ MovesTo(r, d) /\ d.at \in {"minRT", "storePASS", "judge", "storeRT"}
          /\ d.hot = req[r].hot /\ d.now = req[r].now
          /\ d.inFlight = req[r].inFlight /\ d.others = req[r].others
    <3>1. CASE LoadMaxPass(r)
      <4>1. PICK a, b : a \in {"minRT", "storePASS"} /\ GoPass(r, a, b)
        <5>1. CASE Valid(maxPASSCache)
          <6>1. GoPass(r, "minRT", maxPASSCache.val) BY <3>1, <5>1 DEF LoadMaxPass, GoPass
          <6> QED BY <6>1
        <5>2. CASE ~Valid(maxPASSCache)
          <6>1. GoPass(r, "storePASS", RawMaxPass) BY <3>1, <5>2 DEF LoadMaxPass, GoPass
          <6> QED BY <6>1
        <5> QED BY <5>1, <5>2
      <4> QED BY <1>0, <4>1, ReqLoadsPass
    <3>2. CASE LoadMinRT(r)
      <4>1. PICK a, b : a \in {"judge", "storeRT"} /\ GoRt(r, a, b)
        BY <3>2 DEF LoadMinRT, GoRt
      <4> QED BY <1>0, <4>1, ReqLoadsRt
    <3> QED BY <1>6, <3>1, <3>2
  <2>2. PICK d :
          /\ IsReq(d) /\ MovesTo(r, d) /\ d.at \in {"minRT", "storePASS", "judge", "storeRT"}
          /\ d.hot = req[r].hot /\ d.now = req[r].now
          /\ d.inFlight = req[r].inFlight /\ d.others = req[r].others
    BY <2>1
  <2>3. /\ UNCHANGED <<inFlight, prevDropTime, hotDrops, leaked>>
        /\ req[r].at \in {"maxPASS", "minRT"}
    BY <1>6 DEF LoadMaxPass, LoadMinRT, histVars
  <2>4. Counts(d) = Counts(req[r])
    BY <2>2, <2>3 DEF Counts, HandledAt
  <2>5. Looked(d) /\ Warm(d, hotDrops)
    BY <1>0, <2>2, <2>3 DEF Looked, Warm, LookedAt, OverAt
  <2> QED BY <2>2, <2>3, <2>4, <2>5, DropGoes
<1>7. ASSUME NEW r \in Requests, StoreMaxPass(r) \/ StoreMinRT(r) PROVE DropInv'
  <2>1. PICK a \in {"minRT", "judge"} : Go(r, a)
    BY <1>7 DEF StoreMaxPass, StoreMinRT
  <2>2. PICK d : /\ IsReq(d) /\ MovesTo(r, d) /\ d.at = a
                 /\ d.hot = req[r].hot /\ d.now = req[r].now
                 /\ d.inFlight = req[r].inFlight /\ d.others = req[r].others
    BY <1>0, <2>1, ReqGoes
  <2>3. /\ UNCHANGED <<inFlight, prevDropTime, hotDrops, leaked>>
        /\ req[r].at \in {"storePASS", "storeRT"}
    BY <1>7 DEF StoreMaxPass, StoreMinRT, histVars
  <2>4. Counts(d) = Counts(req[r])
    BY <2>2, <2>3 DEF Counts, HandledAt
  <2>5. Looked(d) /\ Warm(d, hotDrops)
    BY <1>0, <2>2, <2>3 DEF Looked, Warm, LookedAt, OverAt
  <2> QED BY <2>2, <2>3, <2>4, <2>5, DropGoes
<1>8. ASSUME NEW r \in Requests, Judge(r) PROVE DropInv'
  <2> DEFINE drop == req[r].inFlight > maxInFlight(req[r].pass, req[r].rt)
  <2>1. PICK a \in {"admit", "startDrop", "dropped"} :
             /\ Go(r, a)
             /\ a # "admit" => drop
             /\ a = "startDrop" => drop /\ req[r].hot
    BY <1>8 DEF Judge
  <2>2. PICK d : /\ IsReq(d) /\ MovesTo(r, d) /\ d.at = a
                 /\ d.hot = req[r].hot /\ d.now = req[r].now
                 /\ d.inFlight = req[r].inFlight /\ d.others = req[r].others
                 /\ d.pass = req[r].pass /\ d.rt = req[r].rt
    BY <1>0, <2>1, ReqGoes
  <2>3. /\ UNCHANGED <<inFlight, prevDropTime, leaked>> /\ req[r].at = "judge"
        /\ hotDrops \subseteq hotDrops'
    BY <1>8 DEF Judge
  <2>4. drop /\ req[r].hot => req[r].now \in hotDrops'
    BY <1>8 DEF Judge
  <2>5. Counts(d) = 0 /\ Counts(req[r]) = 0
    BY <2>2, <2>3 DEF Counts, HandledAt
  <2>6. Looked(d)
    BY <1>0, <2>1, <2>2, <2>3 DEF Looked, LookedAt, OverAt
  <2>7. Warm(d, hotDrops')
    <3>1. Warm(req[r], hotDrops')
      BY <1>0, <2>3, WarmGrows
    <3>2. a = "startDrop" => d.now \in hotDrops'
      BY <2>1, <2>2, <2>4
    <3>3. req[r].hot \/ \E t \in hotDrops' : req[r].now - t <= Second
      BY <2>3, <3>1 DEF Warm, LookedAt
    <3>4. d.hot \/ \E t \in hotDrops' : d.now - t <= Second
      BY <2>2, <3>3
    <3> QED BY <2>2, <3>2, <3>4 DEF Warm
  <2>8. prevDropTime' # 0 => prevDropTime' \in hotDrops'
    BY <1>0, <2>3
  <2>9. inFlight' - leaked' = inFlight - leaked + Counts(d) - Counts(req[r])
    BY <1>0, <2>3, <2>5
  <2>10. leaked' \in Nat /\ inFlight' \in Int
    BY <1>0, <2>3
  <2> QED BY <2>2, <2>3, <2>6, <2>7, <2>8, <2>9, <2>10, DropMoves
<1>9. ASSUME NEW r \in Requests, StartDrop(r) PROVE DropInv'
  <2>1. /\ Go(r, "dropped") /\ req[r].at = "startDrop" /\ prevDropTime' = req[r].now
        /\ UNCHANGED <<inFlight, hotDrops, leaked>>
    BY <1>9 DEF StartDrop, histVars
  <2>2. PICK d : /\ IsReq(d) /\ MovesTo(r, d) /\ d.at = "dropped"
                 /\ d.hot = req[r].hot /\ d.now = req[r].now
                 /\ d.inFlight = req[r].inFlight /\ d.others = req[r].others
                 /\ d.pass = req[r].pass /\ d.rt = req[r].rt
    BY <1>0, <2>1, ReqGoes
  <2>3. Counts(d) = 0 /\ Counts(req[r]) = 0
    BY <2>1, <2>2 DEF Counts, HandledAt
  <2>4. Looked(d)
    BY <1>0, <2>1, <2>2 DEF Looked, LookedAt, OverAt
  <2>5. Warm(d, hotDrops')
    BY <1>0, <2>1, <2>2 DEF Warm, LookedAt
  <2>6. prevDropTime' \in hotDrops'
    BY <1>0, <2>1 DEF Warm
  <2>7. inFlight' - leaked' = inFlight - leaked + Counts(d) - Counts(req[r])
    BY <1>0, <2>1, <2>3
  <2>8. leaked' \in Nat /\ inFlight' \in Int /\ hotDrops \subseteq hotDrops'
    BY <1>0, <2>1
  <2> QED BY <2>2, <2>4, <2>5, <2>6, <2>7, <2>8, DropMoves
<1>10. ASSUME NEW r \in Requests, Refuse(r) \/ DonePass(r) PROVE DropInv'
  <2>1. /\ MovesTo(r, Fresh) /\ req[r].at \in {"dropped", "donePass"}
        /\ UNCHANGED <<inFlight, prevDropTime, hotDrops, leaked>>
    BY <1>10 DEF Refuse, DonePass, histVars, MovesTo
  <2>2. Fresh.at \notin LookedAt /\ Fresh.at # "inFlight" /\ Counts(Fresh) = Counts(req[r])
    BY <2>1, FreshFields DEF LookedAt, Counts, HandledAt
  <2> QED BY <2>1, <2>2, FreshFields, DropRests
<1>11. ASSUME NEW r \in Requests, Admit(r) PROVE DropInv'
  <2>4. PICK d : IsReq(d) /\ MovesTo(r, d) /\ d.at = "handling"
    BY <1>11, ReqAdmitted
  <2>6. /\ req[r].at = "admit" /\ inFlight' = inFlight + 1
        /\ UNCHANGED <<prevDropTime, hotDrops, leaked>>
    BY <1>11 DEF Admit, histVars
  <2>7. Counts(d) = 1 /\ Counts(req[r]) = 0
    BY <2>4, <2>6 DEF Counts, HandledAt
  <2>8. Looked(d) /\ Warm(d, hotDrops')
    BY <2>4, DropFree DEF LookedAt
  <2>9. inFlight' - leaked' = inFlight - leaked + Counts(d) - Counts(req[r])
    BY <1>0, <2>6, <2>7
  <2>10. /\ leaked' \in Nat /\ inFlight' \in Int /\ hotDrops \subseteq hotDrops'
         /\ prevDropTime' # 0 => prevDropTime' \in hotDrops'
    BY <1>0, <2>6
  <2> QED BY <2>4, <2>8, <2>9, <2>10, DropMoves
<1>12. ASSUME NEW r \in Requests, Return(r) \/ DoneRt(r) PROVE DropInv'
  <2>1. PICK a \in {"doneRt", "doneInFlight"} : Go(r, a)
    BY <1>12 DEF Return, DoneRt
  <2>2. PICK d : IsReq(d) /\ MovesTo(r, d) /\ d.at = a
    BY <1>0, <2>1, ReqGoes
  <2>3. /\ UNCHANGED <<inFlight, prevDropTime, hotDrops, leaked>>
        /\ req[r].at \in {"handling", "doneRt"}
    BY <1>12 DEF Return, DoneRt, histVars
  <2>4. d.at \notin LookedAt /\ d.at # "inFlight" /\ Counts(d) = Counts(req[r])
    BY <2>2, <2>3 DEF LookedAt, Counts, HandledAt
  <2> QED BY <2>2, <2>3, <2>4, DropRests
<1>13. ASSUME NEW r \in Requests, Panic(r) PROVE DropInv'
  <2>1. /\ MovesTo(r, Fresh) /\ req[r].at = "handling" /\ leaked' = leaked + 1
        /\ UNCHANGED <<inFlight, prevDropTime, hotDrops>>
    BY <1>13 DEF Panic, MovesTo
  <2>2. Counts(Fresh) = 0 /\ Counts(req[r]) = 1
    BY <2>1, FreshFields DEF Counts, HandledAt
  <2>3. Looked(Fresh) /\ Warm(Fresh, hotDrops')
    BY FreshFields, DropFree DEF LookedAt
  <2>4. inFlight' - leaked' = inFlight - leaked + Counts(Fresh) - Counts(req[r])
    BY <1>0, <2>1, <2>2
  <2>5. /\ leaked' \in Nat /\ inFlight' \in Int /\ hotDrops \subseteq hotDrops'
        /\ prevDropTime' # 0 => prevDropTime' \in hotDrops'
    BY <1>0, <2>1
  <2> QED BY <2>1, <2>3, <2>4, <2>5, FreshFields, DropMoves
<1>14. ASSUME NEW r \in Requests, DoneInFlight(r) PROVE DropInv'
  <2>1. /\ Go(r, "donePass") /\ req[r].at = "doneInFlight" /\ inFlight' = inFlight - 1
        /\ UNCHANGED <<prevDropTime, hotDrops, leaked>>
    BY <1>14 DEF DoneInFlight, histVars
  <2>2. PICK d : IsReq(d) /\ MovesTo(r, d) /\ d.at = "donePass"
    BY <1>0, <2>1, ReqGoes
  <2>3. Counts(d) = 0 /\ Counts(req[r]) = 1
    BY <2>1, <2>2 DEF Counts, HandledAt
  <2>4. Looked(d) /\ Warm(d, hotDrops')
    BY <2>2, DropFree DEF LookedAt
  <2>5. inFlight' - leaked' = inFlight - leaked + Counts(d) - Counts(req[r])
    BY <1>0, <2>1, <2>3
  <2>6. /\ leaked' \in Nat /\ inFlight' \in Int /\ hotDrops \subseteq hotDrops'
        /\ prevDropTime' # 0 => prevDropTime' \in hotDrops'
    BY <1>0, <2>1
  <2> QED BY <2>2, <2>4, <2>5, <2>6, DropMoves
<1> QED BY <1>1, <1>2, <1>3, <1>4, <1>5, <1>6, <1>7, <1>8, <1>9, <1>10, <1>11, <1>12, <1>13, <1>14
        DEF LimiterNext

LEMMA DropKept == LimiterSpec => []DropInv
  BY DropInitial, DropStep, PTL DEF LimiterSpec

(* A request is dropped only if it found more requests being handled, or    *)
(* lost to a panic, than one and than the limit it computed: inFlight keeps *)
(* count of them through every interleaving of Allow and done, and a drop   *)
(* is judged by the values the request itself has read (shouldDrop).        *)
THEOREM DropsConcurrent == LimiterSpec => []DropNeedsConcurrency
<1>1. DropInv => DropNeedsConcurrency
  <2> SUFFICES ASSUME DropInv, NEW r \in Dropped
               PROVE  req[r].others > 1 /\ req[r].others > maxInFlight(req[r].pass, req[r].rt)
    BY DEF DropNeedsConcurrency
  <2>1. r \in Requests /\ req[r].at = "dropped"
    BY DEF Dropped
  <2> QED BY <2>1 DEF DropInv, Looked, LookedAt, OverAt
<1> QED BY <1>1, DropKept, PTL

(* Below the CPU threshold a request is dropped only within a second of a   *)
(* drop under load: prevDropTime is always such a drop's time, however the  *)
(* loads and stores of several requests cross (shouldDrop).                 *)
THEOREM CoolDownBounded == LimiterSpec => []CoolDownEnds
<1>1. DropInv => CoolDownEnds
  <2> SUFFICES ASSUME DropInv, NEW r \in Dropped, ~req[r].hot
               PROVE  \E t \in hotDrops : req[r].now - t <= Second
    BY DEF CoolDownEnds
  <2>1. r \in Requests /\ req[r].at = "dropped"
    BY DEF Dropped
  <2> QED BY <2>1 DEF DropInv, Warm, LookedAt
<1> QED BY <1>1, DropKept, PTL

-----------------------------------------------------------------------------
(* The two counters are rolling counters: what RollingWindowProofs shows of *)
(* one holds of each.                                                       *)
PassRing == INSTANCE RollingWindowProofs WITH buckets <- passBuckets, offset <- passOffset,
                                              lastAppendTime <- passTime, added <- passAdded
RtRing   == INSTANCE RollingWindowProofs WITH buckets <- rtBuckets, offset <- rtOffset,
                                              lastAppendTime <- rtTime, added <- rtAdded

(* The response times added are measured from the time of the admission.    *)
LimitInv ==
  /\ PassRing!WindowTypeOK /\ PassRing!RingInv /\ PassRing!LastUsed
  /\ RtRing!WindowTypeOK /\ RtRing!RingInv
  /\ \A r \in Requests : req[r].start \in Int

LEMMA PassAdds ==
  ASSUME PassRing!WindowTypeOK, PassRing!RingInv, NEW val \in Nat, Pass!Add(val)
  PROVE  PassRing!WindowTypeOK' /\ PassRing!RingInv' /\ PassRing!LastUsed'
<1>1. PassRing!Add(val)
  BY DEF Pass!Add, Pass!timespan, Pass!ResetBuckets, Pass!AddTo, Pass!NextOffset,
         Pass!NextAppendTime, Pass!ResetStart, Pass!Index, Pass!Empty, Pass!Slot,
         PassRing!Add, PassRing!timespan, PassRing!ResetBuckets, PassRing!AddTo,
         PassRing!NextOffset, PassRing!NextAppendTime, PassRing!ResetStart,
         PassRing!Index, PassRing!Empty, PassRing!Slot
<1>2. PassRing!WindowTypeOK' /\ PassRing!RingInv'
  BY <1>1, PassRing!AddPreserves, LimiterAssumption
<1>3. PassRing!LastUsed'
  BY <1>1, PassRing!AddUses, LimiterAssumption
<1> QED BY <1>2, <1>3

LEMMA RtAdds ==
  ASSUME RtRing!WindowTypeOK, RtRing!RingInv, NEW val \in Nat, Rt!Add(val)
  PROVE  RtRing!WindowTypeOK' /\ RtRing!RingInv'
<1>1. RtRing!Add(val)
  BY DEF Rt!Add, Rt!timespan, Rt!ResetBuckets, Rt!AddTo, Rt!NextOffset,
         Rt!NextAppendTime, Rt!ResetStart, Rt!Index, Rt!Empty, Rt!Slot,
         RtRing!Add, RtRing!timespan, RtRing!ResetBuckets, RtRing!AddTo,
         RtRing!NextOffset, RtRing!NextAppendTime, RtRing!ResetStart,
         RtRing!Index, RtRing!Empty, RtRing!Slot
<1> QED BY <1>1, RtRing!AddPreserves, LimiterAssumption

LEMMA RingsRest ==
  ASSUME LimitInv, UNCHANGED statVars, now' \in now .. MaxTime
  PROVE  /\ PassRing!WindowTypeOK' /\ PassRing!RingInv' /\ PassRing!LastUsed'
         /\ RtRing!WindowTypeOK' /\ RtRing!RingInv'
<1>1. PassRing!WindowTypeOK' /\ PassRing!RingInv'
  BY PassRing!RingRests, LimiterAssumption DEF LimitInv, statVars
<1>2. RtRing!WindowTypeOK' /\ RtRing!RingInv'
  BY RtRing!RingRests, LimiterAssumption DEF LimitInv, statVars
<1>3. PassRing!LastUsed'
  BY DEF LimitInv, statVars, PassRing!LastUsed, PassRing!Slot
<1> QED BY <1>1, <1>2, <1>3

(* A request whose start is a time moves, and the counters rest. *)
LEMMA LimitMoves ==
  ASSUME Shaped, LimitInv, NEW r \in Requests, NEW d, IsReq(d), MovesTo(r, d), d.start \in Int,
         UNCHANGED <<statVars, now>>
  PROVE  LimitInv'
<1>1. now \in 0 .. MaxTime
  BY DEF LimitInv, PassRing!WindowTypeOK
<1>2. now' \in now .. MaxTime
  BY <1>1, LimiterAssumption
<1>3. req'[r] = d /\ \A q \in Requests \ {r} : req'[q] = req[q]
  BY ReqMoves
<1>4. \A q \in Requests : req'[q].start \in Int
  BY <1>3 DEF LimitInv
<1> QED BY <1>2, <1>4, RingsRest DEF LimitInv

LEMMA LimitGoes ==
  ASSUME Shaped, LimitInv, NEW r \in Requests, UNCHANGED <<statVars, now>>,
         \/ \E a : Go(r, a)
         \/ \E a, b, c : GoInFlight(r, a, b, c)
         \/ \E a, b : GoPass(r, a, b) \/ GoRt(r, a, b)
  PROVE  LimitInv'
<1>1. PICK d : IsReq(d) /\ MovesTo(r, d) /\ d.start = req[r].start
  BY ReqGoes, ReqLoadsInFlight, ReqLoadsPass, ReqLoadsRt
<1>2. d.start \in Int
  BY <1>1 DEF LimitInv
<1> QED BY <1>1, <1>2, LimitMoves

LEMMA LimitInitial == LimiterInit => LimitInv
<1> SUFFICES ASSUME LimiterInit PROVE LimitInv OBVIOUS
<1>1. PassRing!WindowInit /\ RtRing!WindowInit
  BY DEF LimiterInit, Pass!WindowInit, Pass!Index, Pass!Slots, Pass!Empty,
         PassRing!WindowInit, PassRing!Index, PassRing!Slots, PassRing!Empty,
         Rt!WindowInit, Rt!Index, Rt!Slots, Rt!Empty,
         RtRing!WindowInit, RtRing!Index, RtRing!Slots, RtRing!Empty
<1>2. PassRing!WindowTypeOK /\ PassRing!RingInv
  BY <1>1, PassRing!RingInitial, LimiterAssumption
<1>3. RtRing!WindowTypeOK /\ RtRing!RingInv
  BY <1>1, RtRing!RingInitial, LimiterAssumption
<1>4. PassRing!LastUsed
  BY <1>1, LimiterAssumption DEF PassRing!LastUsed, PassRing!WindowInit, PassRing!Slot
<1>5. \A r \in Requests : req[r].start \in Int
  BY FreshStarts DEF LimiterInit
<1> QED BY <1>2, <1>3, <1>4, <1>5 DEF LimitInv

LEMMA LimitStep ==
  ASSUME Shaped, LimitInv, [LimiterNext]_limiterVars
  PROVE  LimitInv'
<1>0. now \in 0 .. MaxTime /\ \A r \in Requests : req[r].start \in Int
  BY DEF LimitInv, PassRing!WindowTypeOK
<1>1. CASE LimiterTick \/ CpuSample \/ UNCHANGED limiterVars
  <2>1. UNCHANGED <<statVars, req>> /\ now' \in now .. MaxTime
    BY <1>0, <1>1, LimiterAssumption DEF LimiterTick, CpuSample, limiterVars
  <2> QED BY <1>0, <2>1, RingsRest DEF LimitInv
<1>2. ASSUME NEW r \in Requests, Arrive(r) PROVE LimitInv'
  <2>1. PICK a, h, n : req' = [req EXCEPT ![r] = [Fresh EXCEPT !.at = a, !.hot = h, !.now = n]]
    BY <1>2 DEF Arrive
  <2>2. PICK d : d = Req(a, h, n, 0, 0, 0, 0, 0) OBVIOUS
  <2>3. [Fresh EXCEPT !["at"] = a, !["hot"] = h, !["now"] = n] = d
    BY <2>2 DEF Fresh, Req
  <2>4. MovesTo(r, d)
    BY <2>1, <2>3 DEF MovesTo
  <2>5. d.start = 0 /\ IsReq(d)
    BY <2>2, ReqFields
  <2> QED BY <1>2, <2>4, <2>5, LimitMoves DEF Arrive
<1>3. ASSUME NEW r \in Requests,
             LoadPrevDrop(r) \/ ForgetDrop(r) \/ StoreMaxPass(r) \/ StoreMinRT(r) \/ Judge(r)
               \/ StartDrop(r) \/ Return(r) \/ DoneInFlight(r)
      PROVE  LimitInv'
  <2>1. UNCHANGED <<statVars, now>> /\ \E a : Go(r, a)
    BY <1>3 DEF LoadPrevDrop, ForgetDrop, StoreMaxPass, StoreMinRT, Judge, StartDrop, Return,
                DoneInFlight
  <2> QED BY <2>1, LimitGoes
<1>4. ASSUME NEW r \in Requests, LoadInFlight(r) PROVE LimitInv'
  <2>1. UNCHANGED <<statVars, now>> /\ \E a, b, c : GoInFlight(r, a, b, c)
    BY <1>4 DEF LoadInFlight, GoInFlight
  <2> QED BY <2>1, LimitGoes
<1>5. ASSUME NEW r \in Requests, LoadMaxPass(r) PROVE LimitInv'
  <2>1. UNCHANGED <<statVars, now>> /\ \E a, b : GoPass(r, a, b)
    BY <1>5 DEF LoadMaxPass, GoPass
  <2> QED BY <2>1, LimitGoes
<1>6. ASSUME NEW r \in Requests, LoadMinRT(r) PROVE LimitInv'
  <2>1. UNCHANGED <<statVars, now>> /\ \E a, b : GoRt(r, a, b)
    BY <1>6 DEF LoadMinRT, GoRt
  <2> QED BY <2>1, LimitGoes
<1>7. ASSUME NEW r \in Requests, Refuse(r) \/ Panic(r) PROVE LimitInv'
  <2>1. UNCHANGED <<statVars, now>> /\ MovesTo(r, Fresh)
    BY <1>7 DEF Refuse, Panic, MovesTo
  <2>2. IsReq(Fresh) /\ Fresh.start \in Int
    BY FreshStarts
  <2> QED BY <2>1, <2>2, LimitMoves
<1>8. ASSUME NEW r \in Requests, Admit(r) PROVE LimitInv'
  <2>1. PICK d : IsReq(d) /\ MovesTo(r, d) /\ d.start = now
    BY <1>8, ReqAdmitted
  <2>2. d.start \in Int
    BY <1>0, <2>1
  <2> QED BY <1>8, <2>1, <2>2, LimitMoves DEF Admit
<1>9. ASSUME NEW r \in Requests, DoneRt(r) PROVE LimitInv'
  <2>1. PICK val \in Nat : Rt!Add(val)
    <3>1. PICK rt : rt = Milliseconds(now - req[r].start) OBVIOUS
    <3>2. rt \in Int
      BY <1>0, <3>1, LimiterAssumption DEF Milliseconds
    <3>3. Rt!Add(IF rt <= 0 THEN 1 ELSE rt)
      BY <1>9, <3>1 DEF DoneRt
    <3>4. (IF rt <= 0 THEN 1 ELSE rt) \in Nat
      BY <3>2
    <3> QED BY <3>3, <3>4
  <2>2. RtRing!WindowTypeOK' /\ RtRing!RingInv'
    BY <2>1, RtAdds DEF LimitInv
  <2>3. now' = now /\ UNCHANGED <<passBuckets, passOffset, passTime, passAdded>> /\ Go(r, "doneInFlight")
    BY <1>9, <2>1 DEF DoneRt, Rt!Add
  <2>4. now' \in now .. MaxTime
    BY <1>0, <2>3, LimiterAssumption
  <2>5. PassRing!WindowTypeOK' /\ PassRing!RingInv'
    BY <2>3, <2>4, PassRing!RingRests, LimiterAssumption DEF LimitInv
  <2>6. PassRing!LastUsed'
    BY <2>3 DEF LimitInv, PassRing!LastUsed, PassRing!Slot
  <2>7. PICK d : IsReq(d) /\ MovesTo(r, d) /\ d.start = req[r].start
    BY <2>3, ReqGoes
  <2>8. \A q \in Requests : req'[q].start \in Int
    BY <1>0, <2>7, ReqMoves
  <2> QED BY <2>2, <2>5, <2>6, <2>8 DEF LimitInv
<1>10. ASSUME NEW r \in Requests, DonePass(r) PROVE LimitInv'
  <2>1. PassRing!WindowTypeOK' /\ PassRing!RingInv' /\ PassRing!LastUsed'
    BY <1>10, PassAdds DEF DonePass, LimitInv
  <2>2. now' = now /\ UNCHANGED <<rtBuckets, rtOffset, rtTime, rtAdded>> /\ MovesTo(r, Fresh)
    BY <1>10 DEF DonePass, Pass!Add, MovesTo
  <2>3. now' \in now .. MaxTime
    BY <1>0, <2>2, LimiterAssumption
  <2>4. RtRing!WindowTypeOK' /\ RtRing!RingInv'
    BY <2>2, <2>3, RtRing!RingRests, LimiterAssumption DEF LimitInv
  <2>5. \A q \in Requests : req'[q].start \in Int
    BY <1>0, <2>2, FreshStarts, ReqMoves
  <2> QED BY <2>1, <2>4, <2>5 DEF LimitInv
<1> QED BY <1>1, <1>2, <1>3, <1>4, <1>5, <1>6, <1>7, <1>8, <1>9, <1>10 DEF LimiterNext

(* Sets with the same greatest elements have the same maximum. *)
LEMMA SameMax ==
  ASSUME NEW S, NEW T,
         \A x : (x \in S /\ \A y \in S : x >= y) <=> (x \in T /\ \A y \in T : x >= y)
  PROVE  Max(S) = Max(T)
<1>1. (CHOOSE x : x \in S /\ \A y \in S : x >= y) = (CHOOSE x : x \in T /\ \A y \in T : x >= y)
  BY Zenon
<1> QED BY <1>1 DEF Max

(* Beside 1, a natural number that is 0 makes no difference to a maximum. *)
LEMMA MaxBesideOne ==
  ASSUME NEW S \in SUBSET Nat, NEW T \in SUBSET Nat, S \cup {0} = T \cup {0}
  PROVE  Max({1} \cup S) = Max({1} \cup T)
<1>1. ASSUME NEW A \in SUBSET Nat, NEW B \in SUBSET Nat, A \cup {0} = B \cup {0},
             NEW x \in {1} \cup A, \A y \in {1} \cup A : x >= y
      PROVE  x \in {1} \cup B /\ \A y \in {1} \cup B : x >= y
  <2>1. x \in Nat /\ x >= 1
    BY <1>1
  <2>2. x \in {1} \cup B
    BY <1>1, <2>1
  <2>3. ASSUME NEW y \in {1} \cup B PROVE x >= y
    <3>1. CASE y = 0
      BY <2>1, <3>1
    <3>2. CASE y # 0
      <4>1. y \in {1} \cup A
        BY <1>1, <3>2
      <4> QED BY <1>1, <4>1
    <3> QED BY <3>1, <3>2
  <2> QED BY <2>2, <2>3
<1>2. \A x : (x \in {1} \cup S /\ \A y \in {1} \cup S : x >= y)
             <=> (x \in {1} \cup T /\ \A y \in {1} \cup T : x >= y)
  BY <1>1
<1> QED BY <1>2, SameMax

LEMMA SameRings ==
  /\ Pass!Slots = PassRing!Slots /\ Pass!Slot(now) = PassRing!Slot(now)
  /\ Closed = PassRing!ClosedSlots /\ Closed = RtRing!ClosedSlots
  /\ \A n : Completed(n) = PassRing!Before(n) /\ Completed(n) = RtRing!Before(n)
<1> USE DEF Pass!Slots, Pass!Slot, PassRing!Slots, PassRing!Slot, RtRing!Slots, RtRing!Slot
<1>1. Pass!Slots = PassRing!Slots /\ Pass!Slot(now) = PassRing!Slot(now)
  OBVIOUS
<1>2. Closed = PassRing!ClosedSlots /\ Closed = RtRing!ClosedSlots
  BY DEF Closed, PassRing!ClosedSlots, RtRing!ClosedSlots
<1>3. \A n : Completed(n) = PassRing!Before(n) /\ Completed(n) = RtRing!Before(n)
  BY DEF Completed, PassRing!Before, RtRing!Before
<1> QED BY <1>1, <1>2, <1>3

LEMMA SameReduce ==
  /\ Pass!ReduceCount = PassRing!ReduceCount /\ Pass!Visited = PassRing!Visited
  /\ Rt!ReduceCount = RtRing!ReduceCount /\ Rt!Visited = RtRing!Visited
<1>1. Pass!ReduceCount = PassRing!ReduceCount
  BY DEF Pass!ReduceCount, Pass!timespan, PassRing!ReduceCount, PassRing!timespan
<1>2. Pass!Visited = PassRing!Visited
  BY DEF Pass!Visited, Pass!ReduceCount, Pass!ReduceStart, Pass!timespan,
         PassRing!Visited, PassRing!ReduceCount, PassRing!ReduceStart, PassRing!timespan
<1>3. Rt!ReduceCount = RtRing!ReduceCount
  BY DEF Rt!ReduceCount, Rt!timespan, RtRing!ReduceCount, RtRing!timespan
<1>4. Rt!Visited = RtRing!Visited
  BY DEF Rt!Visited, Rt!ReduceCount, Rt!ReduceStart, Rt!timespan,
         RtRing!Visited, RtRing!ReduceCount, RtRing!ReduceStart, RtRing!timespan
<1> QED BY <1>1, <1>2, <1>3, <1>4

(* maxPASS: the most that passed in one completed period. *)
LEMMA PassExact ==
  ASSUME LimitInv
  PROVE  RawMaxPass = IF Quiet(passAdded) THEN 0
                      ELSE Max({1} \cup {passAdded[s].sum : s \in Closed})
<1>0. PassRing!WindowTypeOK /\ PassRing!RingInv /\ PassRing!LastUsed
  BY DEF LimitInv
<1>1. Quiet(passAdded) <=> Pass!ReduceCount = 0
  <2>1. PassRing!ReduceCount = 0 <=>
          /\ PassRing!Slot(now) >= Size
          /\ \A s \in PassRing!Slots : PassRing!Slot(now) - Size < s /\ s <= PassRing!Slot(now)
                                       => passAdded[s].count = 0
    BY <1>0, PassRing!ReduceNothing, LimiterAssumption
  <2>2. PassRing!Slot(now) \in PassRing!Slots /\ PassRing!Slots \subseteq Nat
    BY <1>0, PassRing!SlotSpan, LimiterAssumption DEF PassRing!Slots
  <2>3. \A s : s \in Closed \cup {PassRing!Slot(now)} <=>
           s \in PassRing!Slots /\ PassRing!Slot(now) - Size < s /\ s <= PassRing!Slot(now)
    <3>1. PICK cur, slots : cur = PassRing!Slot(now) /\ slots = PassRing!Slots OBVIOUS
    <3>2. Closed = {s \in slots : cur - Size < s /\ s < cur}
      BY <3>1, SameRings DEF PassRing!ClosedSlots
    <3>3. cur \in slots /\ slots \subseteq Nat /\ Size \in Nat \ {0}
      BY <2>2, <3>1, LimiterAssumption
    <3>4. \A s : s \in Closed \cup {cur} <=> s \in slots /\ cur - Size < s /\ s <= cur
      <4>1. ASSUME NEW s \in slots
            PROVE  s \in Closed \cup {cur} <=> cur - Size < s /\ s <= cur
        <5>1. s \in Nat /\ cur \in Nat /\ Size \in Nat \ {0}
          BY <3>3
        <5>2. cur - Size < s /\ s <= cur <=> (cur - Size < s /\ s < cur) \/ s = cur
          BY <5>1
        <5> QED BY <3>2, <5>2
      <4>2. Closed \cup {cur} \subseteq slots
        BY <3>2, <3>3
      <4> QED BY <4>1, <4>2
    <3> QED BY <3>1, <3>4
  <2> QED BY <2>1, <2>3, SameRings, SameReduce DEF Quiet
<1> DEFINE Read == {Pass!Visited[k].sum : k \in Completed(Pass!ReduceCount)}
           Were == {passAdded[s].sum : s \in Closed}
<1>2. /\ \A k \in Completed(Pass!ReduceCount) :
            \/ Pass!Visited[k] = PassRing!Empty
            \/ \E s \in Closed : Pass!Visited[k] = passAdded[s]
      /\ \A s \in Closed :
            \/ passAdded[s] = PassRing!Empty
            \/ \E k \in Completed(Pass!ReduceCount) : passAdded[s] = Pass!Visited[k]
  BY <1>0, PassRing!ReadsClosed, LimiterAssumption, SameRings, SameReduce
<1>3. PassRing!Empty.sum = 0
  BY DEF PassRing!Empty
<1>4. Were \subseteq Nat
  <2>1. \A s \in Closed : passAdded[s] \in PassRing!Bucket
    BY <1>0, SameRings DEF PassRing!WindowTypeOK, PassRing!ClosedSlots
  <2> QED BY <2>1 DEF PassRing!Bucket
<1>5. Read \cup {0} = Were \cup {0}
  BY <1>2, <1>3
<1>6. Read \subseteq Nat
  BY <1>4, <1>5
<1>7. Max({1} \cup Read) = Max({1} \cup Were)
  BY <1>4, <1>5, <1>6, MaxBesideOne
<1> QED BY <1>1, <1>7 DEF RawMaxPass

(* minRT: the best average of a completed period that has response times. *)
LEMMA RtExact ==
  ASSUME LimitInv
  PROVE  LET timed == {s \in Closed : rtAdded[s].count > 0}
         IN  timed # {} => RawMinRT = {Min({CeilAvg(rtAdded[s]) : s \in timed})}
<1> DEFINE timed == {s \in Closed : rtAdded[s].count > 0}
           read  == {j \in Completed(Rt!ReduceCount) : Rt!Visited[j].count > 0}
           times == {CeilAvg(Rt!Visited[k]) : k \in read}
           were  == {CeilAvg(rtAdded[s]) : s \in timed}
<1> SUFFICES ASSUME timed # {} PROVE RawMinRT = {Min(were)}
  OBVIOUS
<1>0. RtRing!WindowTypeOK /\ RtRing!RingInv
  BY DEF LimitInv
<1>1. /\ \A k \in Completed(Rt!ReduceCount) :
            \/ Rt!Visited[k] = RtRing!Empty
            \/ \E s \in Closed : Rt!Visited[k] = rtAdded[s]
      /\ \A s \in Closed :
            \/ rtAdded[s] = RtRing!Empty
            \/ \E k \in Completed(Rt!ReduceCount) : rtAdded[s] = Rt!Visited[k]
  BY <1>0, RtRing!ReadsClosed, LimiterAssumption, SameRings, SameReduce
<1>2. ~(RtRing!Empty.count > 0)
  BY DEF RtRing!Empty
<1>3. /\ \A k \in read : \E s \in timed : Rt!Visited[k] = rtAdded[s]
      /\ \A s \in timed : \E k \in read : rtAdded[s] = Rt!Visited[k]
  BY <1>1, <1>2
<1>4. times = were
  BY <1>3
<1>5. times # {} /\ read # {}
  BY <1>3, <1>4
<1>6. Rt!ReduceCount # 0
  BY <1>5, LimiterAssumption DEF Completed
<1> QED BY <1>4, <1>5, <1>6 DEF RawMinRT

(* However lazily the two rings are advanced, whatever the pauses and the   *)
(* order in which requests end: maxPASS is the most requests that passed in *)
(* one completed bucket period of the window, minRT the best average        *)
(* response time of one (the reducers of maxPASS and minRT).                *)
THEOREM LimitsExact == LimiterSpec => []LimitExact
<1>1. LimitInv => LimitExact
  BY PassExact, RtExact DEF LimitExact
<1>2. DropInv => Shaped
  BY DEF DropInv
<1>3. LimitInv /\ Shaped /\ [LimiterNext]_limiterVars => LimitInv'
  BY LimitStep
<1> QED BY <1>1, <1>2, <1>3, LimitInitial, DropKept, PTL DEF LimiterSpec
=============================================================================
