--------------------------- MODULE CircuitBreaker ---------------------------
(***************************************************************************)
(* The SRE breaker of pkg/shield/circuitbreaker together with the code     *)
(* that calls it: the gin middleware and the four gRPC interceptors.       *)
(*                                                                         *)
(* A request runs concurrently with the others: it reads the window        *)
(* (summary), decides (Allow), runs the handler, and marks its outcome.    *)
(* Other requests and the clock move between these steps.                  *)
(*                                                                         *)
(* `served' and `unmarked' are history variables: the outcomes the callers *)
(* really had, a local rejection counting as a failure, whatever was       *)
(* marked for them, and the bucket periods in which nothing was marked for *)
(* a call.                                                                 *)
(***************************************************************************)
EXTENDS RollingWindow

CONSTANTS Callers,     \* concurrent requests of one route or method
          Transports,  \* "gin", "grpc": whose middleware may call the breaker
          Outcomes,    \* how a handler may end
          Request,     \* options.request
          Num, Den     \* options.success = Num / Den

ASSUME BreakerAssumption ==
  /\ Transports \subseteq {"gin", "grpc"}
  /\ Outcomes \subseteq {"ok", "other", "hit", "panic"}
  /\ Request \in Nat \ {0}
  /\ Num \in Nat \ {0} /\ Den \in Nat \ {0} /\ Num <= Den

VARIABLES transport,     \* whose middleware calls this breaker
          breakerState,  \* Breaker.state
          pc,            \* where each request is
          seen,          \* what each request read when it summed the window
          served,        \* history: bucket period -> real outcomes
          unmarked       \* history: the periods with a call that was not marked

histVars    == <<served, unmarked>>
breakerVars == <<windowVars, transport, breakerState, pc, seen, histVars>>

NotRead == [accepts |-> 0, total |-> 0, good |-> 0, calls |-> 0, blind |-> FALSE]

-----------------------------------------------------------------------------
(* The real outcomes of the last Size bucket periods. *)
Recent == {s \in Slots : s > Slot(now) - Size /\ s <= Slot(now)}
Outcome(s) == IF s \in Slots THEN served[s] ELSE Empty
LastServed == [k \in 1 .. Size |-> Outcome(Slot(now) - Size + k)]

(* Breaker.summary: one pass over the window, under its read lock. *)
Summarise(c) ==
  /\ pc[c] = "idle"
  /\ served[Slot(now)].count < MaxAdds
  /\ seen' = [seen EXCEPT ![c] = [accepts |-> SumOf(Visited), total |-> CountOf(Visited),
                                  good |-> SumOf(LastServed), calls |-> CountOf(LastServed),
                                  blind |-> Recent \cap unmarked # {}]]
  /\ pc' = [pc EXCEPT ![c] = "decide"]
  /\ UNCHANGED <<windowVars, transport, breakerState, histVars>>

(* total < request || float64(total) < k * accepts, with k = Den / Num. *)
Healthy(s) == s.total < Request \/ s.total * Num < Den * s.accepts

(* The drop probability is positive: total > k * accepts.  It is below one, *)
(* so the random draw may go either way.                                    *)
MayDrop(s) == s.total * Num > Den * s.accepts

(* Breaker.Allow after the summary: set the state, draw, let in or reject. *)
Decide(c) ==
  /\ pc[c] = "decide"
  /\ breakerState' = IF Healthy(seen[c]) THEN "closed" ELSE "open"
  /\ \/ pc' = [pc EXCEPT ![c] = "inCall"]
     \/ ~Healthy(seen[c]) /\ MayDrop(seen[c]) /\ pc' = [pc EXCEPT ![c] = "rejected"]
  /\ seen' = [seen EXCEPT ![c] = NotRead]
  /\ UNCHANGED <<windowVars, transport, histVars>>

Served(outcome) ==
  served' = [served EXCEPT ![Slot(now)] =
               AddTo(@, IF outcome \in {"ok", "other"} THEN 1 ELSE 0)]

(* ErrNotAllowed: every caller marks the rejection as a failure. *)
Reject(c) ==
  /\ pc[c] = "rejected"
  /\ Add(0)
  /\ Served("rejected")
  /\ pc' = [pc EXCEPT ![c] = "idle"]
  /\ UNCHANGED <<transport, breakerState, seen, unmarked>>

Mark(m) == CASE m = "success" -> Add(1)
             [] m = "failed"  -> Add(0)
             [] m = "none"    -> UNCHANGED windowVars

(* A slip: a failing status is not looked up in validCodes. *)
GinMarkNoCodes(outcome) == IF outcome = "panic" THEN "none" ELSE "success"

(* gin CircuitBreaker after c.Next().  A panic unwinds through the          *)
(* middleware to gin's recovery: nothing after c.Next() runs.               *)
GinMark(outcome) ==
  CASE outcome = "panic" -> "none"
    [] outcome = "hit"   -> "failed"
    [] OTHER             -> "success"

(* The gRPC interceptors after the call: they mark only if err # nil. *)
GrpcMark(outcome) ==
  CASE outcome \in {"panic", "ok"} -> "none"
    [] outcome = "hit"             -> "failed"
    [] OTHER                       -> "success"

Return(c, outcome) ==
  LET mark == IF transport = "gin" THEN GinMark(outcome) ELSE GrpcMark(outcome)
  IN  /\ pc[c] = "inCall"
      /\ Mark(mark)
      /\ Served(outcome)
      /\ unmarked' = unmarked \cup (IF mark = "none" THEN {Slot(now)} ELSE {})
      /\ pc' = [pc EXCEPT ![c] = "idle"]
      /\ UNCHANGED <<transport, breakerState, seen>>

BreakerTick == Tick /\ UNCHANGED <<transport, breakerState, pc, seen, histVars>>

-----------------------------------------------------------------------------
BreakerInit == /\ WindowInit
               /\ transport \in Transports
               /\ breakerState = "closed"
               /\ pc = [c \in Callers |-> "idle"]
               /\ seen = [c \in Callers |-> NotRead]
               /\ served = [s \in Slots |-> Empty] /\ unmarked = {}

BreakerNext == \/ BreakerTick
               \/ \E c \in Callers : \/ Summarise(c)
                                     \/ Decide(c)
                                     \/ Reject(c)
                                     \/ \E outcome \in Outcomes : Return(c, outcome)

BreakerSpec == BreakerInit /\ [][BreakerNext]_breakerVars

-----------------------------------------------------------------------------
(* Type invariant. *)
BreakerTypeOK ==
  /\ WindowTypeOK
  /\ transport \in Transports /\ breakerState \in {"open", "closed"}
  /\ pc \in [Callers -> {"idle", "decide", "inCall", "rejected"}]
  /\ seen \in [Callers -> [accepts : Nat, total : Nat, good : Nat, calls : Nat,
                           blind : BOOLEAN]]
  /\ served \in [Slots -> Bucket] /\ unmarked \subseteq Slots

(* The condition of Allow, of real outcomes: at least `request' calls, and  *)
(* a success rate not above `success'.  The documentation is strict where   *)
(* this is not (README.md:91, "exceeds", "falls below"; sre.go:22,          *)
(* "greater", "lower"): at equality the code opens.  Whatever is not        *)
(* Failing does not meet the documented condition either.                   *)
Failing(s) == s.calls >= Request /\ s.calls * Num >= Den * s.good

(* The success rate is below `success', as the documentation has it. *)
BelowSuccess(s) == s.calls * Num > Den * s.good

(* The breaker opens, and a request is dropped, only if the real outcomes   *)
(* in the window the request read were failing (Breaker.Allow, fed by the   *)
(* marks of its callers).                                                   *)
TripsOnlyWhenFailing ==
  [][\A c \in Callers :
        /\ pc[c] = "decide"
        /\ pc'[c] \in {"inCall", "rejected"}
        /\ breakerState' = "open" /\ (breakerState = "closed" \/ pc'[c] = "rejected")
        => Failing(seen[c])]_breakerVars

(* While every call of the window has been marked, the breaker is open      *)
(* after Allow exactly if their real outcomes were failing, equality        *)
(* included.  At equality it drops nothing yet: a request is dropped only   *)
(* if the real success rate is strictly below `success' (Breaker.Allow and  *)
(* the marks of its callers).                                               *)
TripsExactly ==
  [][\A c \in Callers :
        pc[c] = "decide" /\ pc'[c] # "decide" /\ ~seen[c].blind
        => /\ breakerState' = "open" <=> Failing(seen[c])
           /\ pc'[c] = "rejected" => Failing(seen[c]) /\ BelowSuccess(seen[c])]_breakerVars

(* A request that starts when nothing was marked for a whole window is let  *)
(* in: an open breaker never keeps its caller out for good, because what it *)
(* tripped on leaves the window (summary over the lazily reset ring).       *)
QuietWindowAdmits ==
  [][\A c \in Callers :
        pc[c] = "decide" /\ seen[c].calls = 0
        => pc'[c] # "rejected"]_breakerVars

=============================================================================
