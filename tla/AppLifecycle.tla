---------------------------- MODULE AppLifecycle ----------------------------
(***************************************************************************)
(* The application of pkg/mapp: Run starts the servers and watch in an     *)
(* errgroup; watch stops the application on a signal or on the first error *)
(* and hands SIGTRAP to the profiler.                                      *)
(*                                                                         *)
(* A close function stops a server or releases a resource; a server's      *)
(* Start returns once its server was stopped, or fails by itself.          *)
(***************************************************************************)
EXTENDS Profiler

CONSTANTS Servers,
          Closes,       \* App.closes: a sequence of servers and of other resources
          CloserFails,  \* may a close function return an error?
          MaxSignals    \* bound: signals sent to the process

ASSUME AppAssumption == /\ Closes \in Seq(Servers \cup {"resource"})
                        /\ CloserFails \in BOOLEAN /\ MaxSignals \in Nat

VARIABLES serving,      \* what each server's goroutine does
          stoppedBy,    \* the servers whose Stop was called
          watch,        \* watch: "select", or stop()'s progress, or "returned"
          sig,          \* the channel of signals, capacity 1
          signals,      \* signals sent so far
          egErr,        \* the error that the errgroup keeps; it cancels ctx
          closerErr,    \* a close function has failed
          runEnd        \* how Run ended

appVars == <<profVars, serving, stoppedBy, watch, sig, signals, egErr, closerErr, runEnd>>

AtSelect == watch = [at |-> "select"]
Kinds    == {"term", "trap"}   \* SIGINT, SIGTERM and SIGHUP do the same

(* errgroup: the first error is kept, and cancels ctx. *)
Fails == egErr' = TRUE

-----------------------------------------------------------------------------
(* s.Start() fails, or returns because the server was stopped. *)
ServerFails(s) ==
  /\ serving[s] = "up"
  /\ serving' = [serving EXCEPT ![s] = "failed"]
  /\ Fails
  /\ UNCHANGED <<profVars, stoppedBy, watch, sig, signals, closerErr, runEnd>>

ServerReturns(s) ==
  /\ serving[s] = "up" /\ s \in stoppedBy
  /\ serving' = [serving EXCEPT ![s] = "ended"]
  /\ UNCHANGED <<profVars, stoppedBy, watch, sig, signals, egErr, closerErr, runEnd>>

(* The system sends a signal; the channel keeps one. *)
SendSignal(k) ==
  /\ signals < MaxSignals /\ runEnd = ""
  /\ signals' = signals + 1
  /\ sig' = IF sig = "" THEN k ELSE sig
  /\ UNCHANGED <<profVars, serving, stoppedBy, watch, egErr, closerErr, runEnd>>

(* watch: ctx.Done, or a signal to stop. *)
BeginStop(why) ==
  /\ watch' = [at |-> "stop", i |-> 1, why |-> why]
  /\ UNCHANGED <<profVars, serving, stoppedBy, signals, egErr, closerErr, runEnd>>

WatchCtx == AtSelect /\ Rest(Signal) /\ egErr /\ BeginStop("ctx") /\ UNCHANGED sig

(* A slip: watch returns on the signal and closes nothing. *)
WatchTermReturns ==
  /\ AtSelect /\ Rest(Signal) /\ sig = "term" /\ sig' = "" /\ watch' = [at |-> "returned"]
  /\ UNCHANGED <<profVars, serving, stoppedBy, signals, egErr, closerErr, runEnd>>

WatchTerm == AtSelect /\ Rest(Signal) /\ sig = "term" /\ BeginStop("signal") /\ sig' = ""

(* SIGTRAP: profile.StartOrStop, which watch's goroutine runs to its end. *)
WatchTrap ==
  /\ AtSelect /\ sig = "trap" /\ sig' = ""
  /\ StartCAS \/ StopCAS
  /\ UNCHANGED <<serving, stoppedBy, watch, signals, egErr, closerErr, runEnd>>

(* stop: the next close function.  A server's Stop that fails has not      *)
(* stopped it.                                                             *)
CloseNext ==
  /\ watch.at = "stop" /\ watch.i <= Len(Closes)
  /\ watch' = [watch EXCEPT !.i = @ + 1]
  /\ stoppedBy' = stoppedBy \cup {Closes[watch.i]}
  /\ UNCHANGED <<profVars, serving, sig, signals, egErr, closerErr, runEnd>>

(* stop returns at the first error; watch returns it, or ctx.Err(). *)
CloseFails ==
  /\ CloserFails /\ watch.at = "stop" /\ watch.i <= Len(Closes)
  /\ watch' = [at |-> "returned"] /\ closerErr' = TRUE
  /\ Fails
  /\ UNCHANGED <<profVars, serving, stoppedBy, sig, signals, runEnd>>

(* All are closed: nil after a signal, ctx.Err() otherwise. *)
StopDone ==
  /\ watch.at = "stop" /\ watch.i > Len(Closes)
  /\ watch' = [at |-> "returned"]
  /\ egErr' = (egErr \/ watch.why = "ctx")
  /\ UNCHANGED <<profVars, serving, stoppedBy, sig, signals, closerErr, runEnd>>

(* eg.Wait: every goroutine has returned; Run panics on an error. *)
RunReturns ==
  /\ runEnd = "" /\ watch.at = "returned" /\ \A s \in Servers : serving[s] # "up"
  /\ runEnd' = IF egErr THEN "panic" ELSE "ok"
  /\ UNCHANGED <<profVars, serving, stoppedBy, watch, sig, signals, egErr, closerErr>>

(* The profiler's goroutines, while the process lives. *)
Lives == runEnd = "" /\ UNCHANGED <<serving, stoppedBy, watch, sig, signals, egErr, closerErr, runEnd>>

ProfSignal   == SignalStep /\ Lives
ProfTimer(t) == TimerStep(t) /\ Lives

-----------------------------------------------------------------------------
AppInit ==
  /\ ProfInit
  /\ serving = [s \in Servers |-> "up"] /\ stoppedBy = {}
  /\ watch = [at |-> "select"] /\ sig = "" /\ signals = 0
  /\ egErr = FALSE /\ closerErr = FALSE /\ runEnd = ""

AppNext ==
  \/ \E s \in Servers : ServerFails(s) \/ ServerReturns(s)
  \/ \E k \in Kinds : SendSignal(k)
  \/ WatchCtx \/ WatchTerm \/ WatchTrap
  \/ CloseNext \/ CloseFails \/ StopDone \/ RunReturns
  \/ ProfSignal \/ \E t \in Timers : ProfTimer(t)

(* The goroutines run on: a stopped server's Start returns, watch takes    *)
(* what is there, a close function returns, the 60 seconds pass.           *)
AppSpec ==
  /\ AppInit /\ [][AppNext]_appVars
  /\ \A s \in Servers : WF_appVars(ServerReturns(s))
  /\ WF_appVars(WatchCtx \/ WatchTerm) /\ WF_appVars(WatchTrap)
  /\ WF_appVars(CloseNext \/ CloseFails \/ StopDone)
  /\ WF_appVars(RunReturns)
  /\ WF_appVars(ProfSignal) /\ \A t \in Timers : WF_appVars(ProfTimer(t))

-----------------------------------------------------------------------------
(* What watch is bound to see.  A SIGTERM that finds another signal in the *)
(* channel, such as a SIGTRAP not yet taken, is dropped by os/signal and   *)
(* asks for nothing.                                                       *)
Asked == egErr \/ sig = "term"

(* A signal that got into the channel, or the error of a server, ends the  *)
(* application, as long as no close function fails: every server is        *)
(* stopped and Run returns (watch, stop, Run).                             *)
StopsUnlessCloserFails == Asked ~> runEnd # "" \/ closerErr

=============================================================================
