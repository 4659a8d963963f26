------------------------------ MODULE Profiler ------------------------------
(***************************************************************************)
(* Sampling of profiles (pkg/prof/profile.go) on one Profile: StartOrStop, *)
(* called by the goroutine that takes the signals, against the goroutines  *)
(* of checkTimeout, one for every start.                                   *)
(*                                                                         *)
(* Of the profiles, "cpu" stands for those that are switched on and off    *)
(* (cpu, block, mutex, trace) and "mem" for the one that saves a setting   *)
(* and puts it back; the others only write files.  The closers of block    *)
(* and mutex set the rate to 0, whatever the program had it at.  closeFns  *)
(* is never emptied: `p = NewProfile()' at the end of stopProfile sets a   *)
(* local variable.                                                         *)
(*                                                                         *)
(* `overlapped' is a history variable: a start and a stop ran at the same  *)
(* time.                                                                   *)
(***************************************************************************)
EXTENDS Naturals, Sequences, FiniteSets

CONSTANTS Default,      \* runtime.MemProfileRate of the program
          Sampling,     \* the rate that mem() sets
          MaxSessions   \* bound: starts

ASSUME ProfilerAssumption == Default # Sampling /\ MaxSessions \in Nat \ {0}

Timers == 1 .. MaxSessions   \* the timer of a session has its number
Signal == 0                  \* the goroutine that calls StartOrStop

VARIABLES status,      \* 1 while sampling
          closeFns,    \* Profile.closeFns
          switched,    \* a profile that is switched: the program's "own", "on" or "off"
          memRate,     \* runtime.MemProfileRate
          doing,       \* what each goroutine does: 0 is the caller, others are timers
          sessions, overlapped

profVars == <<status, closeFns, switched, memRate, doing, sessions, overlapped>>

Rest(g)    == doing[g] = [at |-> "idle"]
Sets(g, d) == doing' = [doing EXCEPT ![g] = d]
Stopping   == {g \in DOMAIN doing : doing[g].at = "stop"}

-----------------------------------------------------------------------------
(* isStart: the status is swapped, and startProfile begins. *)
StartCAS ==
  /\ Rest(Signal) /\ status = 0 /\ sessions < MaxSessions
  /\ status' = 1 /\ sessions' = sessions + 1
  /\ overlapped' = (overlapped \/ Stopping # {})
  /\ Sets(Signal, [at |-> "cpu"])
  /\ UNCHANGED <<closeFns, switched, memRate>>

(* p.cpu(): the file, StartCPUProfile (whose error is dropped), its closer. *)
StartCpu ==
  /\ doing[Signal].at = "cpu"
  /\ Sets(Signal, [at |-> "mem"])
  /\ \/ UNCHANGED <<switched, closeFns>>      \* os.Create failed
     \/ switched' = "on" /\ closeFns' = Append(closeFns, [kind |-> "cpu"])
  /\ UNCHANGED <<status, memRate, sessions, overlapped>>

(* A slip: the setting is saved after it was changed. *)
StartMemLate ==
  /\ doing[Signal].at = "mem"
  /\ Sets(Signal, [at |-> "go"])
  /\ memRate' = Sampling
  /\ closeFns' = Append(closeFns, [kind |-> "mem", old |-> memRate'])
  /\ UNCHANGED <<status, switched, sessions, overlapped>>

(* p.mem(): the setting is saved in the closer. *)
StartMem ==
  /\ doing[Signal].at = "mem"
  /\ Sets(Signal, [at |-> "go"])
  /\ \/ UNCHANGED <<memRate, closeFns>>    \* os.Create failed
     \/ /\ memRate' = Sampling
        /\ closeFns' = Append(closeFns, [kind |-> "mem", old |-> memRate])
  /\ UNCHANGED <<status, switched, sessions, overlapped>>

(* go p.checkTimeout() *)
StartTimer ==
  /\ doing[Signal].at = "go"
  /\ doing' = [doing EXCEPT ![Signal] = [at |-> "idle"], ![sessions] = [at |-> "born"]]
  /\ UNCHANGED <<status, closeFns, switched, memRate, sessions, overlapped>>

(* checkTimeout reaches its select. *)
TimerWaits(t) ==
  /\ doing[t].at = "born"
  /\ Sets(t, [at |-> "wait"])
  /\ UNCHANGED <<status, closeFns, switched, memRate, sessions, overlapped>>

(* stopProfile begins: nothing to close, or the closers that are there now. *)
StopFrom(g) ==
  IF closeFns = <<>>
  THEN Sets(g, [at |-> "idle"])
  ELSE Sets(g, [at |-> "stop", todo |-> closeFns])

(* isStop, by the caller. *)
StopCAS ==
  /\ Rest(Signal) /\ status = 1
  /\ status' = 0
  /\ StopFrom(Signal)
  /\ UNCHANGED <<closeFns, switched, memRate, sessions, overlapped>>

(* The time is up: isStop, by the timer; otherwise it ends. *)
Timeout(t) ==
  /\ doing[t].at = "wait"
  /\ IF status = 1 THEN status' = 0 /\ StopFrom(t)
                   ELSE Sets(t, [at |-> "idle"]) /\ UNCHANGED status
  /\ overlapped' = (overlapped \/ (status = 1 /\ ~Rest(Signal)))
  /\ UNCHANGED <<closeFns, switched, memRate, sessions>>

(* One of the close functions. *)
RunCloser(g) ==
  LET c == Head(doing[g].todo) IN
  /\ g \in Stopping /\ doing[g].todo # <<>>
  /\ switched' = IF c.kind = "cpu" THEN "off" ELSE switched
  /\ memRate' = IF c.kind = "mem" THEN c.old ELSE memRate
  /\ Sets(g, [doing[g] EXCEPT !.todo = Tail(@)])
  /\ UNCHANGED <<status, closeFns, sessions, overlapped>>

(* stopCh: a timer that waits ends; if none waits, the default. *)
StopTells(g) ==
  LET waiting == {t \in Timers : doing[t].at = "wait"} IN
  /\ g \in Stopping /\ doing[g].todo = <<>>
  /\ IF waiting = {}
     THEN Sets(g, [at |-> "idle"])
     ELSE \E t \in waiting :
            doing' = [doing EXCEPT ![g] = [at |-> "idle"], ![t] = [at |-> "idle"]]
  /\ UNCHANGED <<status, closeFns, switched, memRate, sessions, overlapped>>

-----------------------------------------------------------------------------
ProfInit ==
  /\ status = 0 /\ closeFns = <<>> /\ switched = "own" /\ memRate = Default
  /\ doing = [g \in {Signal} \cup Timers |-> [at |-> "idle"]]
  /\ sessions = 0 /\ overlapped = FALSE

(* What runs once StartOrStop was called, and the timers. *)
SignalStep   == StartCpu \/ StartMem \/ StartTimer \/ RunCloser(Signal) \/ StopTells(Signal)
TimerStep(t) == TimerWaits(t) \/ Timeout(t) \/ RunCloser(t) \/ StopTells(t)

-----------------------------------------------------------------------------
(* When no session is on and nobody starts or stops one, nothing samples   *)
(* any more and the program's memory rate is its own again, over any       *)
(* number of sessions, unless a start and a stop ran at the same time      *)
(* (mem, cpu, stopProfile).  What is switched ends "off", which is the     *)
(* program's own value only if the program had not switched it on.         *)
SettingsRestored ==
  status = 0 /\ Stopping = {} /\ Rest(Signal) /\ ~overlapped
    => memRate = Default /\ switched # "on"

=============================================================================
