--------------------------- MODULE ServicesProofs ---------------------------
(* Proofs about the life of a service: the profiler of its program, and    *)
(* its discovery through Consul.                                           *)
EXTENDS AppLifecycle, ServiceDiscovery, TLAPS

-----------------------------------------------------------------------------
(* The profiler.  The closers of sessions that did not overlap: the saved  *)
(* setting is the program's own.                                           *)
Closer == [kind : {"cpu"}] \cup [kind : {"mem"}, old : {Default}]
Doing  == [at : {"idle", "cpu", "mem", "go", "born", "wait"}]
            \cup [at : {"stop"}, todo : Seq(Closer)]

Starting  == doing[Signal].at \in {"cpu", "mem", "go"}
Has(s, k) == \E i \in 1 .. Len(s) : s[i].kind = k

(* A closer of this kind is still to run: at the end of the session that   *)
(* is on, or in the stop that is under way.                                *)
ToClose(k) == \/ status = 1 /\ Has(closeFns, k)
              \/ \E g \in Stopping : Has(doing[g].todo, k)

(* While starts and stops do not overlap: a stop runs alone and after the  *)
(* session, a start finds the program's own setting, and a setting that is *)
(* not the program's has its closer.                                       *)
Neat ==
  /\ status \in {0, 1}
  /\ closeFns \in Seq(Closer)
  /\ doing \in [{Signal} \cup Timers -> Doing]
  /\ Starting => status = 1
  /\ Stopping # {} => status = 0
  /\ \A g, h \in Stopping : g = h
  /\ doing[Signal].at \in {"cpu", "mem"} => memRate = Default
  /\ memRate = Default \/ ToClose("mem")

RestoreInv == ~overlapped => Neat /\ (switched = "on" => ToClose("cpu"))

LEMMA HasAppend ==
  ASSUME NEW s \in Seq(Closer), NEW c \in Closer
  PROVE  /\ Append(s, c) \in Seq(Closer) /\ Has(Append(s, c), c.kind)
         /\ \A k : Has(s, k) => Has(Append(s, c), k)
  BY DEF Has

LEMMA HasTail ==
  ASSUME NEW s \in Seq(Closer), s # <<>>
  PROVE  /\ Tail(s) \in Seq(Closer) /\ Head(s) \in Closer
         /\ \A k : Has(s, k) => Head(s).kind = k \/ Has(Tail(s), k)
<1>1. Tail(s) \in Seq(Closer) /\ Head(s) \in Closer /\ Len(s) \in Nat /\ Len(s) > 0
  BY DEF Closer
<1>2. ASSUME NEW k, Has(s, k) PROVE Head(s).kind = k \/ Has(Tail(s), k)
  <2>1. PICK i \in 1 .. Len(s) : s[i].kind = k
    BY <1>2 DEF Has
  <2>2. CASE i = 1
    BY <2>1, <2>2
  <2>3. CASE i # 1
    <3>1. Len(Tail(s)) = Len(s) - 1 /\ i - 1 \in 1 .. Len(s) - 1
      BY <1>1, <2>3
    <3>2. Tail(s)[i - 1] = s[i]
      BY <1>1, <2>3, <3>1
    <3> QED BY <2>1, <3>1, <3>2 DEF Has
  <2> QED BY <2>2, <2>3
<1> QED BY <1>1, <1>2

LEMMA HasNone == \A k : ~Has(<<>>, k)
  BY DEF Has

(* The closers that a goroutine has to run. *)
LEMMA DoingFields ==
  ASSUME doing \in [{Signal} \cup Timers -> Doing], NEW g \in Stopping
  PROVE  /\ g \in {Signal} \cup Timers /\ doing[g].at = "stop" /\ doing[g].todo \in Seq(Closer)
         /\ \A s : [doing[g] EXCEPT !.todo = s] = [at |-> "stop", todo |-> s]
  BY DEF Stopping, Doing

(* A goroutine that neither begins nor ends a stop. *)
LEMMA NeatMoves ==
  ASSUME Neat, NEW g \in {Signal} \cup Timers, NEW p \in {"idle", "cpu", "mem", "go", "born", "wait"},
         doing[g].at # "stop", doing' = [doing EXCEPT ![g] = [at |-> p]]
  PROVE  /\ doing' \in [{Signal} \cup Timers -> Doing] /\ Stopping' = Stopping
         /\ \A h \in Stopping : doing'[h] = doing[h]
         /\ doing'[Signal] = IF g = Signal THEN [at |-> p] ELSE doing[Signal]
  BY DEF Neat, Stopping, Doing

(* A stop begins, where none is under way. *)
LEMMA StopBegins ==
  ASSUME Neat, NEW g \in {Signal} \cup Timers, ~Starting, status = 1, status' = 0, StopFrom(g),
         UNCHANGED <<closeFns, memRate>>
  PROVE  Neat' /\ \A k : ToClose(k) => ToClose(k)'
<1>1. Stopping = {}
  BY DEF Neat
<1>2. \A k : ToClose(k) => Has(closeFns, k)
  BY <1>1 DEF ToClose
<1>3. CASE closeFns = <<>>
  <2>1. doing' = [doing EXCEPT ![g] = [at |-> "idle"]]
    BY <1>3 DEF StopFrom, Sets
  <2>2. \A k : ~ToClose(k)
    BY <1>2, <1>3, HasNone
  <2>3. doing[g].at # "stop"
    BY <1>1 DEF Stopping, Neat
  <2>4. doing' \in [{Signal} \cup Timers -> Doing] /\ Stopping' = {} /\ ~Starting'
        /\ doing'[Signal].at \notin {"cpu", "mem"}
    BY <1>1, <2>1, <2>3, NeatMoves DEF Starting
  <2>5. memRate' = Default
    BY <2>2 DEF Neat
  <2> QED BY <2>2, <2>4, <2>5 DEF Neat
<1>4. CASE closeFns # <<>>
  <2>1. doing' = [doing EXCEPT ![g] = [at |-> "stop", todo |-> closeFns]]
    BY <1>4 DEF StopFrom, Sets
  <2>2. doing' \in [{Signal} \cup Timers -> Doing] /\ Stopping' = {g} /\ doing'[g].todo = closeFns
    <3>1. [at |-> "stop", todo |-> closeFns] \in Doing
      BY DEF Neat, Doing
    <3> QED BY <1>1, <2>1, <3>1 DEF Neat, Stopping
  <2>3. ~Starting' /\ doing'[Signal].at \notin {"cpu", "mem"}
    BY <2>1 DEF Starting, Neat
  <2>4. \A k : ToClose(k) => ToClose(k)'
    BY <1>2, <2>2 DEF ToClose
  <2>5. memRate' = Default \/ ToClose("mem")'
    BY <2>4 DEF Neat
  <2> QED BY <2>2, <2>3, <2>4, <2>5 DEF Neat
<1> QED BY <1>3, <1>4

(* What a step keeps of the profiler, apart from the CPU profile. *)
Keeps == Neat' /\ (ToClose("cpu") => ToClose("cpu")')

LEMMA StartSteps ==
  ASSUME Neat, (StartCAS /\ Stopping = {}) \/ StartCpu \/ StartMem \/ StartTimer
  PROVE  /\ Keeps
         /\ StartCpu => UNCHANGED switched \/ ToClose("cpu")'
<1> USE DEF Keeps
<1>0. Signal \in {Signal} \cup Timers /\ closeFns \in Seq(Closer)
  BY DEF Neat
<1>1. CASE StartCAS /\ Stopping = {}
  <2>1. doing' = [doing EXCEPT ![Signal] = [at |-> "cpu"]] /\ doing[Signal].at # "stop"
    BY <1>1 DEF StartCAS, Sets, Rest
  <2>2. /\ doing' \in [{Signal} \cup Timers -> Doing] /\ Stopping' = {}
    BY <1>0, <1>1, <2>1, NeatMoves
  <2>3. status = 0 /\ status' = 1 /\ UNCHANGED <<closeFns, memRate>>
    BY <1>1 DEF StartCAS
  <2>4. ~ToClose("mem") /\ ~ToClose("cpu")
    BY <1>1, <2>3 DEF ToClose
  <2>5. ~StartCpu
    BY <2>1, <1>1 DEF StartCpu, StartCAS, Rest
  <2> QED BY <2>2, <2>3, <2>4, <2>5 DEF Neat
<1>2. CASE StartCpu
  <2>1. doing' = [doing EXCEPT ![Signal] = [at |-> "mem"]] /\ doing[Signal].at = "cpu"
    BY <1>2 DEF StartCpu, Sets
  <2>2. status = 1 /\ memRate = Default /\ Stopping = {}
    BY <2>1 DEF Neat, Starting
  <2>3. /\ doing' \in [{Signal} \cup Timers -> Doing] /\ Stopping' = {}
    BY <1>0, <2>1, <2>2, NeatMoves
  <2>4. UNCHANGED <<status, memRate>>
    BY <1>2 DEF StartCpu
  <2>5. CASE closeFns' = closeFns /\ UNCHANGED switched
    <3>1. ToClose("cpu") => ToClose("cpu")'
      BY <2>2, <2>4, <2>5 DEF ToClose
    <3> QED BY <2>2, <2>3, <2>4, <2>5, <3>1 DEF Neat
  <2>6. CASE closeFns' = Append(closeFns, [kind |-> "cpu"])
    <3>1. [kind |-> "cpu"] \in Closer /\ [kind |-> "cpu"].kind = "cpu"
      BY DEF Closer
    <3>2. closeFns' \in Seq(Closer) /\ Has(closeFns', "cpu")
      BY <1>0, <2>6, <3>1, HasAppend
    <3>3. ToClose("cpu")'
      BY <2>2, <2>4, <3>2 DEF ToClose
    <3> QED BY <2>2, <2>3, <2>4, <3>2, <3>3 DEF Neat
  <2> QED BY <1>2, <2>5, <2>6 DEF StartCpu
<1>3. CASE StartMem
  <2>1. doing' = [doing EXCEPT ![Signal] = [at |-> "go"]] /\ doing[Signal].at = "mem"
    BY <1>3 DEF StartMem, Sets
  <2>2. status = 1 /\ memRate = Default /\ Stopping = {}
    BY <2>1 DEF Neat, Starting
  <2>3. /\ doing' \in [{Signal} \cup Timers -> Doing] /\ Stopping' = {}
        /\ doing'[Signal] = [at |-> "go"]
    BY <1>0, <2>1, <2>2, NeatMoves
  <2>4. UNCHANGED status /\ ~StartCpu
    BY <1>3, <2>1 DEF StartMem, StartCpu
  <2>5. CASE UNCHANGED <<closeFns, memRate>>
    <3>1. ToClose("cpu") => ToClose("cpu")'
      BY <2>2, <2>4, <2>5 DEF ToClose
    <3> QED BY <2>2, <2>3, <2>4, <2>5, <3>1 DEF Neat
  <2>6. CASE closeFns' = Append(closeFns, [kind |-> "mem", old |-> memRate])
    <3>1. [kind |-> "mem", old |-> memRate] \in Closer
          /\ [kind |-> "mem", old |-> memRate].kind = "mem"
      BY <2>2 DEF Closer
    <3>2. closeFns' \in Seq(Closer) /\ Has(closeFns', "mem")
          /\ (Has(closeFns, "cpu") => Has(closeFns', "cpu"))
      BY <1>0, <2>6, <3>1, HasAppend
    <3>3. ToClose("mem")' /\ (ToClose("cpu") => ToClose("cpu")')
      BY <2>2, <2>4, <3>2 DEF ToClose
    <3> QED BY <2>2, <2>3, <2>4, <3>2, <3>3 DEF Neat
  <2> QED BY <1>3, <2>5, <2>6 DEF StartMem
<1>4. CASE StartTimer
  <2>1. doing[Signal].at = "go" /\ UNCHANGED <<status, closeFns, memRate>> /\ ~StartCpu
    BY <1>4 DEF StartTimer, StartCpu
  <2>2. status = 1 /\ Stopping = {}
    BY <2>1 DEF Neat, Starting
  <2>3. doing' \in [{Signal} \cup Timers -> Doing] /\ Stopping' = {} /\ ~Starting'
        /\ doing'[Signal].at \notin {"cpu", "mem"}
    <3>1. doing' = [doing EXCEPT ![Signal] = [at |-> "idle"], ![sessions] = [at |-> "born"]]
      BY <1>4 DEF StartTimer
    <3>2. [at |-> "idle"] \in Doing /\ [at |-> "born"] \in Doing
      BY DEF Doing
    <3> QED BY <2>2, <3>1, <3>2 DEF Neat, Stopping, Starting
  <2>4. \A k : ToClose(k) => ToClose(k)'
    BY <2>1, <2>2 DEF ToClose
  <2> QED BY <2>1, <2>2, <2>3, <2>4 DEF Neat
<1> QED BY <1>1, <1>2, <1>3, <1>4

LEMMA TimerSteps ==
  ASSUME Neat, NEW t \in Timers,
         TimerWaits(t) \/ (Timeout(t) /\ (status = 1 => Rest(Signal)))
  PROVE  Keeps
<1> USE DEF Keeps
<1>0. t \in {Signal} \cup Timers /\ t # Signal
  BY DEF Timers, Signal
<1>1. CASE Timeout(t) /\ status = 1
  <2>1. ~Starting /\ status' = 0 /\ StopFrom(t) /\ UNCHANGED <<closeFns, memRate>>
    BY <1>1 DEF TimerWaits, Timeout, Starting, Rest
  <2> QED BY <1>0, <1>1, <2>1, StopBegins
<1>2. CASE TimerWaits(t) \/ (Timeout(t) /\ status # 1)
  <2>1. PICK p \in {"idle", "wait"} : doing' = [doing EXCEPT ![t] = [at |-> p]]
    BY <1>2 DEF TimerWaits, Timeout, Sets
  <2>2. doing[t].at # "stop" /\ UNCHANGED <<status, closeFns, memRate>>
    BY <1>2 DEF TimerWaits, Timeout
  <2>3. /\ doing' \in [{Signal} \cup Timers -> Doing] /\ Stopping' = Stopping
        /\ \A h \in Stopping : doing'[h] = doing[h]
        /\ doing'[Signal] = doing[Signal]
    BY <1>0, <2>1, <2>2, NeatMoves
  <2>4. \A k : ToClose(k) => ToClose(k)'
    BY <2>2, <2>3 DEF ToClose
  <2> QED BY <2>2, <2>3, <2>4 DEF Neat, Starting
<1> QED BY <1>1, <1>2

(* A close function runs: the others are still to run. *)
LEMMA CloserStep ==
  ASSUME Neat, NEW g, RunCloser(g)
  PROVE  /\ Neat'
         /\ ToClose("cpu") => Head(doing[g].todo).kind = "cpu" \/ ToClose("cpu")'
<1> DEFINE c == Head(doing[g].todo)
<1>1. g \in Stopping /\ doing[g].todo # <<>> /\ UNCHANGED <<status, closeFns>>
  BY DEF RunCloser
<1>2. /\ g \in {Signal} \cup Timers /\ doing[g].at = "stop" /\ doing[g].todo \in Seq(Closer)
      /\ doing' = [doing EXCEPT ![g] = [at |-> "stop", todo |-> Tail(doing[g].todo)]]
  <2>1. /\ g \in {Signal} \cup Timers /\ doing[g].at = "stop" /\ doing[g].todo \in Seq(Closer)
        /\ \A s : [doing[g] EXCEPT !.todo = s] = [at |-> "stop", todo |-> s]
    BY <1>1, DoingFields DEF Neat
  <2>2. doing' = [doing EXCEPT ![g] = [doing[g] EXCEPT !.todo = Tail(doing[g].todo)]]
    BY DEF RunCloser, Sets
  <2> QED BY <2>1, <2>2
<1>3. /\ Tail(doing[g].todo) \in Seq(Closer) /\ c \in Closer
      /\ \A k : Has(doing[g].todo, k) => c.kind = k \/ Has(Tail(doing[g].todo), k)
  BY <1>1, <1>2, HasTail
<1>4. /\ doing' \in [{Signal} \cup Timers -> Doing] /\ Stopping' = Stopping
      /\ doing'[g].todo = Tail(doing[g].todo)
  <2>1. [at |-> "stop", todo |-> Tail(doing[g].todo)] \in Doing
    BY <1>3 DEF Doing
  <2> QED BY <1>2, <2>1 DEF Neat, Stopping
<1>5. status = 0 /\ Stopping = {g} /\ ~Starting /\ ~Starting'
      /\ doing'[Signal].at \notin {"cpu", "mem"}
  BY <1>1, <1>2 DEF Neat, Starting
<1>6. \A k : ToClose(k) => c.kind = k \/ ToClose(k)'
  BY <1>1, <1>3, <1>4, <1>5 DEF ToClose
<1>7. memRate' = Default \/ ToClose("mem")'
  <2>1. memRate' = IF c.kind = "mem" THEN c.old ELSE memRate
    BY DEF RunCloser
  <2>2. c.kind = "mem" => c.old = Default
    BY <1>3 DEF Closer
  <2> QED BY <1>6, <2>1, <2>2 DEF Neat
<1>8. Neat'
  BY <1>1, <1>4, <1>5, <1>7 DEF Neat
<1> QED BY <1>6, <1>8

(* The stop is over: nothing is left to close. *)
LEMMA TellsStep == ASSUME Neat, NEW g, StopTells(g) PROVE Keeps
<1> USE DEF Keeps
<1>1. g \in Stopping /\ doing[g].todo = <<>> /\ UNCHANGED <<status, closeFns, memRate>>
  BY DEF StopTells
<1>2. /\ g \in {Signal} \cup Timers /\ doing[g].at = "stop"
  BY <1>1, DoingFields DEF Neat
<1>3. status = 0 /\ Stopping = {g} /\ \A k : ~ToClose(k)
  BY <1>1, HasNone DEF Neat, ToClose
<1>4. [at |-> "idle"] \in Doing
  BY DEF Doing
<1>5. /\ doing' \in [{Signal} \cup Timers -> Doing] /\ Stopping' = {}
      /\ doing'[Signal].at \notin {"cpu", "mem", "go"}
  <2>0. doing[Signal].at \notin {"cpu", "mem", "go"}
    BY <1>3 DEF Neat, Starting
  <2>1. CASE doing' = [doing EXCEPT ![g] = [at |-> "idle"]]
    BY <2>0, <2>1, <1>2, <1>3, <1>4 DEF Neat, Stopping
  <2>2. ASSUME NEW t \in Timers,
               doing' = [doing EXCEPT ![g] = [at |-> "idle"], ![t] = [at |-> "idle"]]
        PROVE  /\ doing' \in [{Signal} \cup Timers -> Doing] /\ Stopping' = {}
               /\ doing'[Signal].at \notin {"cpu", "mem", "go"}
    BY <2>0, <2>2, <1>2, <1>3, <1>4 DEF Neat, Stopping
  <2> QED BY <2>1, <2>2 DEF StopTells, Sets
<1> QED BY <1>1, <1>3, <1>5 DEF Neat, Starting

LEMMA RestoreInitial == AppInit => RestoreInv
<1> SUFFICES ASSUME AppInit PROVE RestoreInv
  OBVIOUS
<1>1. Neat
  <2>1. /\ status = 0 /\ closeFns = <<>> /\ memRate = Default
        /\ doing = [g \in {Signal} \cup Timers |-> [at |-> "idle"]]
    BY DEF AppInit, ProfInit
  <2>2. [at |-> "idle"] \in Doing /\ <<>> \in Seq(Closer)
    BY DEF Doing
  <2> QED BY <2>1, <2>2 DEF Neat, Stopping, Starting
<1>2. switched # "on"
  BY DEF AppInit, ProfInit
<1> QED BY <1>1, <1>2 DEF RestoreInv

(* A step of the profiler, whoever takes it. *)
LEMMA RestoreMoves ==
  ASSUME RestoreInv,
         \/ StartCAS \/ StopCAS \/ SignalStep
         \/ \E t \in Timers : TimerStep(t)
  PROVE  RestoreInv'
<1> SUFFICES ASSUME ~overlapped' PROVE Neat' /\ (switched' = "on" => ToClose("cpu")')
  BY DEF RestoreInv
<1>1. ~overlapped
  BY DEF StartCAS, StopCAS, SignalStep, TimerStep, StartCpu, StartMem, StartTimer, RunCloser,
     StopTells, TimerWaits, Timeout
<1>2. Neat /\ (switched = "on" => ToClose("cpu"))
  BY <1>1 DEF RestoreInv
<1>3. ASSUME Keeps, UNCHANGED switched PROVE Neat' /\ (switched' = "on" => ToClose("cpu")')
  BY <1>2, <1>3 DEF Keeps
<1>4. CASE StartCAS
  <2>1. Stopping = {} /\ UNCHANGED switched
    BY <1>4 DEF StartCAS
  <2> QED BY <1>2, <1>3, <1>4, <2>1, StartSteps
<1>5. CASE StopCAS
  <2>1. ~Starting
    BY <1>5 DEF StopCAS, Rest, Starting
  <2>2. /\ status = 1 /\ status' = 0 /\ StopFrom(Signal) /\ UNCHANGED <<closeFns, memRate>>
        /\ Signal \in {Signal} \cup Timers
    BY <1>5 DEF StopCAS
  <2>3. Keeps
    BY <1>2, <2>1, <2>2, StopBegins DEF Keeps
  <2> QED BY <1>3, <1>5, <2>3 DEF StopCAS
<1>6. CASE StartCpu
  <2>1. Keeps /\ (UNCHANGED switched \/ ToClose("cpu")')
    BY <1>2, <1>6, StartSteps
  <2> QED BY <1>3, <2>1 DEF Keeps
<1>7. CASE StartMem \/ StartTimer
  BY <1>2, <1>3, <1>7, StartSteps DEF StartMem, StartTimer
<1>8. ASSUME NEW t \in Timers, TimerWaits(t) \/ Timeout(t)
      PROVE  Neat' /\ (switched' = "on" => ToClose("cpu")')
  <2>1. Timeout(t) => (status = 1 => Rest(Signal))
    BY DEF Timeout
  <2>2. UNCHANGED switched
    BY <1>8 DEF TimerWaits, Timeout
  <2> QED BY <1>2, <1>3, <1>8, <2>1, <2>2, TimerSteps
<1>9. ASSUME NEW g, RunCloser(g) PROVE Neat' /\ (switched' = "on" => ToClose("cpu")')
  <2>1. switched' = "on" => switched = "on" /\ Head(doing[g].todo).kind # "cpu"
    BY <1>9 DEF RunCloser
  <2>2. /\ Neat'
        /\ ToClose("cpu") => Head(doing[g].todo).kind = "cpu" \/ ToClose("cpu")'
    BY <1>2, <1>9, CloserStep
  <2> QED BY <1>2, <2>1, <2>2
<1>10. ASSUME NEW g, StopTells(g) PROVE Neat' /\ (switched' = "on" => ToClose("cpu")')
  <2>1. UNCHANGED switched
    BY <1>10 DEF StopTells
  <2> QED BY <1>2, <1>3, <1>10, <2>1, TellsStep
<1> QED
  BY <1>4, <1>5, <1>6, <1>7, <1>8, <1>9, <1>10 DEF SignalStep, TimerStep

LEMMA RestoreStep == ASSUME RestoreInv, [AppNext]_appVars PROVE RestoreInv'
<1>1. CASE UNCHANGED profVars
  <2>1. UNCHANGED <<status, closeFns, memRate, doing>> /\ UNCHANGED <<switched, overlapped>>
    BY <1>1 DEF profVars
  <2>2. (Neat' <=> Neat) /\ (ToClose("cpu")' <=> ToClose("cpu"))
    BY <2>1 DEF Neat, ToClose, Stopping, Starting
  <2> QED BY <2>1, <2>2 DEF RestoreInv
<1>2. CASE WatchTrap
  BY <1>2, RestoreMoves DEF WatchTrap
<1>3. CASE ProfSignal \/ \E t \in Timers : ProfTimer(t)
  BY <1>3, RestoreMoves DEF ProfSignal, ProfTimer
<1>4. CASE \E s \in Servers : ServerFails(s) \/ ServerReturns(s)
  BY <1>1, <1>4 DEF ServerFails, ServerReturns
<1>5. CASE \E k \in Kinds : SendSignal(k)
  BY <1>1, <1>5 DEF SendSignal
<1>6. CASE WatchCtx \/ WatchTerm
  BY <1>1, <1>6 DEF WatchCtx, WatchTerm, BeginStop
<1>7. CASE CloseNext \/ CloseFails \/ StopDone \/ RunReturns
  BY <1>1, <1>7 DEF CloseNext, CloseFails, StopDone, RunReturns
<1>8. CASE UNCHANGED appVars
  BY <1>1, <1>8 DEF appVars
<1> QED BY <1>2, <1>3, <1>4, <1>5, <1>6, <1>7, <1>8 DEF AppNext

(* Between sessions the program has its own settings, over any number of   *)
(* sessions, timers, failed files and signals, unless a start and a stop   *)
(* ran at the same time (StartOrStop, stopProfile, checkTimeout).          *)
THEOREM ProfilerRestores == AppSpec => []SettingsRestored
<1>1. RestoreInv => SettingsRestored
  <2> SUFFICES ASSUME RestoreInv, status = 0, Stopping = {}, ~overlapped
               PROVE  memRate = Default /\ switched # "on"
    BY DEF SettingsRestored
  <2>1. \A k : ~ToClose(k)
    BY DEF ToClose
  <2> QED BY <2>1 DEF RestoreInv, Neat
<1> QED BY <1>1, RestoreInitial, RestoreStep, PTL DEF AppSpec

-----------------------------------------------------------------------------
(* Discovery.  No update is lost between Watch and broadcast, and no        *)
(* resolver goes back to an older list, for any number of resolvers,        *)
(* instances and changes in Consul.                                         *)
(* Before its Watch returns, a resolver has seen nothing, is not closed and *)
(* has no resolve loop.                                                     *)
FreshInv ==
  \A w \in Resolvers :
     at[w] \in InWatch \cup {"new"}
     => got[w] = NoList /\ ~cancelled[w] /\ resolve[w].at = "off"

(* From registration to Stop a resolver is in the watcher map. *)
RegisteredInv ==
  \A w \in Resolvers :
     at[w] \in {"load", "send", "unlock", "next", "loadNext", "update"} /\ ~cancelled[w]
     => w \in watchers

(* An empty list is never stored. *)
StoredInv ==
  /\ services.list = {} => services = NoList
  /\ \A v \in Resolvers : resolve[v].at = "store" => resolve[v].answer.list # {}

Notifying == \E v \in Resolvers : resolve[v].at = "notify"

(* NoLostUpdate, from the moment Watch has decided whether to send. *)
PendingInv ==
  \A w \in Resolvers :
     (at[w] = "unlock" \/ Watching(w)) /\ got[w] # services
     => event[w] \/ at[w] = "loadNext" \/ Notifying

UpdateInv == DiscoveryTypeOK /\ FreshInv /\ RegisteredInv /\ StoredInv /\ PendingInv

Active(v) == first[v] \/ resolve[v].at # "off"

(* Only one Watch has started, or will start, a resolve loop. *)
OneLoopInv ==
  /\ \A v \in Resolvers : Active(v) => created
  /\ \A v \in Resolvers : first[v] => at[v] \in {"add", "load", "send", "unlock"}
  /\ \A u, v \in Resolvers : Active(u) /\ Active(v) => u = v

(* Lists only get newer on their way from Consul to a resolver. *)
IndexInv ==
  /\ services.index <= catalog.index
  /\ \A v \in Resolvers : resolve[v].at \in {"store", "notify"}
        => /\ services.index <= resolve[v].answer.index
           /\ resolve[v].answer.index <= catalog.index
  /\ \A w \in Resolvers : got[w].index <= services.index

OrderInv == DiscoveryTypeOK /\ OneLoopInv /\ IndexInv

-----------------------------------------------------------------------------

(* The initial values are of the right types. *)
LEMMA TypeInit == DiscoveryInit => DiscoveryTypeOK
<1> SUFFICES ASSUME DiscoveryInit PROVE DiscoveryTypeOK
  OBVIOUS
<1>1. catalog \in ListType
  BY DiscoveryAssumption DEF DiscoveryInit, ListType
<1>2. NoList \in ListType
  BY DEF NoList, ListType
<1>3. NoLoop \in LoopType
  BY <1>2 DEF NoLoop, LoopType
<1> QED
  BY <1>1, <1>2, <1>3 DEF DiscoveryInit, DiscoveryTypeOK, Places, InWatch

(* A resolve loop goes on to another place and keeps its index and answer. *)
LEMMA LoopMoves ==
  ASSUME resolve \in [Resolvers -> LoopType], NEW w \in Resolvers,
         NEW p \in {"off", "first", "ask", "store", "notify"},
         resolve' = [resolve EXCEPT ![w].at = p]
  PROVE  /\ resolve' \in [Resolvers -> LoopType]
         /\ resolve'[w].at = p /\ resolve'[w].answer = resolve[w].answer
         /\ \A v \in Resolvers \ {w} : resolve'[v] = resolve[v]
<1> DEFINE r == [resolve[w] EXCEPT !.at = p]
<1>1. resolve[w] \in LoopType
  OBVIOUS
<1>2. r \in LoopType /\ r.at = p /\ r.answer = resolve[w].answer
  BY <1>1 DEF LoopType
<1>3. resolve' = [resolve EXCEPT ![w] = r]
  OBVIOUS
<1> HIDE DEF r
<1> QED
  BY <1>2, <1>3

(* Every step keeps the types. *)
LEMMA TypeStep ==
  DiscoveryTypeOK /\ [DiscoveryNext]_discoveryVars => DiscoveryTypeOK'
<1> SUFFICES ASSUME DiscoveryTypeOK, [DiscoveryNext]_discoveryVars PROVE DiscoveryTypeOK'
  OBVIOUS
<1> USE DEF DiscoveryTypeOK, ListType, LoopType, Places, InWatch, NoList
<1>1. CASE Change
  BY <1>1, DiscoveryAssumption DEF Change, resolveVars, registryVars, resolverVars
<1>2. ASSUME NEW w \in Resolvers, FirstQuery(w) PROVE DiscoveryTypeOK'
  BY <1>2 DEF FirstQuery, Goto, resolveVars, registryVars, resolverVars
<1>3. ASSUME NEW w \in Resolvers, FirstFails(w) PROVE DiscoveryTypeOK'
  <2>1. resolve' \in [Resolvers -> LoopType]
    BY <1>3, LoopMoves DEF FirstFails
  <2> QED
    BY <1>3, <2>1 DEF FirstFails, Goto, resolveVars, registryVars, resolverVars
<1>4. ASSUME NEW w \in Resolvers, Query(w) PROVE DiscoveryTypeOK'
  BY <1>4 DEF Query, Goto, resolveVars, registryVars, resolverVars
<1>5. ASSUME NEW w \in Resolvers, Store(w) PROVE DiscoveryTypeOK'
  <2>1. resolve' \in [Resolvers -> LoopType]
    BY <1>5, LoopMoves DEF Store
  <2>2. services' \in ListType
    BY <1>5 DEF Store
  <2> QED
    BY <1>5, <2>1, <2>2 DEF Store, Goto, resolveVars, registryVars, resolverVars
<1>6. ASSUME NEW w \in Resolvers, Notify(w) PROVE DiscoveryTypeOK'
  <2>1. resolve' \in [Resolvers -> LoopType]
    BY <1>6, LoopMoves DEF Notify
  <2> QED
    BY <1>6, <2>1 DEF Notify, Goto, resolveVars, registryVars, resolverVars
<1>7. ASSUME NEW w \in Resolvers, WatchLock(w) PROVE DiscoveryTypeOK'
  BY <1>7 DEF WatchLock, Goto, FirstWatch, resolveVars, registryVars, resolverVars
<1>8. ASSUME NEW w \in Resolvers, WatchAdd(w) PROVE DiscoveryTypeOK'
  BY <1>8 DEF WatchAdd, Goto, resolveVars, registryVars, resolverVars
<1>9. ASSUME NEW w \in Resolvers, WatchLoad(w) PROVE DiscoveryTypeOK'
  BY <1>9 DEF WatchLoad, Goto, resolveVars, registryVars, resolverVars
<1>10. ASSUME NEW w \in Resolvers, WatchSend(w) PROVE DiscoveryTypeOK'
  BY <1>10 DEF WatchSend, Goto, resolveVars, registryVars, resolverVars
<1>11. ASSUME NEW w \in Resolvers, WatchReturn(w) PROVE DiscoveryTypeOK'
  <2>1. resolve' \in [Resolvers -> LoopType]
    BY <1>11, LoopMoves DEF WatchReturn
  <2> QED
    BY <1>11, <2>1 DEF WatchReturn, Goto, resolveVars, registryVars, resolverVars
<1>12. ASSUME NEW w \in Resolvers, Next(w) PROVE DiscoveryTypeOK'
  BY <1>12 DEF Next, Goto, resolveVars, registryVars, resolverVars
<1>13. ASSUME NEW w \in Resolvers, NextLoad(w) PROVE DiscoveryTypeOK'
  BY <1>13 DEF NextLoad, Goto, resolveVars, registryVars, resolverVars
<1>14. ASSUME NEW w \in Resolvers, Update(w) PROVE DiscoveryTypeOK'
  BY <1>14 DEF Update, Goto, Endpoints, resolveVars, registryVars, resolverVars
<1>15. ASSUME NEW w \in Resolvers, NextCancelled(w) PROVE DiscoveryTypeOK'
  BY <1>15 DEF NextCancelled, Goto, resolveVars, registryVars, resolverVars
<1>16. ASSUME NEW w \in Resolvers, Build(w) PROVE DiscoveryTypeOK'
  BY <1>16 DEF Build, Goto, resolveVars, registryVars, resolverVars
<1>17. ASSUME NEW w \in Resolvers, BuildTimeout(w) PROVE DiscoveryTypeOK'
  BY <1>17 DEF BuildTimeout, Goto, resolveVars, registryVars, resolverVars
<1>18. ASSUME NEW w \in Resolvers, Close(w) PROVE DiscoveryTypeOK'
  BY <1>18 DEF Close, Goto, resolveVars, registryVars, resolverVars
<1>19. ASSUME NEW w \in Resolvers, Stop(w) PROVE DiscoveryTypeOK'
  BY <1>19 DEF Stop, Goto, resolveVars, registryVars, resolverVars
<1>20. CASE UNCHANGED discoveryVars
  BY <1>20 DEF discoveryVars, resolveVars, registryVars, resolverVars
<1> QED
  BY <1>1, <1>2, <1>3, <1>4, <1>5, <1>6, <1>7, <1>8, <1>9, <1>10, <1>11, <1>12,
     <1>13, <1>14, <1>15, <1>16, <1>17, <1>18, <1>19, <1>20 DEF DiscoveryNext,
     ResolveStep, WatchStep, LoopStep

(* The variables keep their types (every action of the registry and of the  *)
(* resolvers).                                                              *)
THEOREM DiscoveryTypeCorrect == DiscoverySpec => []DiscoveryTypeOK
BY TypeInit, TypeStep, PTL DEF DiscoverySpec

-----------------------------------------------------------------------------
(* The invariant behind NoLostUpdate holds before anything is built. *)
LEMMA UpdateInit == DiscoveryInit => UpdateInv
BY TypeInit DEF DiscoveryInit, UpdateInv, FreshInv, RegisteredInv, StoredInv, PendingInv,
                Watching, Notifying, InWatch, NoLoop, NoList

(* Every step keeps the invariant behind NoLostUpdate. *)
LEMMA UpdateStep ==
  UpdateInv /\ DiscoveryTypeOK' /\ [DiscoveryNext]_discoveryVars => UpdateInv'
<1> SUFFICES ASSUME UpdateInv, DiscoveryTypeOK', [DiscoveryNext]_discoveryVars PROVE UpdateInv'
  OBVIOUS
<1> USE DEF UpdateInv, FreshInv, RegisteredInv, StoredInv, PendingInv, Watching,
            Notifying, DiscoveryTypeOK, ListType, LoopType, Places, InWatch, NoList,
            Goto, resolveVars, registryVars, resolverVars
<1>1. CASE Change
  BY <1>1 DEF Change
<1>2. ASSUME NEW w \in Resolvers, FirstQuery(w) PROVE UpdateInv'
  BY <1>2 DEF FirstQuery
<1>3. ASSUME NEW w \in Resolvers, FirstFails(w) PROVE UpdateInv'
  BY <1>3 DEF FirstFails
<1>4. ASSUME NEW w \in Resolvers, Query(w) PROVE UpdateInv'
  BY <1>4 DEF Query
<1>5. ASSUME NEW w \in Resolvers, Store(w) PROVE UpdateInv'
  <2>1. FreshInv'
    BY <1>5 DEF Store
  <2>2. RegisteredInv'
    BY <1>5 DEF Store
  <2>3. StoredInv'
    BY <1>5 DEF Store
  <2>4. PendingInv'
    BY <1>5 DEF Store
  <2> QED
    BY <2>1, <2>2, <2>3, <2>4
<1>6. ASSUME NEW w \in Resolvers, Notify(w) PROVE UpdateInv'
  <2>1. FreshInv'
    BY <1>6 DEF Notify
  <2>2. RegisteredInv'
    BY <1>6 DEF Notify
  <2>3. StoredInv'
    BY <1>6 DEF Notify
  <2>4. PendingInv'
    BY <1>6 DEF Notify
  <2> QED
    BY <2>1, <2>2, <2>3, <2>4
<1>7. ASSUME NEW w \in Resolvers, WatchLock(w) PROVE UpdateInv'
  BY <1>7 DEF WatchLock, FirstWatch
<1>8. ASSUME NEW w \in Resolvers, WatchAdd(w) PROVE UpdateInv'
  BY <1>8 DEF WatchAdd
<1>9. ASSUME NEW w \in Resolvers, WatchLoad(w) PROVE UpdateInv'
  BY <1>9 DEF WatchLoad
<1>10. ASSUME NEW w \in Resolvers, WatchSend(w) PROVE UpdateInv'
  BY <1>10 DEF WatchSend
<1>11. ASSUME NEW w \in Resolvers, WatchReturn(w) PROVE UpdateInv'
  <2>1. PendingInv'
    <3>1. \A v \in Resolvers : resolve[v].at = "notify" => resolve'[v].at = "notify"
      <4>1. CASE first[w]
        <5>1. \A v \in Resolvers \ {w} : resolve'[v] = resolve[v]
          BY <1>11, <4>1, LoopMoves DEF WatchReturn, UpdateInv, DiscoveryTypeOK
        <5>2. resolve[w].at = "off"
          BY <1>11 DEF WatchReturn, UpdateInv, FreshInv, InWatch
        <5> QED
          BY <5>1, <5>2
      <4> QED
        BY <1>11, <4>1 DEF WatchReturn
    <3>2. Notifying => Notifying'
      BY <3>1 DEF Notifying
    <3>3. /\ got' = got /\ services' = services /\ event' = event /\ cancelled' = cancelled
          /\ \A v \in Resolvers \ {w} : at'[v] = at[v]
          /\ at[w] = "unlock" /\ at'[w] # "unlock" /\ at'[w] # "loadNext"
      BY <1>11 DEF WatchReturn, Goto, UpdateInv, DiscoveryTypeOK
    <3> QED
      BY <3>2, <3>3 DEF UpdateInv, PendingInv, Watching
  <2>2. FreshInv'
    BY <1>11 DEF WatchReturn
  <2>3. RegisteredInv'
    BY <1>11 DEF WatchReturn
  <2>4. StoredInv'
    BY <1>11 DEF WatchReturn
  <2> QED
    BY <2>1, <2>2, <2>3, <2>4
<1>12. ASSUME NEW w \in Resolvers, Next(w) PROVE UpdateInv'
  BY <1>12 DEF Next
<1>13. ASSUME NEW w \in Resolvers, NextLoad(w) PROVE UpdateInv'
  BY <1>13 DEF NextLoad
<1>14. ASSUME NEW w \in Resolvers, Update(w) PROVE UpdateInv'
  BY <1>14 DEF Update, Endpoints
<1>15. ASSUME NEW w \in Resolvers, NextCancelled(w) PROVE UpdateInv'
  BY <1>15 DEF NextCancelled
<1>16. ASSUME NEW w \in Resolvers, Build(w) PROVE UpdateInv'
  BY <1>16 DEF Build
<1>17. ASSUME NEW w \in Resolvers, BuildTimeout(w) PROVE UpdateInv'
  BY <1>17 DEF BuildTimeout
<1>18. ASSUME NEW w \in Resolvers, Close(w) PROVE UpdateInv'
  BY <1>18 DEF Close
<1>19. ASSUME NEW w \in Resolvers, Stop(w) PROVE UpdateInv'
  BY <1>19 DEF Stop
<1>20. CASE UNCHANGED discoveryVars
  BY <1>20 DEF discoveryVars
<1> QED
  BY <1>1, <1>2, <1>3, <1>4, <1>5, <1>6, <1>7, <1>8, <1>9, <1>10, <1>11, <1>12,
     <1>13, <1>14, <1>15, <1>16, <1>17, <1>18, <1>19, <1>20 DEF DiscoveryNext,
     ResolveStep, WatchStep, LoopStep

(* No update is lost between Watch and broadcast.  A list that is stored    *)
(* after a new watcher has loaded finds it in the map; one stored before is *)
(* what it loads (Registry.Watch, serviceSet.broadcast, watcher.Next).      *)
THEOREM DiscoveryNoLostUpdate == DiscoverySpec => []NoLostUpdate
<1>1. UpdateInv => NoLostUpdate
  BY DEF UpdateInv, PendingInv, NoLostUpdate, Notifying
<1>2. UpdateInv /\ [DiscoveryNext]_discoveryVars => UpdateInv'
  BY UpdateStep, TypeStep DEF UpdateInv
<1> QED
  BY UpdateInit, <1>1, <1>2, PTL DEF DiscoverySpec

-----------------------------------------------------------------------------
(* The invariant behind NeverBackwards holds before anything is built. *)
LEMMA OrderInit == DiscoveryInit => OrderInv
BY TypeInit DEF DiscoveryInit, OrderInv, OneLoopInv, IndexInv, Active, NoLoop, NoList

(* Every step keeps the invariant behind NeverBackwards. *)
LEMMA OrderStep ==
  OrderInv /\ DiscoveryTypeOK' /\ [DiscoveryNext]_discoveryVars => OrderInv'
<1> SUFFICES ASSUME OrderInv, DiscoveryTypeOK', [DiscoveryNext]_discoveryVars PROVE OrderInv'
  OBVIOUS
<1> USE DEF OrderInv, OneLoopInv, IndexInv, Active, DiscoveryTypeOK, ListType,
            LoopType, Places, InWatch, NoList, Goto, resolveVars, registryVars,
            resolverVars
<1>1. CASE Change
  BY <1>1 DEF Change
<1>2. ASSUME NEW w \in Resolvers, FirstQuery(w) PROVE OrderInv'
  BY <1>2 DEF FirstQuery
<1>3. ASSUME NEW w \in Resolvers, FirstFails(w) PROVE OrderInv'
  <2>1. OneLoopInv'
    BY <1>3 DEF FirstFails
  <2>2. IndexInv'
    BY <1>3 DEF FirstFails
  <2> QED
    BY <2>1, <2>2
<1>4. ASSUME NEW w \in Resolvers, Query(w) PROVE OrderInv'
  BY <1>4 DEF Query
<1>5. ASSUME NEW w \in Resolvers, Store(w) PROVE OrderInv'
  <2>1. IndexInv'
    <3>1. /\ resolve'[w].answer = resolve[w].answer
          /\ \A v \in Resolvers \ {w} : resolve'[v] = resolve[v]
      BY <1>5, LoopMoves DEF Store, OrderInv, DiscoveryTypeOK
    <3>2. \A v \in Resolvers \ {w} : resolve[v].at = "off"
      BY <1>5 DEF Store, OrderInv, OneLoopInv, Active
    <3>3. /\ services.index <= resolve[w].answer.index
          /\ resolve[w].answer.index <= catalog.index
      BY <1>5 DEF Store, OrderInv, IndexInv
    <3>4. /\ services'.index = resolve[w].answer.index /\ catalog' = catalog /\ got' = got
          /\ services'.index \in Nat /\ services.index \in Nat
          /\ \A v \in Resolvers : got[v].index \in Nat
      BY <1>5 DEF Store, resolverVars, OrderInv, DiscoveryTypeOK, ListType
    <3>5. \A v \in Resolvers : got'[v].index <= services'.index
      BY <3>3, <3>4 DEF OrderInv, IndexInv
    <3> HIDE DEF OrderInv, OneLoopInv, DiscoveryTypeOK
    <3> QED
      BY <3>1, <3>2, <3>3, <3>4, <3>5 DEF IndexInv
  <2>2. OneLoopInv'
    BY <1>5 DEF Store
  <2> QED
    BY <2>1, <2>2
<1>6. ASSUME NEW w \in Resolvers, Notify(w) PROVE OrderInv'
  <2>1. OneLoopInv'
    BY <1>6 DEF Notify
  <2>2. IndexInv'
    BY <1>6 DEF Notify
  <2> QED
    BY <2>1, <2>2
<1>7. ASSUME NEW w \in Resolvers, WatchLock(w) PROVE OrderInv'
  BY <1>7 DEF WatchLock, FirstWatch
<1>8. ASSUME NEW w \in Resolvers, WatchAdd(w) PROVE OrderInv'
  BY <1>8 DEF WatchAdd
<1>9. ASSUME NEW w \in Resolvers, WatchLoad(w) PROVE OrderInv'
  BY <1>9 DEF WatchLoad
<1>10. ASSUME NEW w \in Resolvers, WatchSend(w) PROVE OrderInv'
  BY <1>10 DEF WatchSend
<1>11. ASSUME NEW w \in Resolvers, WatchReturn(w) PROVE OrderInv'
  BY <1>11 DEF WatchReturn
<1>12. ASSUME NEW w \in Resolvers, Next(w) PROVE OrderInv'
  BY <1>12 DEF Next
<1>13. ASSUME NEW w \in Resolvers, NextLoad(w) PROVE OrderInv'
  BY <1>13 DEF NextLoad
<1>14. ASSUME NEW w \in Resolvers, Update(w) PROVE OrderInv'
  BY <1>14 DEF Update, Endpoints
<1>15. ASSUME NEW w \in Resolvers, NextCancelled(w) PROVE OrderInv'
  BY <1>15 DEF NextCancelled
<1>16. ASSUME NEW w \in Resolvers, Build(w) PROVE OrderInv'
  BY <1>16 DEF Build
<1>17. ASSUME NEW w \in Resolvers, BuildTimeout(w) PROVE OrderInv'
  BY <1>17 DEF BuildTimeout
<1>18. ASSUME NEW w \in Resolvers, Close(w) PROVE OrderInv'
  BY <1>18 DEF Close
<1>19. ASSUME NEW w \in Resolvers, Stop(w) PROVE OrderInv'
  BY <1>19 DEF Stop
<1>20. CASE UNCHANGED discoveryVars
  BY <1>20 DEF discoveryVars
<1> QED
  BY <1>1, <1>2, <1>3, <1>4, <1>5, <1>6, <1>7, <1>8, <1>9, <1>10, <1>11, <1>12,
     <1>13, <1>14, <1>15, <1>16, <1>17, <1>18, <1>19, <1>20 DEF DiscoveryNext,
     ResolveStep, WatchStep, LoopStep

(* A resolver never goes back to an older list: there is one resolve loop   *)
(* for a service, and it stores what Consul answers in order.               *)
THEOREM DiscoveryNeverBackwards == DiscoverySpec => NeverBackwards
<1>1. OrderInv /\ [DiscoveryNext]_discoveryVars => OrderInv'
  BY OrderStep, TypeStep DEF OrderInv
<1>2. OrderInv /\ [DiscoveryNext]_discoveryVars
      => [\A w \in Resolvers : got'[w].index >= got[w].index]_discoveryVars
  <2> SUFFICES ASSUME OrderInv, [DiscoveryNext]_discoveryVars,
                      NEW w \in Resolvers
               PROVE  got'[w].index >= got[w].index
    OBVIOUS
  <2> USE DEF OrderInv, DiscoveryTypeOK, ListType
  <2>1. CASE \E v \in Resolvers : NextLoad(v)
    BY <2>1 DEF NextLoad, IndexInv
  <2>2. CASE got' = got
    BY <2>2
  <2> QED
    BY <2>1, <2>2
       DEF DiscoveryNext, ResolveStep, WatchStep, LoopStep, Change, resolveVars,
           registryVars, resolverVars, discoveryVars, FirstQuery, FirstFails, Query, Store,
           Notify, WatchLock, WatchAdd, WatchLoad, WatchSend, WatchReturn, Next, Update,
           NextCancelled, Build, BuildTimeout, Close, Stop
<1> QED
  BY OrderInit, <1>1, <1>2, PTL DEF DiscoverySpec, NeverBackwards

=============================================================================
