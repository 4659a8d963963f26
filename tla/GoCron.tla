------------------------------- MODULE GoCron -------------------------------
(***************************************************************************)
(* The named tasks of pkg/gocron: Run, DeleteTask and run-once tasks over  *)
(* the entries of robfig/cron and two sync.Maps.  Each access to a map or  *)
(* to the scheduler is a step of its own: Run and DeleteTask hold no lock. *)
(*                                                                         *)
(* The scheduler runs every firing of an entry in a goroutine of its own;  *)
(* the next firing does not wait for it.                                   *)
(*                                                                         *)
(* `fired' and `overlap' are history variables: the entries whose function *)
(* was begun, and whether two calls of Run, or of DeleteTask, were at work *)
(* on one name at the same time.                                           *)
(***************************************************************************)
EXTENDS Naturals

CONSTANTS Users,      \* goroutines that call Run and DeleteTask
          Names,      \* task names
          RunOnce,    \* the names whose tasks have IsRunOnce
          MaxEntries, \* bound: calls of AddFunc that succeed
          MaxJobs     \* bound: jobs of one entry that run at the same time

ASSUME CronAssumption == /\ RunOnce \subseteq Names /\ MaxEntries \in Nat
                         /\ MaxJobs \in Nat \ {0}

IDs  == 1 .. MaxEntries
Jobs == IDs \X (1 .. MaxJobs)

VARIABLES entries,   \* the scheduler's entries
          nameOf,    \* the task name an entry was added for (Task.Name)
          nameID,    \* name -> id, 0 if none
          idName,    \* the ids with a name
          proc,      \* what each user and each job does
          cronOn,    \* the scheduler runs
          nextID, fired, overlap

cronVars == <<entries, nameOf, nameID, idName, proc, cronOn, nextID, fired, overlap>>

Procs       == Users \cup Jobs
Resting     == [at |-> "idle"]
Become(p, d) == proc' = [proc EXCEPT ![p] = d]
Adding(n)   == {p \in Procs : proc[p].at \in {"add", "idName", "nameID"} /\ proc[p].name = n}
Deleting(n) == {p \in Procs : proc[p].at \in {"remove", "name"} /\ proc[p].name = n}

-----------------------------------------------------------------------------
(* Run: IsRunningTask, then checkRunOnce. *)
CallRun(u, n) ==
  /\ proc[u] = Resting /\ nameID[n] = 0
  /\ Become(u, [at |-> "add", name |-> n])
  /\ overlap' = (overlap \/ Adding(n) # {})
  /\ UNCHANGED <<entries, nameOf, nameID, idName, cronOn, nextID, fired>>

(* c.AddFunc: the time specification is wrong, or there is an entry more. *)
AddFunc(u) ==
  /\ proc[u].at = "add"
  /\ \/ Become(u, Resting) /\ UNCHANGED <<entries, nameOf, nextID>>
     \/ /\ nextID < MaxEntries /\ nextID' = nextID + 1
        /\ entries' = entries \cup {nextID'}
        /\ nameOf' = [nameOf EXCEPT ![nextID'] = proc[u].name]
        /\ Become(u, [at |-> "idName", name |-> proc[u].name, id |-> nextID'])
  /\ UNCHANGED <<nameID, idName, cronOn, fired, overlap>>

StoreIdName(u) ==
  /\ proc[u].at = "idName"
  /\ idName' = idName \cup {proc[u].id}
  /\ Become(u, [proc[u] EXCEPT !.at = "nameID"])
  /\ UNCHANGED <<entries, nameOf, nameID, cronOn, nextID, fired, overlap>>

StoreNameID(u) ==
  /\ proc[u].at = "nameID"
  /\ nameID' = [nameID EXCEPT ![proc[u].name] = proc[u].id]
  /\ Become(u, Resting)
  /\ UNCHANGED <<entries, nameOf, idName, cronOn, nextID, fired, overlap>>

(* The scheduler fires an entry. *)
Fire(id, k) ==
  /\ cronOn /\ id \in entries /\ proc[<<id, k>>] = Resting
  /\ Become(<<id, k>>, [at |-> "job", name |-> nameOf[id]])
  /\ fired' = fired \cup {id}
  /\ UNCHANGED <<entries, nameOf, nameID, idName, cronOn, nextID, overlap>>

(* The job returns; checkRunOnce's wrapper calls DeleteTask. *)
JobEnds(j) ==
  /\ proc[j].at = "job"
  /\ Become(j, IF proc[j].name \in RunOnce THEN [proc[j] EXCEPT !.at = "load"] ELSE Resting)
  /\ UNCHANGED <<entries, nameOf, nameID, idName, cronOn, nextID, fired, overlap>>

(* The job panics and cron.Recover ends it: the wrapper, which does not    *)
(* defer the call, never gets to DeleteTask.                               *)
JobPanics(j) ==
  /\ proc[j].at = "job"
  /\ Become(j, Resting)
  /\ UNCHANGED <<entries, nameOf, nameID, idName, cronOn, nextID, fired, overlap>>

(* A user calls DeleteTask. *)
CallDelete(u, n) ==
  /\ proc[u] = Resting /\ nameID[n] # 0
  /\ Become(u, [at |-> "load", name |-> n])
  /\ UNCHANGED <<entries, nameOf, nameID, idName, cronOn, nextID, fired, overlap>>

(* A slip: DeleteTask's test of what it loaded is the wrong way round. *)
DeleteLoadInverted(p) ==
  /\ proc[p].at = "load" /\ nameID[proc[p].name] # 0
  /\ Become(p, Resting)
  /\ UNCHANGED <<entries, nameOf, nameID, idName, cronOn, nextID, fired, overlap>>

(* DeleteTask: nameID.Load; without an id there is nothing to do. *)
DeleteLoad(p) ==
  LET n == proc[p].name IN
  /\ proc[p].at = "load"
  /\ IF nameID[n] = 0
     THEN Become(p, Resting) /\ UNCHANGED overlap
     ELSE /\ Become(p, [at |-> "remove", name |-> n, id |-> nameID[n]])
          /\ overlap' = (overlap \/ Deleting(n) # {})
  /\ UNCHANGED <<entries, nameOf, nameID, idName, cronOn, nextID, fired>>

DeleteRemove(p) ==
  /\ proc[p].at = "remove"
  /\ entries' = entries \ {proc[p].id}
  /\ Become(p, [proc[p] EXCEPT !.at = "name"])
  /\ UNCHANGED <<nameOf, nameID, idName, cronOn, nextID, fired, overlap>>

(* A slip: DeleteTask leaves the name. *)
DeleteNothing(p) ==
  /\ proc[p].at = "name"
  /\ Become(p, [proc[p] EXCEPT !.at = "id"])
  /\ UNCHANGED <<entries, nameOf, nameID, idName, cronOn, nextID, fired, overlap>>

DeleteName(p) ==
  /\ proc[p].at = "name"
  /\ nameID' = [nameID EXCEPT ![proc[p].name] = 0]
  /\ Become(p, [proc[p] EXCEPT !.at = "id"])
  /\ UNCHANGED <<entries, nameOf, idName, cronOn, nextID, fired, overlap>>

DeleteId(p) ==
  /\ proc[p].at = "id"
  /\ idName' = idName \ {proc[p].id}
  /\ Become(p, Resting)
  /\ UNCHANGED <<entries, nameOf, nameID, cronOn, nextID, fired, overlap>>

(* Stop: the scheduler fires no more. *)
CronStop ==
  /\ cronOn /\ cronOn' = FALSE
  /\ UNCHANGED <<entries, nameOf, nameID, idName, proc, nextID, fired, overlap>>

-----------------------------------------------------------------------------
CronInit ==
  /\ entries = {} /\ nameOf = [i \in IDs |-> ""]
  /\ nameID = [n \in Names |-> 0] /\ idName = {}
  /\ proc = [p \in Procs |-> Resting]
  /\ cronOn = TRUE /\ nextID = 0
  /\ fired = {} /\ overlap = FALSE

CronWork(p) == \/ DeleteLoad(p) \/ DeleteRemove(p) \/ DeleteName(p) \/ DeleteId(p)

UserStep(u) == AddFunc(u) \/ StoreIdName(u) \/ StoreNameID(u) \/ CronWork(u)
JobStep(j)  == JobEnds(j) \/ JobPanics(j) \/ CronWork(j)

CronNext ==
  \/ \E u \in Users : UserStep(u) \/ \E n \in Names : CallRun(u, n) \/ CallDelete(u, n)
  \/ \E j \in Jobs : JobStep(j) \/ Fire(j[1], j[2])
  \/ CronStop

(* Every call goes on, a job returns, an entry's time comes again and      *)
(* again.                                                                  *)
CronSpec ==
  /\ CronInit /\ [][CronNext]_cronVars
  /\ \A u \in Users : WF_cronVars(UserStep(u))
  /\ \A j \in Jobs : WF_cronVars(JobStep(j))
  /\ \A i \in IDs : WF_cronVars(Fire(i, 1))

-----------------------------------------------------------------------------
(* The names and the scheduler agree, in every interleaving of Run,        *)
(* DeleteTask and jobs.  A name that nobody is deleting stands for an      *)
(* entry: IsRunningTask never answers for a task that is gone.  An entry   *)
(* whose Run has returned is found, and so deleted, by its name, unless    *)
(* two calls of Run or of DeleteTask overlapped on that name: the later    *)
(* DeleteName then takes the name of a newer entry away.                   *)
NamesMatchEntries ==
  /\ \A n \in Names : nameID[n] # 0 /\ Deleting(n) = {} => nameID[n] \in entries
  /\ ~overlap => \A i \in entries :
       \/ nameID[nameOf[i]] = i
       \/ \E u \in Users : proc[u].at \in {"idName", "nameID"} /\ proc[u].id = i

Panics(i) == \E k \in 1 .. MaxJobs : JobPanics(<<i, k>>)

(* A run-once task leaves the schedule, also when it fired before Run had  *)
(* stored its name, or panicked: a later firing that returns deletes it    *)
(* (checkRunOnce).  One that panics again and again stays for ever, and so *)
(* does one whose name was lost to overlapping calls.                      *)
OnceLeaves ==
  \A i \in IDs :
    \/ i \in entries /\ nameOf[i] \in RunOnce ~> i \notin entries \/ overlap \/ ~cronOn
    \/ []<><<Panics(i)>>_cronVars

(* "if the task is only run once" (Task.IsRunOnce). *)
OnceRunsOnce ==
  [][\A j \in Jobs : Fire(j[1], j[2]) /\ nameOf[j[1]] \in RunOnce => j[1] \notin fired]_cronVars

=============================================================================
