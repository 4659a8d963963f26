----------------------------- MODULE ObjectGroup -----------------------------
(***************************************************************************)
(* The lazy container of pkg/container/group, which hands every route or   *)
(* method its circuit breaker: Get with its two critical sections, and     *)
(* Reset, which replaces the constructor and clears the objects in two     *)
(* more.  Lock and RLock each guard one step of the model.                 *)
(*                                                                         *)
(* An object is a record of its number and of the version of the           *)
(* constructor that made it.  `asked' and `clears' are history variables:  *)
(* the version a Get could count on when it began, and how many times the  *)
(* map was emptied.                                                        *)
(***************************************************************************)
EXTENDS Naturals

CONSTANTS Getters,    \* goroutines that call Get
          Keys,
          MaxGets,    \* bound: calls of Get
          MaxResets   \* bound: calls of Reset and of Clear

ASSUME GroupAssumption == MaxGets \in Nat /\ MaxResets \in Nat

VARIABLES newFn,      \* Group.new: the version of the constructor
          vals,       \* Group.vals: key -> object, a function with a growing domain
          getter,     \* where each Get is, and what it was called for
          resetter,   \* Reset: "idle" or between its two critical sections
          gets, resets, made,
          settled,    \* history: the version of the last Reset that returned
          clears,     \* history: how often the map was emptied
          handed      \* history: what Get has returned

groupVars == <<newFn, vals, getter, resetter, gets, resets, made, settled, clears, handed>>

Idle == [at |-> "idle"]

(* Get returns v to the caller. *)
Hand(g, v) ==
  /\ handed' = handed \cup {[key |-> getter[g].key, obj |-> v, era |-> clears,
                             asked |-> getter[g].asked]}
  /\ getter' = [getter EXCEPT ![g] = Idle]

-----------------------------------------------------------------------------
(* A caller enters Get. *)
CallGet(g, k) ==
  /\ getter[g] = Idle /\ gets < MaxGets
  /\ gets' = gets + 1
  /\ getter' = [getter EXCEPT ![g] = [at |-> "fast", key |-> k, asked |-> settled]]
  /\ UNCHANGED <<newFn, vals, resetter, resets, made, settled, clears, handed>>

(* Get, under RLock: the object is there, or the slow path. *)
GetFast(g) ==
  /\ getter[g].at = "fast"
  /\ IF getter[g].key \in DOMAIN vals
     THEN Hand(g, vals[getter[g].key])
     ELSE getter' = [getter EXCEPT ![g].at = "slow"] /\ UNCHANGED handed
  /\ UNCHANGED <<newFn, vals, resetter, gets, resets, made, settled, clears>>

(* vals[key] = new(), and hand it out. *)
Create(g) ==
  LET v == [id |-> made + 1, by |-> newFn]
      k == getter[g].key IN
  /\ made' = made + 1
  /\ vals' = [x \in DOMAIN vals \cup {k} |-> IF x = k THEN v ELSE vals[x]]
  /\ Hand(g, v)

(* A slip: the slow path does not look again. *)
GetSlowBlind(g) ==
  /\ getter[g].at = "slow"
  /\ Create(g)
  /\ UNCHANGED <<newFn, resetter, gets, resets, settled, clears>>

(* Get, under Lock: look again, then create. *)
GetSlow(g) ==
  /\ getter[g].at = "slow"
  /\ IF getter[g].key \in DOMAIN vals
     THEN Hand(g, vals[getter[g].key]) /\ UNCHANGED <<vals, made>>
     ELSE Create(g)
  /\ UNCHANGED <<newFn, resetter, gets, resets, settled, clears>>

(* Reset, first critical section: the constructor. *)
ResetNew ==
  /\ resetter = "idle" /\ resets < MaxResets
  /\ resets' = resets + 1
  /\ newFn' = newFn + 1
  /\ resetter' = "clear"
  /\ UNCHANGED <<vals, getter, gets, made, settled, clears, handed>>

(* Reset, second critical section: g.Clear(), and it returns. *)
ResetClear ==
  /\ resetter = "clear"
  /\ vals' = <<>>
  /\ clears' = clears + 1
  /\ resetter' = "idle" /\ settled' = newFn
  /\ UNCHANGED <<newFn, getter, gets, resets, made, handed>>

(* Clear, called by itself. *)
Clear ==
  /\ resetter = "idle" /\ resets < MaxResets
  /\ resets' = resets + 1
  /\ vals' = <<>>
  /\ clears' = clears + 1
  /\ UNCHANGED <<newFn, getter, resetter, gets, made, settled, handed>>

-----------------------------------------------------------------------------
GroupInit ==
  /\ newFn = 0 /\ vals = <<>>
  /\ getter = [g \in Getters |-> Idle]
  /\ resetter = "idle"
  /\ gets = 0 /\ resets = 0 /\ made = 0
  /\ settled = 0 /\ clears = 0 /\ handed = {}

GroupNext ==
  \/ \E g \in Getters : (\E k \in Keys : CallGet(g, k)) \/ GetFast(g) \/ GetSlow(g)
  \/ ResetNew \/ ResetClear \/ Clear

GroupSpec == GroupInit /\ [][GroupNext]_groupVars

-----------------------------------------------------------------------------
(* Two callers of Get hold the same object for a key when the map was not  *)
(* emptied between the two (Get: the second look under Lock).              *)
OneObjectPerKey ==
  \A x, y \in handed : x.key = y.key /\ x.era = y.era => x.obj = y.obj

(* Whoever calls Get after Reset has returned never gets an object of an   *)
(* older constructor, whatever ran between Reset's two critical sections   *)
(* (Reset: "resets the new function and deletes all existing objects").    *)
ResetIsFinal == \A x \in handed : x.obj.by >= x.asked

(* What Get hands out is coherent: one object for a key between two times  *)
(* the map is emptied, and after Reset none that an older constructor made *)
(* (Get and Reset, which each take the lock twice).                        *)
GetsCoherent == OneObjectPerKey /\ ResetIsFinal

=============================================================================
