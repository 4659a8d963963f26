------------------------- MODULE SharedStateProofs -------------------------
(* Proofs about components whose state is shared: the lazy container of    *)
(* objects, the refresh tokens and the merge of generated code.            *)
EXTENDS ObjectGroup, RefreshTokens, CodeMerge, FiniteSetTheorems, TLAPS

-----------------------------------------------------------------------------
(* The container.  What a Get may be doing. *)
GetterStates == [at : {"idle"}] \cup [at : {"fast", "slow"}, key : Keys, asked : Nat]
Objects      == [id : Nat, by : Nat]

GroupTypes ==
  /\ {newFn, made, settled, clears} \subseteq Nat /\ settled <= newFn
  /\ getter \in [Getters -> GetterStates]
  /\ handed \subseteq [key : Keys, obj : Objects, era : Nat, asked : Nat]

(* The map holds objects of the constructor of the last Reset that         *)
(* returned, or of a later one, and a Get counts on no later one.          *)
ValsCurrent ==
  /\ \A k \in DOMAIN vals : vals[k] \in Objects /\ vals[k].by >= settled
  /\ \A g \in Getters : getter[g].at # "idle" => getter[g].asked <= settled

(* What was handed out since the map was emptied is what the map holds. *)
HandedHeld ==
  \A h \in handed :
    /\ h.era <= clears
    /\ h.era = clears => h.key \in DOMAIN vals /\ vals[h.key] = h.obj

GroupInv == GroupTypes /\ ValsCurrent /\ HandedHeld /\ GetsCoherent

LEMMA NoVals == DOMAIN <<>> = {}
  OBVIOUS

(* A Get returns what the map now holds for its key. *)
LEMMA GetReturns ==
  ASSUME GroupInv, NEW g \in Getters, getter[g].at \in {"fast", "slow"},
         NEW v \in Objects, v.by >= settled, Hand(g, v),
         getter[g].key \in DOMAIN vals', vals'[getter[g].key] = v,
         \A k \in DOMAIN vals : k \in DOMAIN vals' /\ vals'[k] = vals[k],
         \A k \in DOMAIN vals' : k \in DOMAIN vals \/ k = getter[g].key,
         made' \in Nat, UNCHANGED <<newFn, settled, clears>>
  PROVE  GroupInv'
<1> USE DEF GroupInv
<1>0. PICK k, a : k = getter[g].key /\ a = getter[g].asked
  OBVIOUS
<1>1. k \in Keys /\ a \in Nat /\ a <= settled
  BY <1>0 DEF GroupTypes, GetterStates, ValsCurrent
<1>2. PICK h : h = [key |-> k, obj |-> v, era |-> clears, asked |-> a]
  OBVIOUS
<1>3. /\ h \in [key : Keys, obj : Objects, era : Nat, asked : Nat]
      /\ h.key = k /\ h.obj = v /\ h.era = clears /\ h.asked = a
  BY <1>1, <1>2 DEF GroupTypes
<1>4. handed' = handed \cup {h} /\ getter' = [getter EXCEPT ![g] = Idle]
  BY <1>0, <1>2 DEF Hand
<1>5. GroupTypes'
  <2>1. Idle \in GetterStates
    BY DEF Idle, GetterStates
  <2> QED BY <1>3, <1>4, <2>1 DEF GroupTypes
<1>6. ValsCurrent'
  <2>1. \A x \in DOMAIN vals' : vals'[x] \in Objects /\ vals'[x].by >= settled
    BY DEF ValsCurrent
  <2>2. \A f \in Getters : getter'[f].at # "idle" => getter'[f] = getter[f]
    BY <1>4 DEF Idle, GroupTypes
  <2> QED BY <2>1, <2>2 DEF ValsCurrent
<1>7. HandedHeld'
  <2>1. h.era <= clears /\ h.key \in DOMAIN vals' /\ vals'[h.key] = h.obj
    BY <1>0, <1>3 DEF GroupTypes
  <2> QED BY <1>4, <2>1 DEF HandedHeld
<1>8. OneObjectPerKey'
  <2>1. \A x \in handed : x.key = h.key /\ x.era = h.era => x.obj = h.obj
    BY <1>0, <1>3 DEF HandedHeld
  <2> QED BY <1>4, <2>1 DEF OneObjectPerKey, GetsCoherent
<1>9. ResetIsFinal'
  <2>1. h.obj.by >= h.asked
    BY <1>1, <1>3 DEF GroupTypes, Objects
  <2> QED BY <1>4, <2>1 DEF ResetIsFinal, GetsCoherent
<1> QED BY <1>5, <1>6, <1>7, <1>8, <1>9 DEF GetsCoherent

LEMMA GroupInitial == GroupInit => GroupInv
  BY DEF GroupInit, GroupInv, GroupTypes, ValsCurrent, HandedHeld, GetsCoherent,
         OneObjectPerKey, ResetIsFinal, GetterStates, Idle

LEMMA GroupStep == ASSUME GroupInv, [GroupNext]_groupVars PROVE GroupInv'
<1> USE DEF GroupInv
<1>1. CASE UNCHANGED groupVars
  BY <1>1 DEF groupVars, GroupTypes, ValsCurrent, HandedHeld, GetsCoherent,
              OneObjectPerKey, ResetIsFinal
<1>2. ASSUME NEW g \in Getters, NEW k \in Keys, CallGet(g, k) PROVE GroupInv'
  <2> DEFINE d == [at |-> "fast", key |-> k, asked |-> settled]
  <2>1. d \in GetterStates /\ d.asked = settled
    BY DEF GetterStates, GroupTypes
  <2>2. /\ getter' = [getter EXCEPT ![g] = d]
        /\ UNCHANGED <<newFn, vals, made, settled, clears, handed>>
    BY <1>2 DEF CallGet
  <2> HIDE DEF d
  <2>3. GroupTypes' /\ HandedHeld' /\ GetsCoherent'
    BY <2>1, <2>2 DEF GroupTypes, HandedHeld, GetsCoherent, OneObjectPerKey, ResetIsFinal
  <2>4. ValsCurrent'
    BY <2>1, <2>2 DEF GroupTypes, ValsCurrent
  <2> QED BY <2>3, <2>4
<1>3. ASSUME NEW g \in Getters, GetFast(g) PROVE GroupInv'
  <2>1. CASE getter[g].key \in DOMAIN vals
    BY <1>3, <2>1, GetReturns DEF GetFast, ValsCurrent, GroupTypes
  <2>2. CASE getter[g].key \notin DOMAIN vals
    <3>1. /\ getter' = [getter EXCEPT ![g] = [getter[g] EXCEPT !.at = "slow"]]
          /\ UNCHANGED <<newFn, vals, made, settled, clears, handed>>
      BY <1>3, <2>2 DEF GetFast
    <3>2. /\ [getter[g] EXCEPT !.at = "slow"] \in GetterStates
          /\ [getter[g] EXCEPT !.at = "slow"].asked = getter[g].asked
          /\ getter[g].at # "idle"
      BY <1>3 DEF GetFast, GroupTypes, GetterStates
    <3>3. GroupTypes' /\ HandedHeld' /\ GetsCoherent'
      BY <3>1, <3>2 DEF GroupTypes, HandedHeld, GetsCoherent, OneObjectPerKey, ResetIsFinal
    <3>4. ValsCurrent'
      BY <3>1, <3>2 DEF GroupTypes, ValsCurrent
    <3> QED BY <3>3, <3>4
  <2> QED BY <2>1, <2>2
<1>4. ASSUME NEW g \in Getters, GetSlow(g) PROVE GroupInv'
  <2>1. CASE getter[g].key \in DOMAIN vals
    BY <1>4, <2>1, GetReturns DEF GetSlow, ValsCurrent, GroupTypes
  <2>2. CASE getter[g].key \notin DOMAIN vals
    <3>1. PICK k, v : k = getter[g].key /\ v = [id |-> made + 1, by |-> newFn]
      OBVIOUS
    <3>2. /\ getter[g].at = "slow" /\ made' = made + 1 /\ Hand(g, v)
          /\ vals' = [x \in DOMAIN vals \cup {k} |-> IF x = k THEN v ELSE vals[x]]
          /\ UNCHANGED <<newFn, settled, clears>>
      BY <1>4, <2>2, <3>1 DEF GetSlow, Create
    <3>3. v \in Objects /\ v.by >= settled /\ made' \in Nat
      BY <3>1, <3>2 DEF Objects, GroupTypes
    <3>4. /\ k \in DOMAIN vals' /\ vals'[k] = v
          /\ \A x \in DOMAIN vals : x \in DOMAIN vals' /\ vals'[x] = vals[x]
          /\ \A x \in DOMAIN vals' : x \in DOMAIN vals \/ x = k
      BY <2>2, <3>1, <3>2
    <3> QED BY <3>1, <3>2, <3>3, <3>4, GetReturns
  <2> QED BY <2>1, <2>2
<1>5. CASE ResetNew
  BY <1>5 DEF ResetNew, GroupTypes, ValsCurrent, HandedHeld, GetsCoherent,
              OneObjectPerKey, ResetIsFinal
<1>6. CASE ResetClear \/ Clear
  <2>1. /\ DOMAIN vals' = {} /\ clears' = clears + 1 /\ settled' \in {settled, newFn}
        /\ UNCHANGED <<newFn, getter, handed>> /\ made' \in Nat
    BY <1>6, NoVals DEF ResetClear, Clear, GroupTypes
  <2>2. GroupTypes' /\ GetsCoherent'
    BY <2>1 DEF GroupTypes, GetsCoherent, OneObjectPerKey, ResetIsFinal
  <2>3. ValsCurrent'
    BY <2>1 DEF GroupTypes, ValsCurrent, GetterStates
  <2>4. HandedHeld'
    BY <2>1 DEF GroupTypes, HandedHeld
  <2> QED BY <2>2, <2>3, <2>4
<1> QED BY <1>1, <1>2, <1>3, <1>4, <1>5, <1>6 DEF GroupNext

(* For any number of callers, keys and resets: two Gets of one key return  *)
(* the same object unless the map was emptied between them, and a Get that *)
(* began after Reset had returned gets nothing that an older constructor   *)
(* made (Get and Reset, each in two critical sections).                    *)
THEOREM GroupCoherent == GroupSpec => []GetsCoherent
<1>1. GroupInv => GetsCoherent
  BY DEF GroupInv
<1> QED BY <1>1, GroupInitial, GroupStep, PTL DEF GroupSpec

-----------------------------------------------------------------------------
(* Refresh tokens.  What a request may be doing. *)
RequestStates == [at : {"none"}] \cup [at : {"set", "revoke"}, old : Nat, new : Tokens]
Busy(r)       == req[r].at \in {"set", "revoke"}

TokenTypes ==
  /\ generated \in 0 .. MaxTokens
  /\ store \in [Tokens -> {"absent", "live", "expired"}]
  /\ req \in [Requests -> RequestStates]
  /\ root \in [Tokens -> Nat] /\ forks \in [Tokens -> Nat]
  /\ issued \subseteq 1 .. generated

(* A request's new token is its own until it is answered, and descends     *)
(* from the login of the token that is refreshed.                          *)
Rotation ==
  \A r \in Requests : Busy(r) =>
    /\ req[r].new <= generated /\ req[r].new \notin issued
    /\ \A s \in Requests : Busy(s) /\ req[s].new = req[r].new => s = r
    /\ req[r].old # 0 => req[r].old \in issued /\ root[req[r].old] = root[req[r].new]
    /\ req[r].at = "revoke" => req[r].old # 0

(* Before the old token is revoked the new one is stored; only its expiry  *)
(* takes it away, and that ends the login.                                 *)
StoredFirst ==
  \A r \in Requests :
    req[r].at = "revoke" => Live(req[r].new) \/ root[req[r].new] \in ended

(* Tokens come from logins, and one that is not yet stored is absent. *)
Descent ==
  /\ \A t \in 1 .. generated : root[t] \in 1 .. generated
  /\ ended \subseteq 1 .. generated
  /\ \A t \in Tokens : t > generated => root[t] = 0 /\ store[t] = "absent"
  /\ \A r \in Requests : req[r].at = "set" => store[req[r].new] = "absent"

(* The tokens of login x that are live or about to be stored; the live     *)
(* ones that a refresh is about to revoke; whether x may have a token.     *)
Pend(x) == LiveOf(x) \cup {t \in Tokens : root[t] = x /\ \E r \in Requests :
                                            req[r].at = "set" /\ req[r].new = t}
Used(x) == {t \in LiveOf(x) : Using(t) # {}}
Room(x) == IF x \in ended THEN 0 ELSE 1

(* Each token that a login has, or will get, beyond its one is accounted   *)
(* for: by one that is about to be revoked, or by a fork.                  *)
Accounted == \A x \in Tokens : Cardinality(Pend(x)) <= Cardinality(Used(x)) + forks[x] + Room(x)

TokenInv ==
  TokenTypes /\ Rotation /\ Descent /\ StoredFirst /\ NoLockOut /\ Accounted

LEMMA TokensFinite ==
  /\ IsFiniteSet(Tokens)
  /\ \A S \in SUBSET Tokens : IsFiniteSet(S) /\ Cardinality(S) \in Nat
<1>1. IsFiniteSet(Tokens)
  BY FS_Interval, TokensAssumption DEF Tokens
<1> QED BY <1>1, FS_Subset, FS_CardinalityType

(* Sets of tokens that differ by at most one element. *)
LEMMA OneMore ==
  ASSUME NEW A \in SUBSET Tokens, NEW e, NEW B \in SUBSET Tokens, B \subseteq A \cup {e}
  PROVE  Cardinality(B) <= Cardinality(A) + 1
<1>1. IsFiniteSet(A) /\ Cardinality(A) \in Nat /\ Cardinality(B) \in Nat
  BY TokensFinite
<1>2. /\ IsFiniteSet(A \cup {e})
      /\ Cardinality(A \cup {e}) = IF e \in A THEN Cardinality(A) ELSE Cardinality(A) + 1
  BY <1>1, FS_AddElement
<1>3. Cardinality(B) <= Cardinality(A \cup {e})
  BY <1>2, FS_Subset
<1> QED BY <1>1, <1>2, <1>3

LEMMA OneLess ==
  ASSUME NEW A \in SUBSET Tokens, NEW e \in A, NEW B, B \subseteq A \ {e}
  PROVE  Cardinality(B) + 1 <= Cardinality(A)
<1>1. IsFiniteSet(A) /\ Cardinality(A) \in Nat /\ Cardinality(B) \in Nat
  BY TokensFinite
<1>2. IsFiniteSet(A \ {e}) /\ Cardinality(A \ {e}) = Cardinality(A) - 1
  BY <1>1, FS_RemoveElement
<1>3. Cardinality(B) <= Cardinality(A \ {e})
  BY <1>2, FS_Subset
<1> QED BY <1>1, <1>2, <1>3

(* The ways in which a step keeps a login's account: P are the tokens it   *)
(* has or will get, U those about to be revoked, f its forks, m its room.  *)
Balanced(P, U, f, m, P2, U2, f2, m2) ==
  \/ P2 \subseteq P /\ U \subseteq U2 /\ f2 >= f /\ m2 = m
  \/ \E e : P2 \subseteq P \cup {e} /\ U \subseteq U2 /\ f2 >= f + 1 /\ m2 = m
  \/ \E e, b : P2 \subseteq P \cup {e} /\ b \in U2 /\ U \subseteq U2 \ {b} /\ f2 >= f /\ m2 = m
  \/ \E b : P2 \subseteq P /\ U \subseteq U2 \cup {b} /\ f2 >= f + 1 /\ m2 = m
  \/ \E b : \E e \in P : P2 \subseteq P \ {e} /\ U \subseteq U2 \cup {b} /\ f2 >= f /\ m2 = m
  \/ \E e \in P : P2 \subseteq P \ {e} /\ U \subseteq U2 /\ f2 >= f
  \/ \E b : \E e \in P : P2 \subseteq P \ {e} /\ U \subseteq U2 \cup {b} /\ f2 >= f + 1
  \/ \E e : P2 \subseteq {e} /\ m2 = 1

LEMMA BalancedKeeps ==
  ASSUME NEW P \in SUBSET Tokens, NEW U \in SUBSET Tokens, NEW f \in Nat, NEW m \in {0, 1},
         NEW P2 \in SUBSET Tokens, NEW U2 \in SUBSET Tokens, NEW f2 \in Nat, NEW m2 \in {0, 1},
         Cardinality(P) <= Cardinality(U) + f + m,
         Balanced(P, U, f, m, P2, U2, f2, m2)
  PROVE  Cardinality(P2) <= Cardinality(U2) + f2 + m2
<1> DEFINE Card(S) == Cardinality(S)
<1>1. /\ Card(P) \in Nat /\ Card(U) \in Nat /\ Card(P2) \in Nat /\ Card(U2) \in Nat
      /\ Card(P) <= Card(U) + f + m
  BY TokensFinite
<1>2. P2 \subseteq P => Card(P2) <= Card(P)
  BY TokensFinite, FS_Subset
<1>3. U \subseteq U2 => Card(U) <= Card(U2)
  BY TokensFinite, FS_Subset
<1>4. \A e : P2 \subseteq P \cup {e} => Card(P2) <= Card(P) + 1
  BY OneMore
<1>5. \A b : U \subseteq U2 \cup {b} => Card(U) <= Card(U2) + 1
  BY OneMore
<1>6. \A e \in P : P2 \subseteq P \ {e} => Card(P2) + 1 <= Card(P)
  BY OneLess
<1>7. \A b \in U2 : U \subseteq U2 \ {b} => Card(U) + 1 <= Card(U2)
  BY OneLess
<1>9. \A e : P2 \subseteq {e} => Card(P2) <= 1
  <2>1. {} \in SUBSET Tokens /\ Card({}) = 0
    BY FS_EmptySet
  <2>2. \A e : P2 \subseteq {} \cup {e} => Card(P2) <= Card({}) + 1
    BY <2>1, OneMore
  <2> QED BY <2>1, <2>2
<1> HIDE DEF Card
<1>8. Card(P2) <= Card(U2) + f2 + m2
  <2>1. PICK cp, cu, cp2, cu2 :
          cp = Card(P) /\ cu = Card(U) /\ cp2 = Card(P2) /\ cu2 = Card(U2)
    OBVIOUS
  <2>2. {cp, cu, cp2, cu2} \subseteq Nat /\ cp <= cu + f + m
    BY <1>1, <2>1
  <2>3. \/ cp2 <= cp /\ cu <= cu2 /\ f2 >= f /\ m2 = m
        \/ cp2 <= cp + 1 /\ cu <= cu2 /\ f2 >= f + 1 /\ m2 = m
        \/ cp2 <= cp + 1 /\ cu + 1 <= cu2 /\ f2 >= f /\ m2 = m
        \/ cp2 <= cp /\ cu <= cu2 + 1 /\ f2 >= f + 1 /\ m2 = m
        \/ cp2 + 1 <= cp /\ cu <= cu2 + 1 /\ f2 >= f /\ m2 = m
        \/ cp2 + 1 <= cp /\ cu <= cu2 /\ f2 >= f
        \/ cp2 + 1 <= cp /\ cu <= cu2 + 1 /\ f2 >= f + 1
        \/ cp2 <= 1 /\ m2 = 1
    BY <1>2, <1>3, <1>4, <1>5, <1>6, <1>7, <1>9, <2>1 DEF Balanced
  <2>4. cp2 <= cu2 + f2 + m2
    BY <2>2, <2>3
  <2> QED BY <2>1, <2>4
<1> QED BY <1>8 DEF Card

(* A step that is balanced for every login keeps the account. *)
LEMMA AccountKept ==
  ASSUME Accounted, TokenTypes, TokenTypes',
         \A x \in Tokens : Balanced(Pend(x), Used(x), forks[x], Room(x),
                                    Pend(x)', Used(x)', forks[x]', Room(x)')
  PROVE  Accounted'
<1> SUFFICES ASSUME NEW x \in Tokens
             PROVE  (Cardinality(Pend(x)) <= Cardinality(Used(x)) + forks[x] + Room(x))'
  BY DEF Accounted
<1>1. PICK P, U, P2, U2 : P = Pend(x) /\ U = Used(x) /\ P2 = Pend(x)' /\ U2 = Used(x)'
  OBVIOUS
<1>2. PICK f, m, f2, m2 : f = forks[x] /\ m = Room(x) /\ f2 = forks[x]' /\ m2 = Room(x)'
  OBVIOUS
<1>3. P \subseteq Tokens /\ U \subseteq Tokens /\ P2 \subseteq Tokens /\ U2 \subseteq Tokens
  BY <1>1 DEF Pend, Used, LiveOf
<1>4. f \in Nat /\ f2 \in Nat
  BY <1>2 DEF TokenTypes
<1>5. m \in {0, 1} /\ m2 \in {0, 1}
  BY <1>2 DEF Room
<1>6. Cardinality(P) <= Cardinality(U) + f + m
  BY <1>1, <1>2 DEF Accounted
<1>7. Balanced(P, U, f, m, P2, U2, f2, m2)
  BY <1>1, <1>2
<1>8. Cardinality(P2) <= Cardinality(U2) + f2 + m2
  BY <1>3, <1>4, <1>5, <1>6, <1>7, BalancedKeeps
<1> QED BY <1>1, <1>2, <1>8

LEMMA RequestFields ==
  /\ Waiting \in RequestStates /\ Waiting.at = "none"
  /\ \A q \in RequestStates : q.at \in {"set", "revoke"} =>
       /\ q.old \in Nat /\ q.new \in Tokens
       /\ [q EXCEPT !.at = "revoke"] = [at |-> "revoke", old |-> q.old, new |-> q.new]
  BY DEF Waiting, RequestStates

(* A request begins: a login (o = 0), or the refresh of a token o that was *)
(* found.  The new token belongs to login x.                               *)
LEMMA TokenBegins ==
  ASSUME TokenInv, NEW r \in Requests, req[r] = Waiting, generated < MaxTokens, NEW o, NEW x,
         (o = 0 /\ x = generated + 1) \/ (o \in issued /\ x = root[o]),
         generated' = generated + 1, root' = [root EXCEPT ![generated + 1] = x],
         req' = [req EXCEPT ![r] = [at |-> "set", old |-> o, new |-> generated + 1]],
         forks' = forks \/ forks' = [forks EXCEPT ![x] = @ + 1],
         o # 0 /\ (Using(o) # {} \/ ~Live(o)) => forks' = [forks EXCEPT ![x] = @ + 1],
         UNCHANGED <<store, issued, ended, unsure>>
  PROVE  TokenInv'
<1> USE TokensAssumption
<1>a. TokenTypes /\ Rotation /\ Descent /\ StoredFirst /\ NoLockOut /\ Accounted
  BY DEF TokenInv
<1>0. PICK g : g = generated + 1
  OBVIOUS
<1>1. /\ generated \in Nat /\ g \in Tokens /\ g \in Nat /\ g > generated /\ o \in Nat
      /\ o \in issued => o \in Tokens /\ o # 0
      /\ x \in Tokens /\ x \in 1 .. g
  <2>1. generated \in Nat /\ g \in Nat /\ g > generated /\ g \in Tokens
    BY <1>a, <1>0 DEF TokenTypes, Tokens
  <2>2. \A t \in 1 .. generated : t \in Tokens /\ t # 0 /\ t \in Nat /\ t \in 1 .. g
    BY <1>0, <2>1 DEF Tokens
  <2>3. \A t \in issued : t \in 1 .. generated /\ root[t] \in 1 .. generated
    BY <1>a DEF TokenTypes, Descent
  <2>4. g \in 1 .. g /\ 0 \in Nat
    BY <2>1
  <2> QED BY <1>0, <2>1, <2>2, <2>3, <2>4
<1>2. /\ root'[g] = x /\ root' \in [Tokens -> Nat]
      /\ \A t \in Tokens : t # g => root'[t] = root[t]
  BY <1>a, <1>0, <1>1 DEF TokenTypes
<1>3. PICK d : d = [at |-> "set", old |-> o, new |-> g]
  OBVIOUS
<1>4. d \in RequestStates /\ d.at = "set" /\ d.old = o /\ d.new = g
  BY <1>1, <1>3 DEF RequestStates
<1>5. /\ req' \in [Requests -> RequestStates] /\ req'[r] = d
      /\ \A s \in Requests : s # r => req'[s] = req[s]
  BY <1>a, <1>0, <1>3, <1>4 DEF TokenTypes
<1>6. /\ forks' \in [Tokens -> Nat]
      /\ \A z \in Tokens : forks'[z] >= forks[z]
      /\ o # 0 /\ (Using(o) # {} \/ ~Live(o)) => forks'[x] = forks[x] + 1
  BY <1>a, <1>1 DEF TokenTypes
<1>7. TokenTypes'
  BY <1>a, <1>0, <1>1, <1>2, <1>5, <1>6 DEF TokenTypes
<1>8. req[r].at = "none"
  BY RequestFields
<1>9. \A s \in Requests : Busy(s) => s # r /\ req[s].new \in Tokens /\ req[s].new # g
  <2>1. \A s \in Requests : Busy(s) => s # r /\ req[s].new \in Tokens
    BY <1>a, <1>8, RequestFields DEF Busy, TokenTypes
  <2>2. \A s \in Requests : Busy(s) => req[s].new <= generated
    BY <1>a DEF Rotation
  <2> QED BY <1>1, <2>1, <2>2
<1>10. \A s \in Requests : (Busy(s))' => Busy(s) \/ s = r
  BY <1>5 DEF Busy
<1>11. Rotation'
  <2> SUFFICES ASSUME NEW s \in Requests, (Busy(s))'
               PROVE  /\ req'[s].new <= generated' /\ req'[s].new \notin issued
                      /\ \A q \in Requests : (Busy(q))' /\ req'[q].new = req'[s].new => q = s
                      /\ req'[s].old # 0 => /\ req'[s].old \in issued
                                            /\ root'[req'[s].old] = root'[req'[s].new]
                      /\ req'[s].at = "revoke" => req'[s].old # 0
    BY DEF Rotation
  <2>1. issued \subseteq 1 .. generated /\ g \notin issued
    BY <1>a, <1>1 DEF TokenTypes
  <2>2. CASE s = r
    <3>1. o # 0 => o \in issued /\ root'[o] = x
      BY <1>0, <1>1, <1>2, <2>1
    <3> QED BY <2>2, <1>0, <1>1, <1>2, <1>4, <1>5, <1>9, <1>10, <2>1, <3>1
  <2>3. CASE s # r
    <3>1. Busy(s) /\ req'[s] = req[s] /\ req[s].new \in Tokens /\ req[s].new # g
      BY <2>3, <1>5, <1>9, <1>10
    <3>2. /\ req[s].new <= generated' /\ req[s].new \notin issued
          /\ req[s].at = "revoke" => req[s].old # 0
      BY <1>a, <1>0, <1>1, <3>1 DEF Rotation, Tokens
    <3>3. \A q \in Requests : (Busy(q))' /\ req'[q].new = req[s].new => q = s
      BY <1>a, <1>4, <1>5, <1>10, <3>1 DEF Rotation
    <3>4. req[s].old # 0 => req[s].old \in issued /\ root'[req[s].old] = root'[req[s].new]
      <4>1. \A t \in issued : t \in Tokens /\ t # g
        BY <1>1, <2>1 DEF Tokens
      <4> QED BY <1>a, <1>2, <3>1, <4>1 DEF Rotation
    <3> QED BY <3>1, <3>2, <3>3, <3>4
  <2> QED BY <2>2, <2>3
<1>12. Descent'
  <2>1. \A t \in 1 .. g : root'[t] \in 1 .. g
    <3> SUFFICES ASSUME NEW t \in 1 .. g PROVE root'[t] \in 1 .. g
      OBVIOUS
    <3>1. CASE t = g
      BY <1>1, <1>2, <3>1
    <3>2. CASE t # g
      <4>1. t \in 1 .. generated /\ t \in Tokens
        BY <1>0, <1>1, <3>2 DEF Tokens
      <4> QED BY <1>a, <1>0, <1>1, <1>2, <3>2, <4>1 DEF Descent
    <3> QED BY <3>1, <3>2
  <2>2. ended' \subseteq 1 .. g
    BY <1>a, <1>0, <1>1 DEF Descent
  <2>3. \A t \in Tokens : t > g => root'[t] = 0 /\ store'[t] = "absent"
    BY <1>a, <1>0, <1>1, <1>2 DEF Descent, Tokens
  <2>4. \A s \in Requests : req'[s].at = "set" => store'[req'[s].new] = "absent"
    BY <1>a, <1>1, <1>4, <1>5 DEF Descent
  <2> QED BY <1>0, <2>1, <2>2, <2>3, <2>4 DEF Descent
<1>13. StoredFirst'
  BY <1>a, <1>2, <1>4, <1>5, <1>9 DEF StoredFirst, Live, Busy
<1>14. /\ ~Live(g) /\ root[g] = 0
       /\ \A z \in Tokens : LiveOf(z)' = LiveOf(z)
  <2>1. store[g] = "absent" /\ root[g] = 0
    BY <1>a, <1>1 DEF Descent
  <2> QED BY <1>2, <2>1 DEF Live, LiveOf
<1>15. NoLockOut'
  <2>1. \A t \in issued : t \in Tokens /\ t # g
    BY <1>a, <1>1 DEF TokenTypes, Tokens
  <2> QED BY <1>a, <1>2, <1>14, <2>1 DEF NoLockOut
<1>16. \A t : Using(t) \subseteq Using(t)'
  BY <1>5, <1>8 DEF Using
<1>17. \A z \in Tokens : Used(z) \subseteq Used(z)' /\ Room(z)' = Room(z)
  BY <1>14, <1>16 DEF Used, Room
<1>18. \A z \in Tokens : Pend(z)' \subseteq Pend(z) \cup {g} /\ (z # x => Pend(z)' \subseteq Pend(z))
  BY <1>2, <1>4, <1>5, <1>14 DEF Pend
<1>19. ASSUME NEW z \in Tokens
       PROVE  Balanced(Pend(z), Used(z), forks[z], Room(z), Pend(z)', Used(z)', forks[z]', Room(z)')
  <2>1. CASE z # x
    BY <1>6, <1>17, <1>18, <2>1 DEF Balanced
  <2>2. CASE z = x /\ o = 0
    <3>1. x = g /\ \A t \in Tokens : root[t] # x
      BY <1>a, <1>0, <1>1, <2>2 DEF Descent, Tokens, TokenTypes
    <3>2. Pend(z) = {}
      BY <2>2, <3>1 DEF Pend, LiveOf
    <3>3. g \notin ended
      BY <1>a, <1>1 DEF Descent
    <3>4. Room(z)' = 1 /\ Pend(z)' \subseteq {g}
      BY <1>18, <2>2, <3>1, <3>2, <3>3 DEF Room
    <3> QED BY <3>4 DEF Balanced
  <2>3. CASE z = x /\ o # 0 /\ (Using(o) # {} \/ ~Live(o))
    BY <1>6, <1>17, <1>18, <2>3 DEF Balanced
  <2>4. CASE z = x /\ o # 0 /\ Using(o) = {} /\ Live(o)
    <3>1. o \in LiveOf(x) /\ o \notin Used(x)
      BY <1>1, <2>4 DEF LiveOf, Used
    <3>2. r \in Using(o)'
      BY <1>4, <1>5 DEF Using
    <3>3. o \in Used(x)'
      BY <1>1, <1>14, <3>1, <3>2 DEF Used
    <3> QED BY <1>6, <1>17, <1>18, <2>4, <3>1, <3>3 DEF Balanced
  <2> QED BY <2>1, <2>2, <2>3, <2>4
<1>20. Accounted'
  BY <1>a, <1>7, <1>19, AccountKept
<1> QED BY <1>7, <1>11, <1>12, <1>13, <1>15, <1>20 DEF TokenInv

(* What is known of a request that is under way: n is its new token, o the *)
(* one it refreshes, x their login.                                        *)
LEMMA TokenBusy ==
  ASSUME TokenInv, NEW r \in Requests, Busy(r), NEW n, NEW o, NEW x,
         n = req[r].new, o = req[r].old, x = root[n]
  PROVE  /\ n \in Tokens /\ n <= generated /\ n \notin issued /\ x \in Tokens /\ o \in Nat
         /\ o # 0 => o \in issued /\ o \in Tokens /\ root[o] = x /\ o # n
         /\ \A s \in Requests : Busy(s) /\ s # r => req[s].new # n
         /\ req[r].at = "set" => store[n] = "absent"
         /\ req[r].at = "revoke" => o # 0 /\ (Live(n) \/ x \in ended)
<1> USE TokensAssumption
<1>a. TokenTypes /\ Rotation /\ Descent /\ StoredFirst
  BY DEF TokenInv
<1>1. n \in Tokens /\ o \in Nat
  BY <1>a, RequestFields DEF Busy, TokenTypes
<1>2. n <= generated /\ n \notin issued
  BY <1>a DEF Rotation
<1>3. n \in 1 .. generated /\ \A t \in 1 .. generated : t \in Tokens
  BY <1>a, <1>1, <1>2 DEF Tokens, TokenTypes
<1>4. x \in Tokens
  BY <1>a, <1>3 DEF Descent
<1>5. issued \subseteq Tokens
  BY <1>a, <1>3 DEF TokenTypes
<1>6. /\ o # 0 => o \in issued /\ root[o] = x
      /\ \A s \in Requests : Busy(s) /\ s # r => req[s].new # n
      /\ req[r].at = "revoke" => o # 0
  BY <1>a DEF Rotation
<1>7. /\ req[r].at = "set" => store[n] = "absent"
      /\ req[r].at = "revoke" => Live(n) \/ x \in ended
  BY <1>a DEF Descent, StoredFirst
<1> QED BY <1>1, <1>2, <1>4, <1>5, <1>6, <1>7

(* storeRefreshToken was applied: the login is answered, or the refresh    *)
(* goes on to revoke, or (with an error reported) the request gives up.    *)
LEMMA TokenStored ==
  ASSUME TokenInv, NEW r \in Requests, req[r].at = "set", NEW n, NEW o, NEW x,
         n = req[r].new, o = req[r].old, x = root[n],
         store' = [store EXCEPT ![n] = "live"],
         NEW d \in RequestStates, req' = [req EXCEPT ![r] = d],
         \/ d.at = "none" /\ o = 0 /\ issued' = issued \cup {n} /\ forks' = forks
         \/ /\ d.at = "revoke" /\ o # 0 /\ d.old = o /\ d.new = n
            /\ issued' = issued /\ forks' = forks
         \/ d.at = "none" /\ issued' = issued /\ forks' = [forks EXCEPT ![x] = @ + 1],
         UNCHANGED <<generated, root, ended, unsure>>
  PROVE  TokenInv'
<1> USE TokensAssumption
<1>a. TokenTypes /\ Rotation /\ Descent /\ StoredFirst /\ NoLockOut /\ Accounted
  BY DEF TokenInv
<1>b. Busy(r)
  BY DEF Busy
<1>1. /\ n \in Tokens /\ n <= generated /\ n \notin issued /\ x \in Tokens /\ o \in Nat
      /\ o # 0 => o \in issued /\ o \in Tokens /\ root[o] = x /\ o # n
      /\ \A s \in Requests : Busy(s) /\ s # r => req[s].new # n
      /\ store[n] = "absent"
  BY <1>b, TokenBusy
<1>2. /\ req' \in [Requests -> RequestStates] /\ req'[r] = d
      /\ \A s \in Requests : s # r => req'[s] = req[s]
  BY <1>a DEF TokenTypes
<1>3. /\ store' \in [Tokens -> {"absent", "live", "expired"}] /\ store'[n] = "live"
      /\ \A t \in Tokens : t # n => store'[t] = store[t]
  BY <1>a, <1>1 DEF TokenTypes
<1>4. /\ forks' \in [Tokens -> Nat] /\ \A z \in Tokens : forks'[z] >= forks[z]
      /\ d.at = "none" /\ o # 0 => forks'[x] = forks[x] + 1
  BY <1>a, <1>1 DEF TokenTypes
<1>5. issued \subseteq issued' /\ issued' \subseteq issued \cup {n}
  OBVIOUS
<1>6. TokenTypes'
  <2>1. issued' \subseteq 1 .. generated
    BY <1>a, <1>1, <1>5 DEF TokenTypes, Tokens
  <2> QED BY <1>a, <1>2, <1>3, <1>4, <2>1 DEF TokenTypes
<1>7. \A s \in Requests : (Busy(s))' => Busy(s) /\ req'[s].new = req[s].new /\ req'[s].old = req[s].old
  BY <1>b, <1>2 DEF Busy
<1>8. Rotation'
  <2> SUFFICES ASSUME NEW s \in Requests, (Busy(s))'
               PROVE  /\ req'[s].new <= generated /\ req'[s].new \notin issued'
                      /\ \A q \in Requests : (Busy(q))' /\ req'[q].new = req'[s].new => q = s
                      /\ req'[s].old # 0 => /\ req'[s].old \in issued'
                                            /\ root[req'[s].old] = root[req'[s].new]
                      /\ req'[s].at = "revoke" => req'[s].old # 0
    BY DEF Rotation
  <2>1. req'[s].new \notin issued'
    <3>1. CASE s = r
      BY <1>1, <1>2, <3>1 DEF Busy
    <3>2. CASE s # r
      BY <1>a, <1>1, <1>5, <1>7, <3>2 DEF Rotation
    <3> QED BY <3>1, <3>2
  <2>2. req'[s].at = "revoke" => req'[s].old # 0
    BY <1>a, <1>2, <1>7 DEF Rotation
  <2> QED BY <1>a, <1>5, <1>7, <2>1, <2>2 DEF Rotation
<1>9. Descent'
  <2>1. \A t \in Tokens : t > generated => store'[t] = "absent"
    BY <1>a, <1>1, <1>3 DEF Descent, Tokens, TokenTypes
  <2>2. \A s \in Requests : req'[s].at = "set" => store'[req'[s].new] = "absent"
    <3> SUFFICES ASSUME NEW s \in Requests, req'[s].at = "set"
                 PROVE  store'[req'[s].new] = "absent"
      OBVIOUS
    <3>1. s # r /\ req'[s] = req[s] /\ Busy(s)
      BY <1>2 DEF Busy
    <3>2. req[s].new \in Tokens /\ req[s].new # n
      BY <1>a, <1>1, <3>1, RequestFields DEF Busy, TokenTypes
    <3> QED BY <1>a, <1>3, <3>1, <3>2 DEF Descent
  <2> QED BY <1>a, <2>1, <2>2 DEF Descent
<1>10. \A t \in Tokens : Live(t) => (Live(t))'
  BY <1>3 DEF Live
<1>11. StoredFirst'
  <2> SUFFICES ASSUME NEW s \in Requests, req'[s].at = "revoke"
               PROVE  store'[req'[s].new] = "live" \/ root[req'[s].new] \in ended
    BY DEF StoredFirst, Live
  <2>1. CASE s = r
    BY <1>2, <1>3, <2>1 DEF Live
  <2>2. CASE s # r
    <3>1. req'[s] = req[s] /\ req[s].new \in Tokens
      BY <1>a, <1>2, <2>2, RequestFields DEF TokenTypes
    <3> QED BY <1>a, <1>10, <3>1 DEF StoredFirst, Live
  <2> QED BY <2>1, <2>2
<1>12. \A z \in Tokens : LiveOf(z)' = LiveOf(z) \cup {t \in {n} : x = z}
  BY <1>1, <1>3 DEF LiveOf, Live
<1>13. NoLockOut'
  <2> SUFFICES ASSUME NEW y \in issued', root[y] = y, y \notin ended, y \notin unsure
               PROVE  LiveOf(y)' \cap issued' # {}
    BY DEF NoLockOut
  <2>1. y \in Tokens
    BY <1>6 DEF TokenTypes, Tokens
  <2>2. CASE y \in issued
    BY <1>a, <1>5, <1>12, <2>1, <2>2 DEF NoLockOut
  <2>3. CASE y = n
    BY <1>1, <1>12, <2>3
  <2> QED BY <1>5, <2>2, <2>3
<1>14. \A z \in Tokens : Pend(z)' \subseteq Pend(z) /\ Room(z)' = Room(z)
  <2>1. \A t : (\E s \in Requests : req'[s].at = "set" /\ req'[s].new = t)
                => \E s \in Requests : req[s].at = "set" /\ req[s].new = t
    BY <1>2
  <2> QED BY <1>1, <1>12, <2>1 DEF Pend, Room
<1>15. \A t \in Tokens : \A q \in Using(t) : q \in Using(t)' \/ (q = r /\ t = o /\ d.at = "none")
  BY <1>2 DEF Using
<1>16. ASSUME NEW z \in Tokens
       PROVE  Balanced(Pend(z), Used(z), forks[z], Room(z), Pend(z)', Used(z)', forks[z]', Room(z)')
  <2>0. LiveOf(z) \subseteq LiveOf(z)'
    BY <1>12
  <2>1. \A t \in Used(z) : t \in Tokens /\ root[t] = z /\ t \in LiveOf(z)' /\ Using(t) # {} /\ t # 0
    <3>1. \A t \in Tokens : t # 0
      BY DEF Tokens
    <3> QED BY <2>0, <3>1 DEF Used, LiveOf
  <2>2. \A t \in Used(z) : t \in Used(z)' \/ (t = o /\ o # 0 /\ d.at = "none")
    BY <1>15, <2>1 DEF Used
  <2>3. CASE z = x /\ d.at = "none" /\ o # 0
    <3>1. forks'[z] >= forks[z] + 1
      BY <1>4, <2>3, <1>a, <1>1 DEF TokenTypes
    <3>2. Used(z) \subseteq Used(z)' \cup {o}
      BY <2>2
    <3> QED BY <1>14, <3>1, <3>2 DEF Balanced
  <2>4. CASE z # x \/ d.at # "none" \/ o = 0
    <3>1. Used(z) \subseteq Used(z)'
      BY <1>1, <2>1, <2>2, <2>4
    <3> QED BY <1>4, <1>14, <3>1 DEF Balanced
  <2> QED BY <2>3, <2>4
<1>17. Accounted'
  BY <1>a, <1>6, <1>16, AccountKept
<1> QED BY <1>6, <1>8, <1>9, <1>11, <1>13, <1>17 DEF TokenInv

(* storeRefreshToken failed, or signing did: the request gives up. *)
LEMMA TokenAbandoned ==
  ASSUME TokenInv, NEW r \in Requests, req[r].at = "set", req' = [req EXCEPT ![r] = Waiting],
         UNCHANGED <<store, issued, forks, generated, root, ended, unsure>>
  PROVE  TokenInv'
<1>a. TokenTypes /\ Rotation /\ Descent /\ StoredFirst /\ NoLockOut /\ Accounted
  BY DEF TokenInv
<1>0. PICK n, o, x : n = req[r].new /\ o = req[r].old /\ x = root[n]
  OBVIOUS
<1>b. Busy(r)
  BY DEF Busy
<1>1. /\ n \in Tokens /\ x \in Tokens /\ (o # 0 => root[o] = x) /\ store[n] = "absent"
      /\ \A s \in Requests : Busy(s) /\ s # r => req[s].new # n
  BY <1>0, <1>b, TokenBusy
<1>2. /\ req' \in [Requests -> RequestStates] /\ req'[r].at = "none"
      /\ \A s \in Requests : s # r => req'[s] = req[s]
  BY <1>a, RequestFields DEF TokenTypes
<1>3. TokenTypes'
  BY <1>a, <1>2 DEF TokenTypes
<1>4. \A s \in Requests : (Busy(s))' => Busy(s) /\ s # r /\ req'[s] = req[s]
  BY <1>2 DEF Busy
<1>5. Rotation'
  BY <1>a, <1>4 DEF Rotation
<1>6. Descent' /\ StoredFirst' /\ NoLockOut'
  BY <1>a, <1>2 DEF Descent, StoredFirst, NoLockOut, Live, LiveOf
<1>7. \A z \in Tokens : Pend(z)' \subseteq Pend(z) \ {n} /\ Room(z)' = Room(z) /\ LiveOf(z)' = LiveOf(z)
  <2>1. \A s \in Requests : req'[s].at = "set" => req[s].at = "set" /\ req'[s] = req[s] /\ req[s].new # n
    BY <1>1, <1>2 DEF Busy
  <2> QED BY <1>1, <2>1 DEF Pend, Room, LiveOf, Live
<1>8. ASSUME NEW z \in Tokens
      PROVE  Balanced(Pend(z), Used(z), forks[z], Room(z), Pend(z)', Used(z)', forks[z]', Room(z)')
  <2>1. \A t \in Tokens : \A q \in Using(t) : q \in Using(t)' \/ t = o
    BY <1>0, <1>2 DEF Using
  <2>2. \A t \in Used(z) : t \in Used(z)' \/ t = o
    BY <1>7, <2>1 DEF Used, LiveOf
  <2>3. forks'[z] >= forks[z]
    BY <1>a DEF TokenTypes
  <2>4. CASE z = x
    <3>1. n \in Pend(z)
      BY <1>0, <1>1, <2>4 DEF Pend
    <3>2. Used(z) \subseteq Used(z)' \cup {o}
      BY <2>2
    <3> QED BY <1>7, <2>3, <3>1, <3>2 DEF Balanced
  <2>5. CASE z # x
    <3>1. \A t \in Used(z) : t # 0 /\ root[t] = z
      <4>1. \A t \in Tokens : t # 0
        BY TokensAssumption DEF Tokens
      <4> QED BY <4>1 DEF Used, LiveOf
    <3>2. Used(z) \subseteq Used(z)'
      BY <1>1, <2>2, <2>5, <3>1
    <3> QED BY <1>7, <2>3, <3>2 DEF Balanced
  <2> QED BY <2>4, <2>5
<1>9. Accounted'
  BY <1>a, <1>3, <1>8, AccountKept
<1> QED BY <1>3, <1>5, <1>6, <1>9 DEF TokenInv

(* Delete of the old token: applied and answered; or an error is reported, *)
(* and it was applied or not.                                              *)
LEMMA TokenRevoked ==
  ASSUME TokenInv, NEW r \in Requests, req[r].at = "revoke", NEW n, NEW o, NEW x,
         n = req[r].new, o = req[r].old, x = root[n], req' = [req EXCEPT ![r] = Waiting],
         \/ /\ store' = [store EXCEPT ![o] = "absent"] /\ issued' = issued \cup {n}
            /\ forks' = forks /\ unsure' = unsure
         \/ /\ store' = store /\ issued' = issued
            /\ forks' = [forks EXCEPT ![x] = @ + 1] /\ unsure' = unsure
         \/ /\ store' = [store EXCEPT ![o] = "absent"] /\ issued' = issued
            /\ forks' = [forks EXCEPT ![x] = @ + 1] /\ unsure' = unsure \cup {x},
         UNCHANGED <<generated, root, ended>>
  PROVE  TokenInv'
<1> USE TokensAssumption
<1>a. TokenTypes /\ Rotation /\ Descent /\ StoredFirst /\ NoLockOut /\ Accounted
  BY DEF TokenInv
<1>b. Busy(r)
  BY DEF Busy
<1>1. /\ n \in Tokens /\ n <= generated /\ n \notin issued /\ x \in Tokens
      /\ o \in issued /\ o \in Tokens /\ root[o] = x /\ o # n
      /\ \A s \in Requests : Busy(s) /\ s # r => req[s].new # n
      /\ Live(n) \/ x \in ended
  BY <1>b, TokenBusy
<1>2. /\ req' \in [Requests -> RequestStates] /\ req'[r].at = "none"
      /\ \A s \in Requests : s # r => req'[s] = req[s]
  BY <1>a, RequestFields DEF TokenTypes
<1>3. /\ store' \in [Tokens -> {"absent", "live", "expired"}]
      /\ \A t \in Tokens : store'[t] = store[t] \/ (t = o /\ store'[t] = "absent")
  BY <1>a, <1>1 DEF TokenTypes
<1>4. /\ forks' \in [Tokens -> Nat] /\ \A z \in Tokens : forks'[z] >= forks[z]
      /\ issued' = issued => forks'[x] = forks[x] + 1
      /\ issued' # issued => store'[o] = "absent"
  BY <1>a, <1>1 DEF TokenTypes
<1>5. issued \subseteq issued' /\ issued' \subseteq issued \cup {n}
  OBVIOUS
<1>6. TokenTypes'
  <2>1. issued' \subseteq 1 .. generated
    BY <1>a, <1>1, <1>5 DEF TokenTypes, Tokens
  <2> QED BY <1>a, <1>2, <1>3, <1>4, <2>1 DEF TokenTypes
<1>7. \A s \in Requests : (Busy(s))' => Busy(s) /\ s # r /\ req'[s] = req[s] /\ req[s].new # n
  BY <1>1, <1>2 DEF Busy
<1>8. Rotation'
  BY <1>a, <1>5, <1>7 DEF Rotation
<1>9. \A s \in Requests : (Busy(s))' => /\ req[s].new \in Tokens
                                        /\ store'[req[s].new] = store[req[s].new]
  <2>1. \A s \in Requests : Busy(s) => req[s].new \in Tokens /\ req[s].new \notin issued
    BY <1>a, RequestFields DEF Busy, TokenTypes, Rotation
  <2> QED BY <1>1, <1>3, <1>7, <2>1
<1>10. Descent' /\ StoredFirst'
  <2>1. \A t \in Tokens : t > generated => store'[t] = "absent"
    BY <1>a, <1>3 DEF Descent
  <2>2. \A s \in Requests : req'[s].at \in {"set", "revoke"} => (Busy(s))'
    BY DEF Busy
  <2>3. Descent'
    BY <1>a, <1>7, <1>9, <2>1, <2>2 DEF Descent
  <2> QED BY <1>a, <1>7, <1>9, <2>2, <2>3 DEF StoredFirst, Live
<1>11. \A z \in Tokens : /\ LiveOf(z)' \subseteq LiveOf(z) /\ LiveOf(z) \subseteq LiveOf(z)' \cup {o}
                         /\ z # x => LiveOf(z)' = LiveOf(z)
  BY <1>1, <1>3 DEF LiveOf, Live
<1>12. NoLockOut'
  <2> SUFFICES ASSUME NEW y \in issued', root[y] = y, y \notin ended, y \notin unsure'
               PROVE  LiveOf(y)' \cap issued' # {}
    BY DEF NoLockOut
  <2>1. y \in Tokens
    BY <1>6 DEF TokenTypes, Tokens
  <2>2. CASE y # x
    BY <1>a, <1>1, <1>5, <1>11, <2>1, <2>2 DEF NoLockOut
  <2>3. CASE y = x /\ n \in issued'
    <3>1. n \in LiveOf(y)'
      BY <1>1, <1>3, <2>3 DEF LiveOf, Live
    <3> QED BY <2>3, <3>1
  <2>4. CASE y = x /\ n \notin issued'
    <3>1. store' = store /\ issued' = issued /\ unsure' = unsure
      BY <2>4
    <3> QED BY <1>a, <3>1 DEF NoLockOut, LiveOf, Live
  <2> QED BY <2>2, <2>3, <2>4
<1>13. \A z \in Tokens : Pend(z)' \subseteq Pend(z) /\ Room(z)' = Room(z)
  BY <1>2, <1>11 DEF Pend, Room
<1>14. ASSUME NEW z \in Tokens
       PROVE  Balanced(Pend(z), Used(z), forks[z], Room(z), Pend(z)', Used(z)', forks[z]', Room(z)')
  <2>1. \A t \in Tokens : \A q \in Using(t) : q \in Using(t)' \/ t = o
    BY <1>2 DEF Using
  <2>2. Used(z) \subseteq Used(z)' \cup {o} /\ \A t \in Used(z) : root[t] = z
    BY <1>11, <2>1 DEF Used, LiveOf
  <2>3. CASE z # x
    BY <1>1, <1>4, <1>13, <2>2, <2>3 DEF Balanced
  <2>4. CASE z = x /\ issued' = issued
    <3>1. forks'[z] >= forks[z] + 1
      BY <1>a, <1>1, <1>4, <2>4 DEF TokenTypes
    <3> QED BY <1>13, <2>2, <3>1 DEF Balanced
  <2>5. CASE z = x /\ issued' # issued /\ Live(o)
    <3>1. o \in Pend(z)
      BY <1>1, <2>5 DEF Pend, LiveOf
    <3>2. o \notin LiveOf(z)'
      BY <1>4, <2>5 DEF LiveOf, Live
    <3>3. \A s \in Requests : req'[s].at = "set" => req'[s].new # o
      BY <1>a, <1>1, <1>7 DEF Busy, Rotation
    <3>4. Pend(z)' \subseteq Pend(z) \ {o}
      BY <1>13, <3>2, <3>3 DEF Pend
    <3> QED BY <1>4, <1>13, <2>2, <3>1, <3>4 DEF Balanced
  <2>6. CASE z = x /\ issued' # issued /\ ~Live(o)
    <3>1. o \notin Used(z)
      BY <2>6 DEF Used, LiveOf
    <3> QED BY <1>4, <1>13, <2>2, <3>1 DEF Balanced
  <2> QED BY <2>3, <2>4, <2>5, <2>6
<1>15. Accounted'
  BY <1>a, <1>6, <1>14, AccountKept
<1> QED BY <1>6, <1>8, <1>10, <1>12, <1>15 DEF TokenInv

(* A live token goes, by a logout or because it expires: its login ends. *)
LEMMA TokenDies ==
  ASSUME TokenInv, NEW t \in Tokens, Live(t), NEW v \in {"absent", "expired"}, NEW x, x = root[t],
         store' = [store EXCEPT ![t] = v], ended' = ended \cup {x},
         IF Using(t) # {} THEN forks' = [forks EXCEPT ![x] = @ + 1] ELSE forks' = forks,
         UNCHANGED <<generated, root, req, issued, unsure>>
  PROVE  TokenInv'
<1> USE TokensAssumption
<1>a. TokenTypes /\ Rotation /\ Descent /\ StoredFirst /\ NoLockOut /\ Accounted
  BY DEF TokenInv
<1>1. t <= generated /\ x \in 1 .. generated /\ x \in Tokens
  <2>1. t <= generated
    BY <1>a DEF Descent, Live, TokenTypes, Tokens
  <2>2. t \in 1 .. generated /\ \A u \in 1 .. generated : u \in Tokens
    BY <1>a, <2>1 DEF TokenTypes, Tokens
  <2> QED BY <1>a, <2>1, <2>2 DEF Descent
<1>2. /\ store' \in [Tokens -> {"absent", "live", "expired"}] /\ store'[t] = v
      /\ \A u \in Tokens : u # t => store'[u] = store[u]
  BY <1>a DEF TokenTypes
<1>3. /\ forks' \in [Tokens -> Nat] /\ \A z \in Tokens : forks'[z] >= forks[z]
      /\ Using(t) # {} => forks'[x] = forks[x] + 1
  BY <1>a, <1>1 DEF TokenTypes
<1>4. TokenTypes' /\ Rotation'
  BY <1>a, <1>2, <1>3 DEF TokenTypes, Rotation, Busy
<1>5. \A s \in Requests : Busy(s) => req[s].new \in Tokens
  BY <1>a, RequestFields DEF Busy, TokenTypes
<1>6. Descent'
  <2>1. \A u \in Tokens : u > generated => store'[u] = "absent"
    BY <1>a, <1>1, <1>2 DEF Descent, Tokens, TokenTypes
  <2>2. \A s \in Requests : req[s].at = "set" => store'[req[s].new] = "absent"
    BY <1>a, <1>2, <1>5 DEF Descent, Live, Busy
  <2> QED BY <1>a, <1>1, <2>1, <2>2 DEF Descent
<1>7. StoredFirst'
  BY <1>a, <1>2, <1>5 DEF StoredFirst, Live, Busy
<1>8. \A z \in Tokens : LiveOf(z)' = LiveOf(z) \ {t} /\ (z # x => t \notin LiveOf(z))
  BY <1>2 DEF LiveOf, Live
<1>9. NoLockOut'
  <2>1. issued \subseteq Tokens
    BY <1>a DEF TokenTypes, Tokens
  <2> QED BY <1>a, <1>8, <2>1 DEF NoLockOut
<1>10. ASSUME NEW z \in Tokens
       PROVE  Balanced(Pend(z), Used(z), forks[z], Room(z), Pend(z)', Used(z)', forks[z]', Room(z)')
  <2>1. \A u : Using(u)' = Using(u)
    BY DEF Using
  <2>2. Used(z)' = Used(z) \ {t}
    BY <1>8, <2>1 DEF Used
  <2>3. CASE z # x
    <3>1. Pend(z)' \subseteq Pend(z) /\ Used(z) \subseteq Used(z)' /\ Room(z)' = Room(z)
      BY <1>8, <2>2, <2>3 DEF Pend, Used, Room
    <3> QED BY <1>3, <3>1 DEF Balanced
  <2>4. CASE z = x
    <3>1. t \in Pend(z)
      BY <2>4 DEF Pend, LiveOf
    <3>2. \A s \in Requests : req[s].at = "set" => req[s].new # t
      BY <1>a DEF Descent, Live
    <3>3. Pend(z)' \subseteq Pend(z) \ {t}
      BY <1>8, <3>2 DEF Pend
    <3>4. CASE Using(t) = {}
      <4>1. Used(z) \subseteq Used(z)'
        BY <2>2, <3>4 DEF Used
      <4> QED BY <1>3, <3>1, <3>3, <4>1 DEF Balanced
    <3>5. CASE Using(t) # {}
      <4>1. Used(z) \subseteq Used(z)' \cup {t} /\ forks'[z] >= forks[z] + 1
        BY <1>a, <1>1, <1>3, <2>2, <2>4, <3>5 DEF TokenTypes
      <4> QED BY <3>1, <3>3, <4>1 DEF Balanced
    <3> QED BY <3>4, <3>5
  <2> QED BY <2>3, <2>4
<1>11. Accounted'
  BY <1>a, <1>4, <1>10, AccountKept
<1> QED BY <1>4, <1>6, <1>7, <1>9, <1>11 DEF TokenInv

(* Nothing that is live goes, and nothing else of the login changes. *)
LEMMA TokensRest ==
  ASSUME TokenInv, store' \in [Tokens -> {"absent", "live", "expired"}],
         \A t \in Tokens : store'[t] = store[t] \/ (store[t] = "expired" /\ store'[t] = "absent"),
         UNCHANGED <<generated, root, req, issued, ended, forks, unsure>>
  PROVE  TokenInv'
<1>a. TokenTypes /\ Rotation /\ Descent /\ StoredFirst /\ NoLockOut /\ Accounted
  BY DEF TokenInv
<1>1. TokenTypes' /\ Rotation'
  BY <1>a DEF TokenTypes, Rotation, Busy
<1>2. \A s \in Requests : Busy(s) => req[s].new \in Tokens
  BY <1>a, RequestFields DEF Busy, TokenTypes
<1>3. Descent'
  BY <1>a, <1>2 DEF Descent, Busy
<1>4. StoredFirst'
  BY <1>a, <1>2 DEF StoredFirst, Live, Busy
<1>5. \A z : LiveOf(z)' = LiveOf(z)
  BY DEF LiveOf, Live
<1>6. NoLockOut'
  BY <1>a, <1>5 DEF NoLockOut
<1>7. Accounted'
  <2>1. \A u : Using(u)' = Using(u)
    BY DEF Using
  <2>2. \A z : Pend(z)' = Pend(z) /\ Used(z)' = Used(z) /\ Room(z)' = Room(z)
    BY <1>5, <2>1 DEF Pend, Used, Room
  <2> QED BY <1>a, <2>2 DEF Accounted
<1> QED BY <1>1, <1>3, <1>4, <1>6, <1>7 DEF TokenInv

LEMMA TokensInitial == TokensInit => TokenInv
<1> SUFFICES ASSUME TokensInit PROVE TokenInv
  OBVIOUS
<1> USE TokensAssumption
<1>1. /\ generated = 0 /\ issued = {} /\ ended = {} /\ forks \in [Tokens -> Nat]
      /\ store = [t \in Tokens |-> "absent"] /\ root = [t \in Tokens |-> 0]
      /\ \A t \in Tokens : store[t] = "absent" /\ root[t] = 0 /\ t > 0
      /\ \A r \in Requests : req[r] = Waiting
      /\ req = [r \in Requests |-> Waiting]
  BY DEF TokensInit, Tokens
<1>2. \A r \in Requests : req[r].at = "none"
  BY <1>1, RequestFields
<1>3. TokenTypes
  BY <1>1, RequestFields DEF TokenTypes
<1>4. Rotation /\ StoredFirst /\ NoLockOut
  BY <1>1, <1>2 DEF Rotation, StoredFirst, NoLockOut, Busy
<1>5. Descent
  BY <1>1, <1>2 DEF Descent
<1>6. Accounted
  <2> SUFFICES ASSUME NEW x \in Tokens
               PROVE  Cardinality(Pend(x)) <= Cardinality(Used(x)) + forks[x] + Room(x)
    BY DEF Accounted
  <2>1. LiveOf(x) = {}
    BY <1>1 DEF LiveOf, Live
  <2>2. Pend(x) = {} /\ Used(x) = {}
    BY <1>2, <2>1 DEF Pend, Used
  <2>3. Cardinality({}) = 0
    BY FS_EmptySet
  <2>4. forks[x] \in Nat /\ Room(x) \in {0, 1}
    BY <1>1 DEF Room
  <2> QED BY <2>2, <2>3, <2>4
<1> QED BY <1>3, <1>4, <1>5, <1>6 DEF TokenInv

LEMMA TokensStep == ASSUME TokenInv, [TokensNext]_tokenVars PROVE TokenInv'
<1> USE TokensAssumption
<1>a. TokenTypes /\ Rotation
  BY DEF TokenInv
<1>1. ASSUME UNCHANGED <<generated, store, root, req, issued, ended, forks, unsure>> PROVE TokenInv'
  BY <1>1, <1>a, TokensRest DEF TokenTypes
<1>2. ASSUME NEW r \in Requests, Login(r) PROVE TokenInv'
  BY <1>2, TokenBegins DEF Login
<1>3. ASSUME NEW r \in Requests, NEW t \in Tokens, RefreshGet(r, t) PROVE TokenInv'
  <2>1. CASE Found(t)
    <3>1. t # 0 /\ t \in issued
      BY <1>3 DEF RefreshGet, Tokens
    <3> QED BY <1>3, <2>1, <3>1, TokenBegins DEF RefreshGet, Forks
  <2>2. CASE ~Found(t)
    <3>1. /\ store[t] = "expired" /\ store' = [store EXCEPT ![t] = "absent"]
          /\ UNCHANGED <<generated, root, req, issued, ended, forks, unsure>>
      BY <1>3, <2>2 DEF RefreshGet, Drop
    <3>2. /\ store' \in [Tokens -> {"absent", "live", "expired"}]
          /\ \A u \in Tokens : store'[u] = store[u] \/ (store[u] = "expired" /\ store'[u] = "absent")
      BY <1>a, <3>1 DEF TokenTypes
    <3> QED BY <3>1, <3>2, TokensRest
  <2> QED BY <2>1, <2>2
<1>4. ASSUME NEW r \in Requests, StoreNew(r) PROVE TokenInv'
  <2>0. PICK n, o, x : n = req[r].new /\ o = req[r].old /\ x = root[n]
    OBVIOUS
  <2>1. /\ req[r].at = "set" /\ req[r] \in RequestStates
        /\ UNCHANGED <<generated, root, ended>>
    BY <1>4, <1>a DEF StoreNew, TokenTypes
  <2>2. [req[r] EXCEPT !.at = "revoke"] = [at |-> "revoke", old |-> o, new |-> n]
    BY <2>0, <2>1, RequestFields
  <2>3. [at |-> "revoke", old |-> o, new |-> n] \in RequestStates
    BY <2>0, <2>1, RequestFields DEF RequestStates
  <2>4. CASE UNCHANGED <<errors, forks, unsure>> /\ Put(n)
             /\ IF o = 0 THEN Answer(r)
                ELSE req' = [req EXCEPT ![r].at = "revoke"] /\ UNCHANGED issued
    <3>1. CASE o = 0
      <4>1. /\ store' = [store EXCEPT ![n] = "live"] /\ req' = [req EXCEPT ![r] = Waiting]
            /\ issued' = issued \cup {n} /\ forks' = forks
            /\ UNCHANGED <<generated, root, ended, unsure>>
        BY <2>0, <2>1, <2>4, <3>1 DEF Put, Answer
      <4> QED BY <2>0, <2>1, <3>1, <4>1, TokenStored, RequestFields
    <3>2. CASE o # 0
      <4>1. PICK d \in RequestStates : d = [at |-> "revoke", old |-> o, new |-> n]
        BY <2>3
      <4>2. d.at = "revoke" /\ d.old = o /\ d.new = n /\ req' = [req EXCEPT ![r] = d]
        BY <2>2, <2>4, <3>2, <4>1
      <4>3. /\ store' = [store EXCEPT ![n] = "live"] /\ issued' = issued /\ forks' = forks
            /\ UNCHANGED <<generated, root, ended, unsure>>
        BY <2>1, <2>4, <3>2 DEF Put
      <4> QED BY <2>0, <2>1, <3>2, <4>2, <4>3, TokenStored
    <3> QED BY <3>1, <3>2
  <2>5. CASE req' = [req EXCEPT ![r] = Waiting] /\ UNCHANGED <<issued, unsure, store, forks>>
    BY <2>1, <2>5, TokenAbandoned
  <2>6. CASE req' = [req EXCEPT ![r] = Waiting] /\ UNCHANGED <<issued, unsure>> /\ Put(n) /\ Forks(x)
    BY <2>0, <2>1, <2>6, TokenStored, RequestFields DEF Put, Forks
  <2> QED BY <1>4, <2>0, <2>4, <2>5, <2>6 DEF StoreNew
<1>5. ASSUME NEW r \in Requests, RevokeOld(r) PROVE TokenInv'
  <2>0. PICK n, o, x : n = req[r].new /\ o = req[r].old /\ x = root[n]
    OBVIOUS
  <2>1. req[r].at = "revoke" /\ UNCHANGED <<generated, root, ended>> /\ Busy(r)
    BY <1>5 DEF RevokeOld, Busy
  <2>2. root[o] = x
    BY <2>0, <2>1, TokenBusy
  <2> QED BY <1>5, <2>0, <2>1, <2>2, TokenRevoked DEF RevokeOld, Drop, Forks, Answer
<1>6. ASSUME NEW t \in Tokens, Logout(t) PROVE TokenInv'
  <2>1. CASE Live(t) /\ store' # store
    <3>1. /\ store' = [store EXCEPT ![t] = "absent"] /\ ended' = ended \cup {root[t]}
          /\ IF Using(t) # {} THEN forks' = [forks EXCEPT ![root[t]] = @ + 1] ELSE forks' = forks
          /\ UNCHANGED <<generated, root, req, issued, unsure>>
      BY <1>6, <2>1 DEF Logout, Drop, Forks
    <3> QED BY <2>1, <3>1, TokenDies
  <2>3. CASE Live(t) /\ store' = store
    <3>1. store' # [store EXCEPT ![t] = "absent"]
      BY <1>a, <2>3 DEF TokenTypes, Live
    <3> QED BY <1>1, <1>6, <3>1 DEF Logout, Drop
  <2>2. CASE ~Live(t) /\ Drop(t)
    <3>1. /\ store' = [store EXCEPT ![t] = "absent"] /\ store[t] # "live"
          /\ UNCHANGED <<generated, root, req, issued, ended, forks, unsure>>
      BY <1>6, <2>2 DEF Logout, Drop, Live
    <3>2. /\ store' \in [Tokens -> {"absent", "live", "expired"}]
          /\ \A u \in Tokens : store'[u] = store[u] \/ (store[u] = "expired" /\ store'[u] = "absent")
      BY <1>a, <3>1 DEF TokenTypes
    <3> QED BY <3>1, <3>2, TokensRest
  <2> QED BY <1>1, <1>6, <2>1, <2>2, <2>3 DEF Logout
<1>7. ASSUME NEW t \in Tokens, TokenExpires(t) PROVE TokenInv'
  <2>1. PICK v \in {"absent", "expired"} : v = IF UseRedis THEN "absent" ELSE "expired"
    OBVIOUS
  <2> QED BY <1>7, <2>1, TokenDies DEF TokenExpires, Forks
<1>8. CASE Cleanup
  <2>1. /\ store' \in [Tokens -> {"absent", "live", "expired"}]
        /\ \A u \in Tokens : store'[u] = store[u] \/ (store[u] = "expired" /\ store'[u] = "absent")
    BY <1>8, <1>a DEF Cleanup, TokenTypes
  <2> QED BY <1>8, <2>1, TokensRest DEF Cleanup
<1>9. ASSUME NEW t \in Tokens, Invalidate(t) PROVE TokenInv'
  BY <1>1, <1>9 DEF Invalidate
<1>10. CASE UNCHANGED tokenVars
  BY <1>1, <1>10 DEF tokenVars
<1> QED
  BY <1>2, <1>3, <1>4, <1>5, <1>6, <1>7, <1>8, <1>9, <1>10 DEF TokensNext

(* For any number of concurrent requests, tokens and failing calls, with   *)
(* either store: a login has one live token more than its forks while it   *)
(* lasts, and no more than its forks once it has ended (RefreshHandler,    *)
(* TokenGeneratorWithRevocation, LogoutHandler).                           *)
THEOREM TokensCounted == TokensSpec => []OneTokenPerLogin
<1>1. TokenInv => OneTokenPerLogin
  <2> SUFFICES ASSUME TokenInv, NEW x \in Tokens, Quiet(x)
               PROVE  Cardinality(LiveOf(x)) <= forks[x] + Room(x)
    BY DEF OneTokenPerLogin, Room
  <2>1. TokenTypes /\ Rotation /\ Accounted
    BY DEF TokenInv
  <2>2. \A r \in Requests : Busy(r) => root[req[r].new] # x
    BY RequestFields DEF Quiet, Busy
  <2>3. Used(x) = {}
    <3> SUFFICES ASSUME NEW t \in LiveOf(x), NEW r \in Using(t) PROVE FALSE
      BY DEF Used
    <3>1. r \in Requests /\ Busy(r) /\ req[r].old = t /\ t # 0 /\ root[t] = x
      BY TokensAssumption DEF Using, Busy, LiveOf, Tokens
    <3> QED BY <2>1, <2>2, <3>1 DEF Rotation
  <2>4. Cardinality(LiveOf(x)) <= Cardinality(Pend(x))
    <3>1. Pend(x) \in SUBSET Tokens /\ LiveOf(x) \subseteq Pend(x)
      BY DEF Pend, LiveOf
    <3> QED BY <3>1, TokensFinite, FS_Subset
  <2>5. /\ Cardinality(LiveOf(x)) \in Nat /\ Cardinality(Pend(x)) \in Nat
        /\ Cardinality(Used(x)) = 0 /\ forks[x] \in Nat /\ Room(x) \in {0, 1}
    <3>1. LiveOf(x) \in SUBSET Tokens /\ Pend(x) \in SUBSET Tokens
      BY DEF Pend, LiveOf
    <3>2. Cardinality(Used(x)) = 0
      BY <2>3, FS_EmptySet
    <3> QED BY <2>1, <3>1, <3>2, TokensFinite DEF TokenTypes, Room
  <2>6. Cardinality(Pend(x)) <= Cardinality(Used(x)) + forks[x] + Room(x)
    BY <2>1 DEF Accounted
  <2> QED BY <2>4, <2>5, <2>6
<1> QED BY <1>1, TokensInitial, TokensStep, PTL DEF TokensSpec

(* Under the same conditions a client that was answered always holds a     *)
(* live token, until its login ends or Redis reported an error for a       *)
(* revocation it had applied: the store before the revocation is enough    *)
(* (TokenGeneratorWithRevocation).                                         *)
THEOREM TokensNoLockOut == TokensSpec => []NoLockOut
<1>1. TokenInv => NoLockOut
  BY DEF TokenInv
<1> QED BY <1>1, TokensInitial, TokensStep, PTL DEF TokensSpec

-----------------------------------------------------------------------------
(* Merging code.  What KeepsUserCode says of one step: d of the old file   *)
(* is kept as e of the new one.                                            *)
KeptAs(d, e) ==
  /\ e.kind = d.kind /\ e.names = d.names
  /\ \A n \in DOMAIN d.members : Unread(n, d) \/ d.members[n] \subseteq e.members[n]
  /\ \/ e.text = d.text
     \/ last'.cover /\ d.kind = "func" /\ d.names[1] \notin Ignored

FileTyped == \A d \in file : IsDecl(d)

(* Type groups aside, a declaration declares its names. *)
LEMMA PlainDecl ==
  ASSUME NEW d, IsDecl(d), d.kind = "type" => ~d.group
  PROVE  /\ Declared(d) = {d.names}
         /\ d.kind = "type" => \E n \in Range(d.names) : d.names = <<n>>
         /\ Len(d.names) = 2 => d.kind = "func"
         /\ Len(d.names) \in {1, 2}
         /\ \A f : Shortened(d, f) = d
<1>1. \/ d.kind = "func" /\ Len(d.names) = 2
      \/ \E n \in Range(d.names) : d.names = <<n>>
  BY DEF IsDecl
<1>2. CASE \E n \in Range(d.names) : d.names = <<n>>
  <2>1. PICK n : d.names = <<n>>
    BY <1>2
  <2>2. Len(d.names) = 1
    BY <2>1
  <2>3. Range(d.names) = {n}
    BY <2>1 DEF Range
  <2>4. Declared(d) = {d.names}
    BY <2>1, <2>3 DEF Declared
  <2>5. \A f : Shortened(d, f) = d
    BY <2>2 DEF Shortened
  <2> QED BY <1>2, <2>2, <2>4, <2>5
<1>3. CASE d.kind = "func" /\ Len(d.names) = 2
  BY <1>3 DEF Declared, Shortened
<1> QED BY <1>1, <1>2, <1>3

(* What a merge makes of a declaration of the file. *)
WithMembers(d, g) == IF d.kind = "type" THEN MergeMembers(d, g) ELSE d
Merged(d, g, c)   == IF c THEN Cover(WithMembers(d, g), g) ELSE WithMembers(d, g)

(* A merge changes the declarations of the file one by one, and adds some. *)
LEMMA MergeSplits ==
  ASSUME NEW f, NEW g, NEW c \in BOOLEAN
  PROVE  mergeCode(f, g, c) = {Merged(d, g, c) : d \in f} \cup Additions(f, g)
  BY DEF mergeCode, Merged, WithMembers

(* Members are added, and a second time nothing is: to a struct, and to an *)
(* interface of which something is read.                                   *)
LEMMA MembersGrow ==
  ASSUME NEW have, NEW gen
  PROVE  /\ have \subseteq MergeStruct(have, gen)
         /\ MergeStruct(MergeStruct(have, gen), gen) = MergeStruct(have, gen)
         /\ have \subseteq Foreign \/ have \subseteq MergeInterface(have, gen)
         /\ MergeInterface(MergeInterface(have, gen), gen) = MergeInterface(have, gen)
         /\ gen \subseteq have
              => MergeStruct(have, gen) = have /\ MergeInterface(have, gen) = have
<1>1. \A m : m \in MergeStruct(have, gen) <=>
              m \in have \/ (m \in gen /\ (m \in Foreign => have \cap Foreign = {}))
  BY DEF MergeStruct, NewStructFields
<1>2. NewStructFields(MergeStruct(have, gen), gen) = {}
  <2> SUFFICES ASSUME NEW m \in gen, m \notin MergeStruct(have, gen),
                      m \in Foreign => MergeStruct(have, gen) \cap Foreign = {}
               PROVE  FALSE
    BY DEF NewStructFields
  <2>1. m \in Foreign /\ have \cap Foreign # {}
    BY <1>1
  <2>2. PICK x : x \in have /\ x \in Foreign
    BY <2>1
  <2>3. x \in MergeStruct(have, gen) \cap Foreign
    BY <1>1, <2>2
  <2> QED BY <2>1, <2>3
<1>3. MergeStruct(MergeStruct(have, gen), gen) = MergeStruct(have, gen)
  BY <1>2 DEF MergeStruct
<1>4. NewInterfaceMethods(MergeInterface(have, gen), gen) = {}
  <2>1. ASSUME NEW m \in gen, m \notin Foreign PROVE m \in MergeInterface(have, gen)
    <3>1. m \in have \/ m \in NewInterfaceMethods(have, gen)
      BY <2>1 DEF NewInterfaceMethods
    <3> QED BY <2>1, <3>1 DEF MergeInterface
  <2> QED BY <2>1 DEF NewInterfaceMethods
<1>5. MergeInterface(MergeInterface(have, gen), gen) = MergeInterface(have, gen)
  <2> DEFINE m == MergeInterface(have, gen)
  <2>1. \A x : NewInterfaceMethods(x, gen) = {} => MergeInterface(x, gen) = x
    BY DEF MergeInterface
  <2> QED BY <1>4, <2>1
<1>6. have \subseteq Foreign \/ have \subseteq MergeInterface(have, gen)
  BY DEF MergeInterface
<1>7. ASSUME gen \subseteq have
      PROVE  MergeStruct(have, gen) = have /\ MergeInterface(have, gen) = have
  <2>1. NewStructFields(have, gen) = {} /\ NewInterfaceMethods(have, gen) = {}
    BY <1>7 DEF NewStructFields, NewInterfaceMethods
  <2> QED BY <2>1 DEF MergeStruct, MergeInterface
<1> QED BY <1>1, <1>3, <1>5, <1>6, <1>7

(* The members of a type are merged: the rest of it stays, and a second    *)
(* merge of the same members makes no difference.                          *)
LEMMA MembersMerge ==
  ASSUME NEW d, NEW g, IsDecl(d), d.kind = "type"
  PROVE  /\ IsDecl(MergeMembers(d, g))
         /\ MergeMembers(d, g).kind = d.kind /\ MergeMembers(d, g).names = d.names
         /\ MergeMembers(d, g).text = d.text /\ MergeMembers(d, g).group = d.group
         /\ \A n \in DOMAIN d.members :
               Unread(n, d) \/ d.members[n] \subseteq MergeMembers(d, g).members[n]
         /\ MergeMembers(MergeMembers(d, g), g) = MergeMembers(d, g)
<1> DEFINE fields == {"kind", "names", "text", "within", "members", "interfaces", "group", "locals"}
           merged == [n \in DOMAIN d.members |-> MergedMembers(n, d, g)]
           m      == MergeMembers(d, g)
<1>1. d = [x \in fields |-> d[x]]
  BY DEF IsDecl
<1>2. m = [d EXCEPT !.members = merged]
  BY DEF MergeMembers
<1> HIDE DEF m
<1>3. /\ m = [x \in fields |-> m[x]] /\ m.members = merged /\ m.interfaces = d.interfaces
      /\ m.kind = d.kind /\ m.names = d.names /\ m.text = d.text /\ m.group = d.group
  BY <1>1, <1>2
<1>4. DOMAIN m.members = DOMAIN d.members
  BY <1>3
<1>5. \A n \in DOMAIN d.members : m.members[n] = MergedMembers(n, d, g)
  BY <1>3
<1>6. IsDecl(m)
  BY <1>3, <1>4 DEF IsDecl
<1>7. ASSUME NEW n \in DOMAIN d.members
      PROVE  /\ MergedMembers(n, m, g) = m.members[n]
             /\ Unread(n, d) \/ d.members[n] \subseteq m.members[n]
  <2>1. CASE n \in d.interfaces
    <3>1. /\ m.members[n] = MergeInterface(d.members[n], MembersOf(n, g, TRUE))
          /\ MergedMembers(n, m, g) = MergeInterface(m.members[n], MembersOf(n, g, TRUE))
      BY <1>3, <1>5, <2>1 DEF MergedMembers
    <3>2. \/ d.members[n] \subseteq Foreign
          \/ d.members[n] \subseteq MergeInterface(d.members[n], MembersOf(n, g, TRUE))
      BY MembersGrow
    <3>3. MergeInterface(MergeInterface(d.members[n], MembersOf(n, g, TRUE)), MembersOf(n, g, TRUE))
            = MergeInterface(d.members[n], MembersOf(n, g, TRUE))
      BY MembersGrow
    <3> QED BY <2>1, <3>1, <3>2, <3>3 DEF Unread
  <2>2. CASE n \notin d.interfaces
    <3>1. /\ m.members[n] = MergeStruct(d.members[n], MembersOf(n, g, FALSE))
          /\ MergedMembers(n, m, g) = MergeStruct(m.members[n], MembersOf(n, g, FALSE))
      BY <1>3, <1>5, <2>2 DEF MergedMembers
    <3>2. d.members[n] \subseteq MergeStruct(d.members[n], MembersOf(n, g, FALSE))
      BY MembersGrow
    <3>3. MergeStruct(MergeStruct(d.members[n], MembersOf(n, g, FALSE)), MembersOf(n, g, FALSE))
            = MergeStruct(d.members[n], MembersOf(n, g, FALSE))
      BY MembersGrow
    <3> QED BY <3>1, <3>2, <3>3
  <2> QED BY <2>1, <2>2
<1>8. MergeMembers(m, g) = m
  <2>1. [n \in DOMAIN m.members |-> MergedMembers(n, m, g)] = m.members
    <3>1. m.members = [n \in DOMAIN m.members |-> m.members[n]]
      BY <1>6 DEF IsDecl
    <3> QED BY <1>4, <1>7, <3>1
  <2>2. [m EXCEPT !.members = m.members] = m
    BY <1>3
  <2> QED BY <2>1, <2>2 DEF MergeMembers
<1> QED BY <1>3, <1>6, <1>7, <1>8 DEF m

(* A covered function is one of the generated file, of the same name. *)
LEMMA Covered ==
  ASSUME NEW d, NEW g
  PROVE  /\ \/ Cover(d, g) = d
            \/ /\ d.kind = "func" /\ Cover(d, g) \in g /\ Cover(d, g).kind = "func"
               /\ Cover(d, g).names = d.names /\ d.names[1] \notin Ignored
         /\ d.names \in Anonymous => Cover(d, g) = d
         /\ Cover(Cover(d, g), g) = Cover(d, g)
<1> DEFINE same(x) == {e \in OfKind("func", g) : e.names = x.names /\ e.names \notin Anonymous
                                                 /\ e.names[1] \notin Ignored}
<1>1. \A x : Cover(x, g) = IF x.kind = "func" /\ same(x) # {} THEN CHOOSE e \in same(x) : TRUE
                           ELSE x
  BY DEF Cover
<1>2. CASE d.kind = "func" /\ same(d) # {}
  <2>1. Cover(d, g) \in same(d)
    BY <1>1, <1>2
  <2>2. same(Cover(d, g)) = same(d) /\ Cover(d, g).kind = "func"
    BY <2>1 DEF OfKind
  <2>3. Cover(Cover(d, g), g) = Cover(d, g)
    BY <1>1, <1>2, <2>2
  <2> QED BY <1>2, <2>1, <2>3 DEF OfKind
<1>3. CASE ~(d.kind = "func" /\ same(d) # {})
  BY <1>1, <1>3
<1> QED BY <1>2, <1>3

(* A merge keeps kind and names of a declaration, and the group of a type; *)
(* merging it again makes no difference.                                   *)
LEMMA MergedKeeps ==
  ASSUME NEW d, IsDecl(d), NEW g, \A e \in g : IsDecl(e), NEW c \in BOOLEAN
  PROVE  /\ IsDecl(Merged(d, g, c))
         /\ Merged(d, g, c).kind = d.kind /\ Merged(d, g, c).names = d.names
         /\ d.kind = "type" => Merged(d, g, c).group = d.group
         /\ d.kind # "type" /\ (d.kind # "func" \/ d.names \in Anonymous)
              => Merged(d, g, c) = d
         /\ Merged(Merged(d, g, c), g, c) = Merged(d, g, c)
<1>1. CASE d.kind = "type"
  <2>1. PICK m : m = MergeMembers(d, g) OBVIOUS
  <2>2. IsDecl(m) /\ m.kind = "type" /\ m.names = d.names /\ m.group = d.group /\ MergeMembers(m, g) = m
    BY <1>1, <2>1, MembersMerge
  <2>3. \A x : x.kind = "type" => Cover(x, g) = x
    BY Covered
  <2>4. Merged(d, g, c) = m /\ Merged(m, g, c) = m
    BY <1>1, <2>1, <2>2, <2>3 DEF Merged, WithMembers
  <2> QED BY <1>1, <2>2, <2>4
<1>2. CASE d.kind # "type"
  <2>1. PICK m : m = Cover(d, g) OBVIOUS
  <2>2. /\ IsDecl(m) /\ m.kind = d.kind /\ m.names = d.names /\ Cover(m, g) = m
        /\ (d.kind # "func" \/ d.names \in Anonymous) => m = d
    BY <2>1, Covered
  <2>3. CASE c
    <3>1. Merged(d, g, c) = m /\ Merged(m, g, c) = m
      BY <1>2, <2>1, <2>2, <2>3 DEF Merged, WithMembers
    <3> QED BY <1>2, <2>2, <3>1
  <2>4. CASE ~c
    BY <1>2, <2>4 DEF Merged, WithMembers
  <2> QED BY <2>3, <2>4
<1> QED BY <1>1, <1>2

(* The declarations that ParseGoCode finds. *)
LEMMA ParsedDecls ==
  ASSUME NEW f
  PROVE  /\ f \subseteq AstInfos(f)
         /\ \A v \in AstInfos(f) : \/ v \in f
                                   \/ \E x, d : v = Local(x, d) /\ v.kind = "var" /\ v.names = <<x>>
                                                /\ <<x>> \in LocalNames(f)
<1>1. \A x, d : Local(x, d).kind = "var" /\ Local(x, d).names = <<x>>
  BY DEF Local
<1>2. \A d \in OfKind("func", f) : \A x \in d.locals : <<x>> \in LocalNames(f)
  BY DEF LocalNames
<1> QED BY <1>1, <1>2 DEF AstInfos

(* A local counts as a declaration. *)
LEMMA LocalDecl == \A x, d : IsDecl(Local(x, d))
<1> SUFFICES ASSUME NEW x, NEW d PROVE IsDecl(Local(x, d))
  OBVIOUS
<1>1. Range(<<x>>) = {x}
  BY DEF Range
<1>2. PICK no, none, h : no = FALSE /\ none = {} /\ h = <<>> OBVIOUS
<1>3. PICK v : v = [kind |-> "var", names |-> <<x>>, text |-> d.text, within |-> d.names,
                    members |-> h, interfaces |-> none, group |-> no, locals |-> none] OBVIOUS
<1>4. v = Local(x, d)
  BY <1>2, <1>3 DEF Local
<1>5. /\ v = [y \in {"kind", "names", "text", "within", "members", "interfaces", "group", "locals"}
                |-> v[y]]
      /\ v.kind = "var" /\ v.names = <<x>> /\ v.members = h
  BY <1>3
<1>6. DOMAIN h = {}
  BY <1>2
<1>7. h = [n \in DOMAIN h |-> h[n]]
  BY <1>2
<1>8. \E n \in Range(v.names) : v.names = <<n>>
  BY <1>1, <1>5
<1>9. IsDecl(v)
  BY <1>5, <1>6, <1>7, <1>8 DEF IsDecl
<1> QED BY <1>4, <1>9

(* And all that ParseGoCode finds in a file of declarations. *)
LEMMA ParsedAreDecls ==
  ASSUME NEW g, \A d \in g : IsDecl(d)
  PROVE  \A v \in AstInfos(g) : IsDecl(v)
<1> SUFFICES ASSUME NEW v \in AstInfos(g), v \notin g PROVE IsDecl(v)
  OBVIOUS
<1>1. PICK x, d : v = Local(x, d)
  BY DEF AstInfos
<1> QED BY <1>1, LocalDecl

-----------------------------------------------------------------------------
(* A variable put into parentheses is the same but for them. *)
LEMMA InGroup ==
  ASSUME NEW d, IsDecl(d), d.kind = "var", NEW f
  PROVE  /\ IsDecl(InParentheses(d)) /\ IsDecl(Placed(d, f))
         /\ Placed(d, f).kind = "var" /\ Placed(d, f).names = d.names
         /\ Placed(d, f) = d \/ Placed(d, f) = InParentheses(d)
         /\ VarNames(f) # {} => Placed(d, f) = InParentheses(d)
<1> DEFINE fields == {"kind", "names", "text", "within", "members", "interfaces", "group", "locals"}
<1>1. d = [x \in fields |-> d[x]]
  BY DEF IsDecl
<1>2. PICK t, v : t = TRUE /\ v = [d EXCEPT !.group = t] OBVIOUS
<1>3. v = InParentheses(d)
  BY <1>2 DEF InParentheses
<1>4. /\ v = [x \in fields |-> v[x]] /\ v.kind = d.kind /\ v.names = d.names
      /\ v.members = d.members
  BY <1>1, <1>2
<1>5. IsDecl(v)
  BY <1>4 DEF IsDecl
<1> QED BY <1>3, <1>4, <1>5 DEF Placed

(* Everything that a generated file would add is in f. *)
Present(f, g) ==
  /\ \A e \in OfKind("import", g) : e.names \in ImportPaths(f)
  /\ \A e \in OfKind("const", g) : e.names \in ConstNames(f)
  /\ \A v \in OfKind("var", AstInfos(g)) :
        /\ v.names \in VarNames(f)
        /\ v.names = <<"_">> => Contains(f, v) \/ InParentheses(v) \in f
  /\ \A e \in Methods(g) : e.names \in NamesOf(Methods(f))
  /\ \A e \in OfKind("type", g) \cup OfKind("func", g) :
        e.names \in Known(f) /\ (e.names \in Anonymous => Contains(f, e))

(* Then a merge adds nothing but copies of blank variables. *)
LEMMA PresentAddsNothing ==
  ASSUME NEW f, NEW g, Present(f, g)
  PROVE  Additions(f, g) \subseteq BlankCopies(g) \cap f
<1>1. NewImports(f, g) = {} /\ NewConsts(f, g) = {}
  BY DEF Present, NewImports, NewConsts
<1>2. ASSUME NEW d \in NewVars(f, g) PROVE d \in BlankCopies(g) \cap f
  <2>1. PICK x \in OfKind("var", AstInfos(g)) :
           /\ d = Placed(x, f)
           /\ x.names \notin VarNames(f) \/ (x.names = <<"_">> /\ ~Contains(f, x))
    BY <1>2 DEF NewVars
  <2>2. x.names \in VarNames(f) /\ x.names = <<"_">> /\ InParentheses(x) \in f
    BY <2>1 DEF Present
  <2>3. d = InParentheses(x)
    BY <2>1, <2>2 DEF Placed
  <2> QED BY <2>2, <2>3 DEF BlankCopies
<1>3. NewMethods(f, g) = {}
  BY DEF Present, NewMethods
<1>4. Appended(f, g) = {}
  BY DEF Present, Appended
<1> QED BY <1>1, <1>2, <1>3, <1>4 DEF Additions

(* Files grow. *)
LEMMA PresentGrows ==
  ASSUME NEW f, NEW g, NEW h, Present(f, g), f \subseteq h
  PROVE  Present(h, g)
<1>1. AstInfos(f) \subseteq AstInfos(h)
  BY DEF AstInfos, OfKind
<1>2. ImportPaths(f) \subseteq ImportPaths(h) /\ ConstNames(f) \subseteq ConstNames(h)
  BY DEF ImportPaths, ConstNames, NamesOf, OfKind
<1>3. VarNames(f) \subseteq VarNames(h) /\ Known(f) \subseteq Known(h)
  BY <1>1 DEF VarNames, Known, NamesOf, OfKind
<1>4. NamesOf(Methods(f)) \subseteq NamesOf(Methods(h))
  BY DEF Methods, NamesOf, OfKind
<1>5. \A d : Contains(f, d) => Contains(h, d)
  BY <1>1 DEF Contains
<1> QED BY <1>2, <1>3, <1>4, <1>5 DEF Present

Ungrouped(f) == \A d \in f : IsDecl(d) /\ (d.kind = "type" => ~d.group)

(* After a merge everything is present, unless it was masked. *)
LEMMA MergePresents ==
  ASSUME NEW f, NEW g, NEW c \in BOOLEAN, Ungrouped(f), Ungrouped(g), ~Masked(f, g),
         \A d \in OfKind("type", g) : Declared(d) \cap Anonymous = {}
  PROVE  Present(mergeCode(f, g, c), g)
<1> DEFINE h == mergeCode(f, g, c)
<1>1. ASSUME NEW d \in f
      PROVE  \E m \in h : /\ m.kind = d.kind /\ m.names = d.names
                          /\ d.kind # "type" /\ (d.kind # "func" \/ d.names \in Anonymous) => m = d
  <2>1. Merged(d, g, c) \in h
    BY MergeSplits
  <2> QED BY <2>1, MergedKeeps DEF Ungrouped
<1>2. Additions(f, g) \subseteq h
  BY MergeSplits
<1> HIDE DEF h
<1>3. \A e \in g : Declared(e) = {e.names} /\ Shortened(e, f) = e
  BY PlainDecl DEF Ungrouped
<1>4. \A d \in h : d \in AstInfos(h) /\ d.names \in Known(h)
  BY ParsedDecls DEF Known, NamesOf
<1>5. ASSUME NEW e \in OfKind("import", g) PROVE e.names \in ImportPaths(h)
  <2>1. CASE e.names \in ImportPaths(f)
    BY <1>1, <2>1 DEF ImportPaths, NamesOf, OfKind
  <2>2. CASE e.names \notin ImportPaths(f)
    <3>1. e \in h
      BY <1>2, <2>2 DEF Additions, NewImports
    <3> QED BY <3>1 DEF ImportPaths, NamesOf, OfKind
  <2> QED BY <2>1, <2>2
<1>6. ASSUME NEW e \in OfKind("const", g) PROVE e.names \in ConstNames(h)
  <2>1. CASE e.names \in ConstNames(f)
    BY <1>1, <2>1 DEF ConstNames, NamesOf, OfKind
  <2>2. CASE e.names \notin ConstNames(f)
    <3>1. e \in h
      BY <1>2, <2>2 DEF Additions, NewConsts
    <3> QED BY <3>1 DEF ConstNames, NamesOf, OfKind
  <2> QED BY <2>1, <2>2
<1>7. ASSUME NEW v \in OfKind("var", AstInfos(g))
      PROVE  /\ v.names \in VarNames(h)
             /\ v.names = <<"_">> => Contains(h, v) \/ InParentheses(v) \in h
  <2>0. v \in AstInfos(g) /\ v.kind = "var" /\ IsDecl(v)
    BY ParsedAreDecls DEF OfKind, Ungrouped
  <2>1. \A y \in h : y.kind = "var" => y.names \in VarNames(h)
    BY <1>4 DEF VarNames, NamesOf, OfKind
  <2>2. CASE v.names \notin VarNames(f) \/ (v.names = <<"_">> /\ ~Contains(f, v))
    <3>1. Placed(v, f) \in h
      BY <1>2, <2>2 DEF Additions, NewVars
    <3>2. CASE Placed(v, f) = v
      BY <1>4, <2>0, <2>1, <3>1, <3>2 DEF Contains
    <3>3. CASE Placed(v, f) = InParentheses(v)
      BY <2>0, <2>1, <3>1, <3>3, InGroup
    <3> QED BY <2>0, <3>2, <3>3, InGroup
  <2>3. CASE v.names \in VarNames(f) /\ (v.names = <<"_">> => Contains(f, v))
    <3>1. v.names \in VarNames(f) /\ (v.names = <<"_">> => Contains(f, v))
      BY <2>3
    <3>2. ASSUME v.names \in LocalNames(f)
          PROVE  v.names # <<"_">> /\ \E y \in f : y.kind = "var" /\ y.names = v.names
      <4>1. v \notin g
        BY <1>3, <3>2 DEF Masked
      <4>2. v.names \in LocalNames(g)
        BY <2>0, <4>1, ParsedDecls
      <4>3. v.names \in OwnVars(f)
        BY <3>2, <4>2 DEF Masked
      <4> QED BY <4>3 DEF OwnVars, NamesOf, OfKind
    <3>3. \E y \in f : y.kind = "var" /\ y.names = v.names
      <4>1. PICK y \in AstInfos(f) : y.kind = "var" /\ y.names = v.names
        BY <3>1 DEF VarNames, NamesOf, OfKind
      <4>2. CASE y \in f
        BY <4>1, <4>2
      <4>3. CASE y \notin f
        <5>1. y.names \in LocalNames(f)
          BY <4>3, ParsedDecls
        <5> QED BY <3>2, <4>1, <5>1
      <4> QED BY <4>2, <4>3
    <3>4. v.names \in VarNames(h)
      BY <1>1, <2>1, <3>3
    <3>5. ASSUME v.names = <<"_">> PROVE Contains(h, v)
      <4>1. PICK y \in AstInfos(f) : /\ y.kind = v.kind /\ y.names = v.names /\ y.text = v.text
                                     /\ y.kind = "var" /\ y.group => v.group
        BY <3>1, <3>5 DEF Contains
      <4>2. y \in f
        BY <3>2, <3>5, <4>1, ParsedDecls
      <4>3. y \in h
        BY <1>1, <2>0, <4>1, <4>2
      <4> QED BY <1>4, <4>1, <4>3 DEF Contains
    <3> QED BY <3>4, <3>5
  <2> QED BY <2>2, <2>3
<1>8. ASSUME NEW e \in Methods(g) PROVE e.names \in NamesOf(Methods(h))
  <2>0. e \in g /\ e.kind = "func" /\ Len(e.names) = 2
    BY DEF Methods, OfKind
  <2>1. CASE e.names \in NamesOf(Methods(f))
    BY <1>1, <2>1 DEF NamesOf, Methods, OfKind
  <2>2. CASE e.names \notin NamesOf(Methods(f))
    <3>1. e.names \notin Known(f)
      <4>1. ASSUME NEW y \in AstInfos(f), y.names = e.names PROVE FALSE
        <5>1. CASE y \in f
          <6>1. y.kind = "func"
            BY <2>0, <4>1, <5>1, PlainDecl DEF Ungrouped
          <6> QED BY <2>0, <2>2, <4>1, <5>1, <6>1 DEF NamesOf, Methods, OfKind
        <5>2. CASE y \notin f
          <6>1. PICK x : y.names = <<x>>
            BY <5>2, ParsedDecls
          <6> QED BY <2>0, <4>1, <6>1
        <5> QED BY <5>1, <5>2
      <4>2. e.names # <<Package>>
        BY <2>0
      <4> QED BY <4>1, <4>2 DEF Known, NamesOf
    <3>2. e \in Additions(f, g)
      <4>1. CASE \E y \in Methods(f) : y.names[2] = e.names[2]
        BY <2>2, <4>1 DEF NewMethods, Additions
      <4>2. CASE ~\E y \in Methods(f) : y.names[2] = e.names[2]
        <5>1. e.names[2] \notin MergedStructs(f, g)
          BY <4>2 DEF MergedStructs, NewMethods
        <5>2. e \in Appended(f, g)
          BY <1>3, <2>0, <3>1, <5>1 DEF Appended, OfKind
        <5> QED BY <5>2 DEF Additions
      <4> QED BY <4>1, <4>2
    <3> QED BY <1>2, <2>0, <3>2 DEF NamesOf, Methods, OfKind
  <2> QED BY <2>1, <2>2
<1>9. ASSUME NEW e \in OfKind("type", g) \cup OfKind("func", g)
      PROVE  e.names \in Known(h) /\ (e.names \in Anonymous => Contains(h, e))
  <2>0. e \in g /\ e.kind \in {"type", "func"}
    BY DEF OfKind
  <2>1. CASE e \in Methods(g)
    <3>1. e.names \notin Anonymous
      <4>1. Len(e.names) = 2
        BY <2>1 DEF Methods
      <4>2. \A x : Len(<<x>>) = 1
        OBVIOUS
      <4>3. \A a \in Anonymous : \E x : a = <<x>>
        BY DEF Anonymous
      <4> QED BY <4>1, <4>2, <4>3
    <3>2. PICK m \in h : m.names = e.names
      BY <1>8, <2>1 DEF NamesOf, Methods, OfKind
    <3> QED BY <1>4, <3>1, <3>2
  <2>2. CASE e \notin Methods(g) /\ (e.names \notin Known(f) \/ (e.names \in Anonymous /\ ~Contains(f, e)))
    <3>1. Shortened(e, f) \in Appended(f, g)
      BY <2>2 DEF Appended
    <3>2. e \in h
      BY <1>2, <1>3, <2>0, <3>1 DEF Additions
    <3> QED BY <1>4, <3>2 DEF Contains
  <2>3. CASE e.names \in Known(f) /\ (e.names \in Anonymous => Contains(f, e))
    <3>1. e.names \in Known(h)
      <4>1. e.names # <<Package>> /\ e.names \notin LocalNames(f)
        BY <1>3, <2>0 DEF Masked
      <4>2. PICK y \in AstInfos(f) : y.names = e.names
        BY <2>3, <4>1 DEF Known, NamesOf
      <4>3. y \in f
        BY <4>1, <4>2, ParsedDecls
      <4> QED BY <1>1, <1>4, <4>2, <4>3
    <3>2. ASSUME e.names \in Anonymous PROVE Contains(h, e)
      <4>1. e.kind = "func"
        BY <1>3, <2>0, <3>2 DEF OfKind
      <4>2. PICK y \in AstInfos(f) : y.kind = e.kind /\ y.names = e.names /\ y.text = e.text
        BY <2>3, <3>2 DEF Contains
      <4>3. y \in f
        BY <4>1, <4>2, ParsedDecls
      <4>4. y \in h
        BY <1>1, <3>2, <4>1, <4>2, <4>3
      <4> QED BY <1>4, <4>1, <4>2, <4>4 DEF Contains
    <3> QED BY <3>1, <3>2
  <2> QED BY <2>1, <2>2, <2>3
<1> QED BY <1>5, <1>6, <1>7, <1>8, <1>9 DEF Present, h

(* What a merge adds is generated: a declaration, or a variable with or    *)
(* without parentheses, or a local.                                        *)
LEMMA AddsGenerated ==
  ASSUME NEW f, NEW g, Ungrouped(g)
  PROVE  \A d \in Additions(f, g) :
            \/ d \in g /\ d.kind # "var"
            \/ d.kind = "var" /\ d.names \in LocalNames(g)
            \/ d.kind = "var" /\ \E x \in g : x.kind = "var" /\ x.names = d.names /\ d = Placed(x, f)
<1>1. \A d \in NewImports(f, g) \cup NewConsts(f, g) \cup NewMethods(f, g) : d \in g /\ d.kind # "var"
  BY DEF NewImports, NewConsts, NewMethods, Methods, OfKind
<1>2. ASSUME NEW d \in NewVars(f, g)
      PROVE  \/ d.kind = "var" /\ d.names \in LocalNames(g)
             \/ d.kind = "var" /\ \E x \in g : x.kind = "var" /\ x.names = d.names /\ d = Placed(x, f)
  <2>1. PICK x \in AstInfos(g) : x.kind = "var" /\ d = Placed(x, f)
    BY <1>2 DEF NewVars, OfKind
  <2>2. IsDecl(x)
    BY <2>1, ParsedAreDecls DEF Ungrouped
  <2>3. d.kind = "var" /\ d.names = x.names
    BY <2>1, <2>2, InGroup
  <2> QED BY <2>1, <2>3, ParsedDecls
<1>3. \A d \in Appended(f, g) : d \in g /\ d.kind # "var"
  BY PlainDecl DEF Appended, OfKind, Ungrouped
<1> QED BY <1>1, <1>2, <1>3 DEF Additions

(* Each generated name is declared once after a merge. *)
LEMMA MergeNamesOnce ==
  ASSUME NEW f, NEW g, NEW c \in BOOLEAN, Ungrouped(f), Ungrouped(g), ~Masked(f, g),
         Compiles(f), Compiles(g), NEW n \in AllNames(g)
  PROVE  Once(n, mergeCode(f, g, c))
<1> DEFINE h == mergeCode(f, g, c)
<1>1. h = {Merged(d, g, c) : d \in f} \cup Additions(f, g)
  BY MergeSplits
<1>2. /\ \A d \in f : Declared(d) = {d.names} /\ Declared(Merged(d, g, c)) = {d.names}
      /\ \A d \in g : Declared(d) = {d.names}
  <2>1. \A d \in f \cup g : Declared(d) = {d.names}
    BY PlainDecl DEF Ungrouped
  <2>2. ASSUME NEW d \in f PROVE Declared(Merged(d, g, c)) = {d.names}
    <3>1. Merged(d, g, c).kind = d.kind /\ Merged(d, g, c).names = d.names
      BY MergedKeeps DEF Ungrouped
    <3> QED BY <2>1, <3>1 DEF Declared
  <2> QED BY <2>1, <2>2
<1>3. PICK e \in g : e.names = n /\ Declares(n, g) = {e} /\ n \notin Anonymous
  <2>1. PICK e \in g : Declares(n, g) = {e}
    BY DEF Compiles, Once
  <2>2. n \in Declared(e)
    BY <2>1 DEF Declares
  <2>3. n = e.names
    BY <1>2, <2>1, <2>2
  <2>4. n \notin Anonymous
    BY DEF AllNames
  <2> QED BY <2>1, <2>3, <2>4
<1>4. n # <<Package>> /\ n \notin LocalNames(f) /\ n \notin LocalNames(g)
  BY <1>2, <1>3 DEF Masked
<1>e. PICK a : a = IF e.kind = "var" THEN Placed(e, f) ELSE e OBVIOUS
<1>a. a.names = n /\ a.kind = e.kind /\ Declared(a) = {n}
  <2>1. a.names = n /\ a.kind = e.kind
    BY <1>3, <1>e, InGroup DEF Ungrouped
  <2> QED BY <1>2, <1>3, <2>1 DEF Declared
<1>5. \A d \in Additions(f, g) : n \in Declared(d) => d = a
  <2> SUFFICES ASSUME NEW d \in Additions(f, g), n \in Declared(d) PROVE d = a
    OBVIOUS
  <2>1. CASE d \in g /\ d.kind # "var"
    BY <1>3, <1>e, <2>1 DEF Declares
  <2>2. CASE d.kind = "var"
    <3>1. Declared(d) = {d.names}
      BY <2>2 DEF Declared
    <3>2. d.names \notin LocalNames(g)
      BY <1>4, <3>1
    <3>3. PICK x \in g : x.kind = "var" /\ x.names = d.names /\ d = Placed(x, f)
      BY <2>2, <3>2, AddsGenerated
    <3>4. n \in Declared(x)
      BY <3>1, <3>3 DEF Declared
    <3>5. x = e
      BY <1>3, <3>3, <3>4 DEF Declares
    <3> QED BY <1>e, <3>3, <3>5
  <2> QED BY <2>1, <2>2, AddsGenerated
<1>6. \A d \in f : d.names = n => d.kind = e.kind
  BY <1>2, <1>3 DEF Masked
<1>7. CASE \E d \in f : d.names = n
  <2>1. PICK d \in f : Declares(n, f) = {d} /\ d.names = n
    <3>1. n \in AllNames(f)
      <4>1. PICK d \in f : n \in Declared(d)
        BY <1>2, <1>7
      <4>2. n \in UNION {Declared(x) : x \in f}
        BY <4>1
      <4> QED BY <1>3, <4>2 DEF AllNames
    <3>2. PICK d \in f : Declares(n, f) = {d}
      BY <3>1 DEF Compiles, Once
    <3> QED BY <1>2, <3>2 DEF Declares
  <2>2. a \notin Additions(f, g)
    <3>1. d.kind = a.kind /\ d.names = a.names
      BY <1>3, <1>6, <1>a, <2>1
    <3>2. d \in AstInfos(f)
      BY <2>1, ParsedDecls
    <3>3. a \notin NewImports(f, g) /\ a \notin NewConsts(f, g)
      BY <2>1, <3>1 DEF NewImports, NewConsts, ImportPaths, ConstNames, NamesOf, OfKind
    <3>4. a \notin NewVars(f, g)
      <4> SUFFICES ASSUME NEW x \in OfKind("var", AstInfos(g)), a = Placed(x, f),
                          x.names \notin VarNames(f) \/ x.names = <<"_">>
                   PROVE  FALSE
        BY DEF NewVars
      <4>1. IsDecl(x) /\ x.kind = "var"
        BY ParsedAreDecls DEF Ungrouped, OfKind
      <4>2. a.kind = "var" /\ a.names = x.names
        BY <4>1, InGroup
      <4>3. a.names \in VarNames(f)
        BY <3>1, <3>2, <4>2 DEF VarNames, NamesOf, OfKind
      <4>4. a.names # <<"_">>
        BY <1>3, <1>a DEF Anonymous
      <4> QED BY <4>2, <4>3, <4>4
    <3>5. a \notin NewMethods(f, g)
      BY <2>1, <3>1 DEF NewMethods, Methods, NamesOf, OfKind
    <3>6. a \notin Appended(f, g)
      <4>1. a.names \in Known(f) /\ a.names \notin Anonymous
        BY <1>3, <1>a, <3>1, <3>2 DEF Known, NamesOf
      <4>2. \A x \in g : Shortened(x, f) = x
        BY PlainDecl DEF Ungrouped
      <4> QED BY <4>1, <4>2 DEF Appended, OfKind
    <3> QED BY <3>3, <3>4, <3>5, <3>6 DEF Additions
  <2>3. \A x \in h : n \in Declared(x) <=> x = Merged(d, g, c)
    <3>1. ASSUME NEW x \in h, n \in Declared(x) PROVE x = Merged(d, g, c)
      <4>1. x \notin Additions(f, g)
        BY <1>5, <2>2, <3>1
      <4>2. PICK y \in f : x = Merged(y, g, c)
        BY <1>1, <4>1
      <4>3. y.names = n
        BY <1>2, <3>1, <4>2
      <4>4. y = d
        BY <1>2, <2>1, <4>3 DEF Declares
      <4> QED BY <4>2, <4>4
    <3> QED BY <1>2, <2>1, <3>1
  <2>4. Merged(d, g, c) \in h
    BY <1>1, <2>1
  <2> QED BY <2>3, <2>4 DEF Once, Declares
<1>8. CASE ~\E d \in f : d.names = n
  <2>1. a \in Additions(f, g)
    <3>1. \A y \in AstInfos(f) : y.names # n
      BY <1>4, <1>8, ParsedDecls
    <3>2. e.names \notin Known(f) /\ e.names \notin VarNames(f)
      BY <1>3, <1>4, <3>1 DEF Known, VarNames, NamesOf, OfKind
    <3>3. e.kind \in {"import", "const", "var", "type", "func"} /\ Shortened(e, f) = e
      BY PlainDecl DEF Ungrouped, IsDecl
    <3>e. e.kind # "var" => a = e
      BY <1>e
    <3>4. CASE e.kind = "import"
      BY <1>3, <1>8, <3>e, <3>4 DEF Additions, NewImports, ImportPaths, NamesOf, OfKind
    <3>5. CASE e.kind = "const"
      BY <1>3, <1>8, <3>e, <3>5 DEF Additions, NewConsts, ConstNames, NamesOf, OfKind
    <3>6. CASE e.kind = "var"
      <4>1. e \in OfKind("var", AstInfos(g))
        BY <3>6, ParsedDecls DEF OfKind
      <4>2. a = Placed(e, f)
        BY <1>e, <3>6
      <4> QED BY <3>2, <4>1, <4>2 DEF Additions, NewVars
    <3>7. CASE e.kind \in {"type", "func"}
      <4>1. CASE e \in Methods(g) /\ e.names[2] \in MergedStructs(f, g)
        <5>1. \E y \in Methods(f) : y.names[2] = e.names[2]
          BY <4>1 DEF MergedStructs, NewMethods
        <5>2. e.names \notin NamesOf(Methods(f))
          BY <1>3, <1>8 DEF Methods, NamesOf, OfKind
        <5> QED BY <3>e, <3>7, <4>1, <5>1, <5>2 DEF Additions, NewMethods
      <4>2. CASE ~(e \in Methods(g) /\ e.names[2] \in MergedStructs(f, g))
        <5>1. Shortened(e, f) \in Appended(f, g)
          BY <3>2, <3>7, <4>2 DEF Appended, OfKind
        <5> QED BY <3>3, <3>e, <3>7, <5>1 DEF Additions
      <4> QED BY <4>1, <4>2
    <3> QED BY <3>3, <3>4, <3>5, <3>6, <3>7
  <2>2. \A x \in h : n \in Declared(x) <=> x = a
    BY <1>1, <1>2, <1>a, <1>5, <1>8
  <2> QED BY <1>1, <2>1, <2>2 DEF Once, Declares
<1> QED BY <1>7, <1>8

-----------------------------------------------------------------------------
(* A merge leaves a declaration alone that shares its names with none of   *)
(* the generated ones but itself.                                          *)
LEMMA Fixed ==
  ASSUME NEW d, IsDecl(d), NEW g, \A e \in g : IsDecl(e), NEW c \in BOOLEAN,
         \A e \in OfKind("type", g) : Declared(e) \cap Anonymous = {},
         \A e \in g : (Declared(d) \cap Declared(e)) \ Anonymous # {} => e = d
  PROVE  Merged(d, g, c) = d
<1>1. CASE d.kind = "type"
  <2>1. ASSUME NEW n \in DOMAIN d.members, NEW i \in BOOLEAN
        PROVE  MembersOf(n, g, i) \subseteq d.members[n]
    <3>1. ASSUME NEW e \in OfKind("type", g), n \in DOMAIN e.members PROVE e = d
      <4>1. e \in g /\ e.kind = "type"
        BY DEF OfKind
      <4>2. n \in Range(d.names) /\ n \in Range(e.names)
        BY <1>1, <2>1, <3>1, <4>1 DEF IsDecl
      <4>3. <<n>> \in Declared(d) /\ <<n>> \in Declared(e)
        BY <1>1, <4>1, <4>2 DEF Declared
      <4>4. <<n>> \notin Anonymous
        BY <3>1, <4>3
      <4> QED BY <4>1, <4>3, <4>4
    <3> QED BY <3>1 DEF MembersOf
  <2>2. [n \in DOMAIN d.members |-> MergedMembers(n, d, g)] = d.members
    <3>1. \A n \in DOMAIN d.members : MergedMembers(n, d, g) = d.members[n]
      BY <2>1, MembersGrow DEF MergedMembers
    <3>2. d.members = [n \in DOMAIN d.members |-> d.members[n]]
      BY DEF IsDecl
    <3> QED BY <3>1, <3>2
  <2>3. [d EXCEPT !.members = d.members] = d
    BY DEF IsDecl
  <2>4. MergeMembers(d, g) = d
    BY <2>2, <2>3 DEF MergeMembers
  <2>5. Cover(d, g) = d
    BY <1>1, Covered
  <2> QED BY <2>4, <2>5 DEF Merged, WithMembers
<1>2. CASE d.kind # "type"
  <2>1. Cover(d, g) = d
    <3> SUFFICES ASSUME Cover(d, g) # d PROVE FALSE
      OBVIOUS
    <3>1. Cover(d, g) \in g /\ Cover(d, g).kind = "func" /\ Cover(d, g).names = d.names
      BY Covered
    <3>2. d.names \notin Anonymous
      BY Covered
    <3>3. d.names \in Declared(d) /\ d.names \in Declared(Cover(d, g))
      BY <1>2, <3>1 DEF Declared
    <3> QED BY <3>1, <3>2, <3>3
  <2> QED BY <1>2, <2>1 DEF Merged, WithMembers
<1> QED BY <1>1, <1>2

(* The state of a file after a merge that nothing masked. *)
Settled(f, g, c) == /\ \A n \in AllNames(g) : Once(n, f)
                    /\ Present(f, g)
                    /\ \A d \in f : Merged(d, g, c) = d

(* It is what MergeExact promises. *)
LEMMA SettledIsExact ==
  ASSUME NEW f, NEW g, NEW c \in BOOLEAN, Settled(f, g, c)
  PROVE  Exact(f, g, c)
<1>1. Additions(f, g) \subseteq BlankCopies(g) \cap f
  BY PresentAddsNothing DEF Settled
<1>2. mergeCode(f, g, c) = {Merged(d, g, c) : d \in f} \cup Additions(f, g)
  BY MergeSplits
<1>3. {Merged(d, g, c) : d \in f} = f
  BY DEF Settled
<1> QED BY <1>1, <1>2, <1>3 DEF Settled, Exact

(* A merge reaches it. *)
LEMMA MergeSettles ==
  ASSUME NEW f, NEW g, NEW c \in BOOLEAN, Ungrouped(f), Ungrouped(g), ~Masked(f, g),
         Compiles(f), Compiles(g),
         \A d \in OfKind("type", g) : Declared(d) \cap Anonymous = {}
  PROVE  Settled(mergeCode(f, g, c), g, c)
<1>1. \A n \in AllNames(g) : Once(n, mergeCode(f, g, c))
  BY MergeNamesOnce
<1>2. Present(mergeCode(f, g, c), g)
  BY MergePresents
<1>3. ASSUME NEW d \in mergeCode(f, g, c) PROVE Merged(d, g, c) = d
  <2>1. CASE \E x \in f : d = Merged(x, g, c)
    BY <2>1, MergedKeeps DEF Ungrouped
  <2>2. CASE d \in g
    <3>1. ASSUME NEW e \in g, (Declared(d) \cap Declared(e)) \ Anonymous # {} PROVE e = d
      <4>1. PICK n : n \in Declared(d) /\ n \in Declared(e) /\ n \notin Anonymous
        BY <3>1
      <4>2. n \in UNION {Declared(x) : x \in g}
        BY <2>2, <4>1
      <4>3. Once(n, g)
        BY <4>1, <4>2 DEF Compiles, AllNames
      <4> QED BY <2>2, <4>1, <4>3 DEF Once, Declares
    <3> QED BY <2>2, <3>1, Fixed DEF Ungrouped
  <2>3. CASE d.kind = "var"
    <3>1. Cover(d, g) = d
      BY <2>3, Covered
    <3> QED BY <2>3, <3>1 DEF Merged, WithMembers
  <2>4. d \in Additions(f, g) \/ \E x \in f : d = Merged(x, g, c)
    BY <1>3, MergeSplits
  <2> QED BY <2>1, <2>2, <2>3, <2>4, AddsGenerated
<1> QED BY <1>1, <1>2, <1>3 DEF Settled

(* What the user writes does not take part in the next merge. *)
LEMMA EditSettled ==
  ASSUME NEW f, NEW g, NEW c \in BOOLEAN, NEW d, d \notin f, IsDecl(d), \A e \in g : IsDecl(e),
         \A e \in OfKind("type", g) : Declared(e) \cap Anonymous = {},
         Settled(f, g, c), Compiles(f \cup {d})
  PROVE  Settled(f \cup {d}, g, c)
<1>1. ASSUME NEW n \in AllNames(g) PROVE n \notin Declared(d)
  <2> SUFFICES ASSUME n \in Declared(d) PROVE FALSE
    OBVIOUS
  <2>1. PICK x \in f : n \in Declared(x)
    BY DEF Settled, Once, Declares
  <2>2. n \notin Anonymous
    BY DEF AllNames
  <2>3. n \in UNION {Declared(y) : y \in f \cup {d}}
    BY <2>1
  <2>4. PICK y : Declares(n, f \cup {d}) = {y}
    BY <2>2, <2>3 DEF Compiles, AllNames, Once
  <2> QED BY <2>1, <2>4 DEF Declares
<1>2. ASSUME NEW n \in AllNames(g) PROVE Once(n, f \cup {d})
  <2>1. Declares(n, f \cup {d}) = Declares(n, f)
    BY <1>1 DEF Declares
  <2> QED BY <2>1 DEF Settled, Once
<1>3. Present(f \cup {d}, g)
  BY PresentGrows DEF Settled
<1>4. Merged(d, g, c) = d
  <2>1. ASSUME NEW e \in g PROVE (Declared(d) \cap Declared(e)) \ Anonymous = {}
    <3>1. ASSUME NEW n \in Declared(e), n \notin Anonymous PROVE n \notin Declared(d)
      <4>1. n \in UNION {Declared(x) : x \in g}
        BY <3>1
      <4> QED BY <1>1, <3>1, <4>1 DEF AllNames
    <3> QED BY <3>1
  <2> QED BY <2>1, Fixed
<1> QED BY <1>2, <1>3, <1>4 DEF Settled

(* What a merge adds is well formed, a shortened group of types too. *)
LEMMA Adds ==
  ASSUME NEW f, NEW g, \A d \in g : IsDecl(d)
  PROVE  \A d \in Additions(f, g) : IsDecl(d)
<1>1. \A d \in NewImports(f, g) \cup NewConsts(f, g) \cup NewMethods(f, g) : IsDecl(d)
  BY DEF NewImports, NewConsts, NewMethods, Methods, OfKind
<1>2. \A d \in NewVars(f, g) : IsDecl(d)
  <2>1. \A d \in AstInfos(g) : IsDecl(d)
    BY ParsedAreDecls
  <2>2. \A d \in NewVars(f, g) : \E x \in AstInfos(g) : x.kind = "var" /\ d = Placed(x, f)
    BY DEF NewVars, OfKind
  <2> QED BY <2>1, <2>2, InGroup
<1>3. \A d \in g : IsDecl(Shortened(d, f))
  <2> SUFFICES ASSUME NEW d \in g PROVE IsDecl(Shortened(d, f))
    OBVIOUS
  <2>1. CASE Shortened(d, f) = d
    BY <2>1
  <2>2. CASE Shortened(d, f) # d
    <3>1. /\ d.kind = "type"
          /\ Shortened(d, f) = [d EXCEPT !.names = NewTypes(d, f), !.group = TRUE,
                   !.members = Restrict(d.members, DOMAIN d.members \cap Range(NewTypes(d, f))),
                   !.interfaces = d.interfaces \cap Range(NewTypes(d, f))]
      BY <2>2 DEF Shortened
    <3>2. PICK t, m, i : /\ t = TRUE
                         /\ m = Restrict(d.members, DOMAIN d.members \cap Range(NewTypes(d, f)))
                         /\ i = d.interfaces \cap Range(NewTypes(d, f))
      OBVIOUS
    <3>3. PICK s : s = [d EXCEPT !.names = NewTypes(d, f), !.group = t, !.members = m,
                                 !.interfaces = i]
      OBVIOUS
    <3>4. s = Shortened(d, f)
      BY <3>1, <3>2, <3>3
    <3> DEFINE fields == {"kind", "names", "text", "within", "members", "interfaces", "group", "locals"}
    <3>5. /\ s = [x \in fields |-> s[x]]
          /\ s.kind = "type" /\ s.names = NewTypes(d, f) /\ s.group = t /\ s.members = m
      <4>1. /\ d = [x \in fields |-> d[x]]
            /\ d.kind = "type"
        BY <3>1 DEF IsDecl
      <4> QED BY <3>3, <4>1
    <3>6. m = [n \in DOMAIN m |-> m[n]] /\ DOMAIN m \subseteq Range(NewTypes(d, f))
      BY <3>2 DEF Restrict
    <3>7. s.group
      BY <3>2, <3>5, Zenon
    <3>8. IsDecl(s)
      BY <3>5, <3>6, <3>7 DEF IsDecl
    <3> QED BY <3>4, <3>8
  <2> QED BY <2>1, <2>2
<1>4. \A d \in Appended(f, g) : IsDecl(d)
  BY <1>3 DEF Appended, OfKind
<1> QED BY <1>1, <1>2, <1>4 DEF Additions

(* One merge keeps every declaration of the file. *)
LEMMA MergeKeeps ==
  ASSUME FileTyped, NEW g \in GenFiles, NEW c \in BOOLEAN, MergeGoFile(g, c)
  PROVE  FileTyped' /\ \A d \in file : \E e \in file' : KeptAs(d, e)
<1>1. \A d \in g : IsDecl(d)
  BY MergeAssumption
<1>2. /\ file' = {Merged(d, g, c) : d \in file} \cup Additions(file, g)
      /\ last'.cover = c
  BY MergeSplits DEF MergeGoFile
<1>3. ASSUME NEW d \in file
      PROVE  /\ WithMembers(d, g).kind = d.kind /\ WithMembers(d, g).names = d.names
             /\ WithMembers(d, g).text = d.text
             /\ \A n \in DOMAIN d.members :
                   Unread(n, d) \/ d.members[n] \subseteq WithMembers(d, g).members[n]
  BY MembersMerge DEF FileTyped, WithMembers
<1>4. ASSUME NEW d \in file PROVE IsDecl(Merged(d, g, c)) /\ KeptAs(d, Merged(d, g, c))
  <2>1. IsDecl(Merged(d, g, c)) /\ Merged(d, g, c).kind = d.kind /\ Merged(d, g, c).names = d.names
    BY <1>1, MergedKeeps DEF FileTyped
  <2>2. CASE Merged(d, g, c) = WithMembers(d, g)
    BY <1>3, <2>1, <2>2 DEF KeptAs
  <2>3. CASE Merged(d, g, c) # WithMembers(d, g)
    <3>1. c /\ d.kind = "func" /\ d.names[1] \notin Ignored
      BY <1>3, <2>3, Covered DEF Merged
    <3>2. DOMAIN d.members = {}
      BY <3>1 DEF FileTyped, IsDecl
    <3> QED BY <1>2, <2>1, <3>1, <3>2 DEF KeptAs
  <2> QED BY <2>2, <2>3
<1>5. FileTyped'
  BY <1>1, <1>2, <1>4, Adds DEF FileTyped
<1> QED BY <1>2, <1>4, <1>5

(* For any generated files and whatever the user wrote: no merge takes a   *)
(* declaration away, nor a member of a type, but for an interface that     *)
(* only embeds interfaces of other packages; and only a merge that covers  *)
(* functions changes a text, never that of an ignored function.            *)
THEOREM MergeKeepsUserCode == MergeSpec => KeepsUserCode
<1>1. MergeInit => FileTyped
  BY DEF MergeInit, FileTyped
<1>2. ASSUME FileTyped, [MergeNext]_mergeVars
      PROVE  /\ FileTyped'
             /\ [\A d \in file : \E e \in file' :
                   /\ e.kind = d.kind /\ e.names = d.names
                   /\ \A n \in DOMAIN d.members :
                         Unread(n, d) \/ d.members[n] \subseteq e.members[n]
                   /\ \/ e.text = d.text
                      \/ last'.cover /\ d.kind = "func" /\ d.names[1] \notin Ignored]_mergeVars
  <2> SUFFICES FileTyped' /\ (UNCHANGED mergeVars \/ \A d \in file : \E e \in file' : KeptAs(d, e))
    BY DEF KeptAs
  <2>0. \A d : KeptAs(d, d)
    BY DEF KeptAs
  <2>1. CASE UNCHANGED mergeVars
    BY <1>2, <2>1 DEF mergeVars, FileTyped
  <2>2. ASSUME NEW d \in UserDecls, Edit(d)
        PROVE  FileTyped' /\ \A x \in file : \E e \in file' : KeptAs(x, e)
    BY <1>2, <2>0, <2>2, MergeAssumption DEF Edit, FileTyped
  <2>3. ASSUME NEW g \in GenFiles, MergeFails(g)
        PROVE  FileTyped' /\ \A x \in file : \E e \in file' : KeptAs(x, e)
    BY <1>2, <2>0, <2>3 DEF MergeFails, FileTyped
  <2> QED BY <1>2, <2>1, <2>2, <2>3, MergeKeeps DEF MergeNext
<1> QED BY <1>1, <1>2, PTL DEF MergeSpec, KeepsUserCode

-----------------------------------------------------------------------------
(* Exactness: what every state keeps of the latest merge. *)
ExactInv ==
  /\ FileTyped
  /\ last.gen \in GenFiles \cup {{}} /\ last.cover \in BOOLEAN
  /\ Plain => Settled(file, last.gen, last.cover)

LEMMA ExactInitial == MergeInit => ExactInv
<1> SUFFICES ASSUME MergeInit PROVE ExactInv
  OBVIOUS
<1>1. file = {} /\ last.gen = {} /\ last.cover = FALSE
  BY DEF MergeInit
<1>2. AllNames({}) = {} /\ AstInfos({}) = {} /\ \A k : OfKind(k, {}) = {}
  BY DEF AllNames, AstInfos, OfKind
<1>3. Present({}, {})
  BY <1>2 DEF Present, Methods
<1>4. Settled({}, {}, FALSE)
  BY <1>2, <1>3 DEF Settled
<1> QED BY <1>1, <1>4 DEF ExactInv, FileTyped

LEMMA ExactEdit ==
  ASSUME ExactInv, NEW d \in UserDecls, Edit(d)
  PROVE  ExactInv'
<1>1. file' = file \cup {d} /\ last' = last /\ d \notin file /\ Compiles(file \cup {d})
  BY DEF Edit
<1>2. IsDecl(d) /\ \A e \in last.gen : IsDecl(e)
  BY MergeAssumption DEF ExactInv
<1>3. \A e \in OfKind("type", last.gen) : Declared(e) \cap Anonymous = {}
  BY GeneratedAssumption DEF ExactInv, OfKind
<1>4. FileTyped'
  BY <1>1, <1>2 DEF ExactInv, FileTyped
<1>5. ASSUME Plain' PROVE Settled(file, last.gen, last.cover)'
  <2>1. Plain
    BY <1>1, <1>5 DEF Plain, OfKind
  <2>2. Settled(file, last.gen, last.cover)
    BY <2>1 DEF ExactInv
  <2>3. Settled(file \cup {d}, last.gen, last.cover)
    BY <1>1, <1>2, <1>3, <2>2, EditSettled DEF ExactInv
  <2> QED BY <1>1, <2>3
<1> QED BY <1>1, <1>4, <1>5 DEF ExactInv

LEMMA ExactMerge ==
  ASSUME ExactInv, NEW g \in GenFiles, NEW c \in BOOLEAN, MergeGoFile(g, c)
  PROVE  ExactInv'
<1>1. /\ file' = mergeCode(file, g, c) /\ Compiles(file)
      /\ last' = [gen |-> g, cover |-> c, masked |-> Masked(file, g)]
  BY DEF MergeGoFile
<1>2. last'.gen = g /\ last'.cover = c /\ last'.masked = Masked(file, g)
  BY <1>1
<1>3. FileTyped'
  BY MergeKeeps DEF ExactInv
<1>4. ASSUME Plain' PROVE Settled(file, last.gen, last.cover)'
  <2>1. ~Masked(file, g) /\ \A d \in file' \cup g : d.kind = "type" => ~d.group
    BY <1>2, <1>4, Zenon DEF Plain, OfKind
  <2>2. \A d \in g : IsDecl(d)
    BY MergeAssumption
  <2>3. Ungrouped(g)
    BY <2>1, <2>2 DEF Ungrouped
  <2>4. Ungrouped(file)
    <3>1. ASSUME NEW d \in file, d.kind = "type" PROVE ~d.group
      <4>1. Merged(d, g, c) \in file'
        BY <1>1, MergeSplits
      <4>2. Merged(d, g, c).group = d.group /\ Merged(d, g, c).kind = "type"
        BY <2>2, <3>1, MergedKeeps DEF ExactInv, FileTyped
      <4> QED BY <2>1, <4>1, <4>2, Zenon
    <3> QED BY <3>1 DEF Ungrouped, ExactInv, FileTyped
  <2>5. Settled(mergeCode(file, g, c), g, c)
    BY <1>1, <2>1, <2>3, <2>4, MergeSettles, GeneratedAssumption
  <2> QED BY <1>1, <1>2, <2>5
<1> QED BY <1>2, <1>3, <1>4 DEF ExactInv

(* For any files that compile, whatever was merged and written before and  *)
(* since: unless a name of the generated file was masked, and groups       *)
(* of types aside, each generated name is declared once and merging the    *)
(* same file once more changes nothing and adds nothing but copies of      *)
(* blank variables that the file has (mergeCode).                          *)
THEOREM MergesExact == MergeSpec => []MergeExact
<1>1. ASSUME ExactInv, [MergeNext]_mergeVars PROVE ExactInv'
  <2>1. CASE UNCHANGED mergeVars
    BY <1>1, <2>1 DEF mergeVars, ExactInv, FileTyped, Plain
  <2>2. ASSUME NEW d \in UserDecls, Edit(d) PROVE ExactInv'
    BY <1>1, <2>2, ExactEdit
  <2>3. ASSUME NEW g \in GenFiles, MergeFails(g) PROVE ExactInv'
    BY <1>1, <2>3 DEF MergeFails, ExactInv, FileTyped, Plain
  <2>4. ASSUME NEW g \in GenFiles, NEW c \in BOOLEAN, MergeGoFile(g, c) PROVE ExactInv'
    BY <1>1, <2>4, ExactMerge
  <2> QED BY <1>1, <2>1, <2>2, <2>3, <2>4 DEF MergeNext
<1>2. ExactInv => MergeExact
  BY SettledIsExact DEF ExactInv, MergeExact
<1> QED BY <1>1, <1>2, ExactInitial, PTL DEF MergeSpec
=============================================================================
