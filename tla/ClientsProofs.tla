--------------------------- MODULE ClientsProofs ----------------------------
(* Proofs about the clients that survive a broken connection: the          *)
(* websocket client that reconnects, and the resending of SSE events.      *)
EXTENDS SSEResend, WSClient, FiniteSetTheorems, TLAPS

-----------------------------------------------------------------------------
(* The websocket client. *)
ActorPlaces == [at : {"loop", "failed", "off"}] \cup [at : {"backoff", "dial"}, delay : Nat]
                 \cup [at : {"store"}, new : Nat]

(* The connections dialled and not yet stored, and those that work and     *)
(* that no call is about to store.                                         *)
Dialled == {actor[a].new : a \in {b \in Reconnectors : actor[b].at = "store"}}
Loose   == (open \cap works) \ Dialled

WSTypes ==
  /\ actor \in [Reconnectors -> ActorPlaces] /\ conns \in Nat /\ needless \in Nat
  /\ closing \in {"no", "cancelled", "closed"} /\ IsFiniteSet(open)

(* Every call under way may yet leave one more connection.  One of them    *)
(* may do so for free, as long as Close has not begun: it was begun with   *)
(* no connection, or its needless begin is counted.                        *)
StrayCount ==
  /\ closing = "no" /\ Under = {}  => Cardinality(Loose \ {held}) <= needless
  /\ closing = "no" /\ Under # {}  => Cardinality(Loose) + Cardinality(Under) <= needless + 1
  /\ closing = "cancelled" => Cardinality(Loose \ {held}) + Cardinality(Under) <= needless
  /\ closing = "closed"    => Cardinality(Loose) + Cardinality(Under) <= needless

StrayInv == WSTypes /\ StrayCount

(* Adding one element makes a finite set larger by at most one. *)
LEMMA OneMore ==
  ASSUME NEW S, NEW T, NEW x, IsFiniteSet(S), T \subseteq S \cup {x}
  PROVE  IsFiniteSet(T) /\ Cardinality(S) \in Nat /\ Cardinality(T) \in Nat
         /\ Cardinality(T) <= Cardinality(S) + 1
<1>1. /\ IsFiniteSet(S \cup {x}) /\ Cardinality(S) \in Nat
      /\ Cardinality(S \cup {x}) \in {Cardinality(S), Cardinality(S) + 1}
  BY FS_AddElement, FS_CardinalityType
<1>2. /\ IsFiniteSet(T) /\ Cardinality(T) <= Cardinality(S \cup {x})
      /\ Cardinality(T) \in Nat
  BY <1>1, FS_Subset, FS_CardinalityType
<1> QED BY <1>1, <1>2

LEMMA NoMore ==
  ASSUME NEW S, NEW T, IsFiniteSet(S), T \subseteq S
  PROVE  IsFiniteSet(T) /\ Cardinality(S) \in Nat /\ Cardinality(T) \in Nat
         /\ Cardinality(T) <= Cardinality(S)
  BY FS_Subset, FS_CardinalityType

(* The sets of the invariant are finite. *)
LEMMA WSFinite ==
  ASSUME WSTypes
  PROVE  /\ IsFiniteSet(Under) /\ Cardinality(Under) \in Nat
         /\ IsFiniteSet(Loose) /\ Cardinality(Loose) \in Nat
         /\ IsFiniteSet(Loose \ {held}) /\ Cardinality(Loose \ {held}) \in Nat
         /\ Under = {} <=> Cardinality(Under) = 0
<1>1. IsFiniteSet({"ping"} \cup {"user"})
  BY FS_Singleton, FS_Union
<1>2. Under \subseteq {"ping"} \cup {"user"}
  BY WSAssumption DEF Under
<1>3. IsFiniteSet(Under)
  BY <1>1, <1>2, FS_Subset
<1>4. IsFiniteSet(open)
  BY DEF WSTypes
<1>5. Loose \subseteq open /\ Loose \ {held} \subseteq open
  BY DEF Loose
<1>6. Cardinality(Under) = 0 <=> Under = {}
  BY <1>3, FS_EmptySet
<1> QED BY <1>3, <1>4, <1>5, <1>6, FS_Subset, FS_CardinalityType

(* A reconnector that moves leaves the others where they are. *)
LEMMA ActorMoves ==
  ASSUME WSTypes, NEW a \in Reconnectors, NEW d \in ActorPlaces, Act(a, d)
  PROVE  /\ actor' \in [Reconnectors -> ActorPlaces] /\ actor'[a] = d
         /\ \A b \in Reconnectors \ {a} : actor'[b] = actor[b]
  BY DEF WSTypes, Act

LEMMA ActorFields ==
  ASSUME actor \in [Reconnectors -> ActorPlaces], NEW a \in Reconnectors
  PROVE  /\ actor[a] \in ActorPlaces
         /\ actor[a].at \in {"backoff", "dial"} => actor[a].delay \in Nat
         /\ actor[a].at = "store" => actor[a].new \in Nat
         /\ actor[a].at = "backoff" =>
              [actor[a] EXCEPT !.at = "dial"] = [at |-> "dial", delay |-> actor[a].delay]
  BY DEF ActorPlaces

(* A step after which no more connections are loose, and as many calls     *)
(* under way.                                                              *)
LEMMA SmallerStep ==
  ASSUME StrayInv, WSTypes', UNCHANGED <<held, closing, needless>>,
         Loose' \subseteq Loose, Under' = Under
  PROVE  StrayInv'
<1>1. (Loose \ {held})' \subseteq Loose \ {held}
  OBVIOUS
<1>2. /\ IsFiniteSet(Loose) /\ IsFiniteSet(Loose \ {held})
      /\ Cardinality(Under) \in Nat /\ needless \in Nat
  BY WSFinite DEF StrayInv, WSTypes
<1>3. /\ Cardinality(Loose') \in Nat /\ Cardinality(Loose) \in Nat
      /\ Cardinality(Loose') <= Cardinality(Loose)
  BY <1>2, NoMore
<1>4. PICK L : L = (Loose \ {held})'
  OBVIOUS
<1>5. /\ Cardinality(L) \in Nat /\ Cardinality(Loose \ {held}) \in Nat
      /\ Cardinality(L) <= Cardinality(Loose \ {held})
  BY <1>1, <1>2, <1>4, NoMore
<1>6. Cardinality(Under') = Cardinality(Under)
  OBVIOUS
<1> QED BY <1>2, <1>3, <1>4, <1>5, <1>6 DEF StrayInv, StrayCount

(* A step that changes neither the connections nor the calls under way. *)
LEMMA QuietStep ==
  ASSUME StrayInv, WSTypes', UNCHANGED <<held, closing, needless>>,
         open' \cap works' \subseteq open \cap works, Under' = Under, Dialled' = Dialled
  PROVE  StrayInv'
<1>1. Loose' \subseteq Loose
  BY DEF Loose
<1> QED BY <1>1, SmallerStep

(* What a step of one reconnector does to the sets of the invariant. *)
LEMMA UnderMoves ==
  ASSUME WSTypes, NEW a \in Reconnectors, NEW d \in ActorPlaces, Act(a, d)
  PROVE  /\ Under' = (Under \ {a}) \cup (IF d.at \in {"backoff", "dial", "store"} THEN {a} ELSE {})
         /\ (d.at # "store" /\ actor[a].at # "store") => Dialled' = Dialled
         /\ d.at = "store" /\ actor[a].at # "store" => Dialled' = Dialled \cup {d.new}
         /\ actor[a].at = "store" /\ d.at # "store" => Dialled \subseteq Dialled' \cup {actor[a].new}
         /\ Under' = {} => Dialled' = {}
         /\ Under = {} => Dialled = {}
<1>1. /\ actor' \in [Reconnectors -> ActorPlaces] /\ actor'[a] = d
      /\ \A b \in Reconnectors \ {a} : actor'[b] = actor[b]
  BY ActorMoves
<1>2. Under' = (Under \ {a}) \cup (IF d.at \in {"backoff", "dial", "store"} THEN {a} ELSE {})
  BY <1>1 DEF Under, Retrying
<1>3. (d.at # "store" /\ actor[a].at # "store") => Dialled' = Dialled
  BY <1>1 DEF Dialled
<1>4. d.at = "store" /\ actor[a].at # "store" => Dialled' = Dialled \cup {d.new}
  BY <1>1 DEF Dialled
<1>5. actor[a].at = "store" /\ d.at # "store" => Dialled \subseteq Dialled' \cup {actor[a].new}
  BY <1>1 DEF Dialled
<1>6. (Under' = {} => Dialled' = {}) /\ (Under = {} => Dialled = {})
  BY DEF Under, Retrying, Dialled
<1> QED BY <1>2, <1>3, <1>4, <1>5, <1>6

(* The places that the steps lead to. *)
LEMMA Places ==
  /\ [at |-> "loop"] \in ActorPlaces /\ [at |-> "failed"] \in ActorPlaces
  /\ [at |-> "off"] \in ActorPlaces
  /\ \A n \in Nat : /\ [at |-> "backoff", delay |-> n] \in ActorPlaces
                    /\ [at |-> "dial", delay |-> n] \in ActorPlaces
                    /\ [at |-> "store", new |-> n] \in ActorPlaces
  BY DEF ActorPlaces

(* Between calls: pings and decisions. *)
LEMMA BetweenCalls ==
  ASSUME StrayInv, NEW a \in Reconnectors,
         PingFails(a) \/ PingLate(a) \/ UserDecides(a) \/ PingExits(a)
  PROVE  StrayInv'
<1>1. /\ actor[a].at = "loop" /\ UNCHANGED <<held, open, works, conns, closing, needless>>
  BY DEF PingFails, PingLate, UserDecides, PingExits
<1>2. PICK p \in {"failed", "off"} : Act(a, [at |-> p])
  BY DEF PingFails, PingLate, UserDecides, PingExits
<1>3. [at |-> p] \in ActorPlaces
  BY Places
<1>4. WSTypes
  BY DEF StrayInv
<1>5. Under' = Under \ {a} /\ Dialled' = Dialled
  BY <1>1, <1>2, <1>3, <1>4, UnderMoves
<1>6. a \notin Under
  BY <1>1 DEF Under, Retrying
<1>7. WSTypes'
  BY <1>1, <1>2, <1>3, <1>4, ActorMoves DEF WSTypes
<1> QED BY <1>1, <1>5, <1>6, <1>7, QuietStep

(* A call begins: it is counted, or it has no connection to lose. *)
LEMMA CallBegins ==
  ASSUME StrayInv, NEW a \in Reconnectors, TryReconnect(a)
  PROVE  StrayInv'
<1> DEFINE d == [at |-> "backoff", delay |-> 1]
<1>1. /\ actor[a].at = "failed" /\ Act(a, d) /\ UNCHANGED <<held, open, works, conns, closing>>
  BY DEF TryReconnect
<1>2. d \in ActorPlaces /\ WSTypes
  BY Places DEF StrayInv
<1>3. Under' = Under \cup {a} /\ Dialled' = Dialled /\ (Under = {} => Dialled = {})
  BY <1>1, <1>2, UnderMoves
<1>4. a \notin Under
  BY <1>1 DEF Under, Retrying
<1>5. Loose' = Loose /\ (Loose \ {held})' = Loose \ {held}
  BY <1>1, <1>3 DEF Loose
<1>6. /\ IsFiniteSet(Under) /\ Cardinality(Under) \in Nat /\ IsFiniteSet(Loose \ {held})
      /\ Cardinality(Loose) \in Nat /\ Cardinality(Loose \ {held}) \in Nat
      /\ (Under = {} <=> Cardinality(Under) = 0) /\ needless \in Nat
  BY <1>2, WSFinite DEF WSTypes
<1>7. Cardinality(Under') = Cardinality(Under) + 1
  BY <1>3, <1>4, <1>6, FS_AddElement
<1>8. /\ needless' \in {needless, needless + 1}
      /\ held \in works \/ Cancelled \/ Under # {} => needless' = needless + 1
  BY DEF TryReconnect
<1>9. WSTypes'
  <2>1. actor' \in [Reconnectors -> ActorPlaces]
    BY <1>1, <1>2, ActorMoves
  <2> QED BY <1>1, <1>2, <1>6, <1>8, <2>1 DEF WSTypes
<1>10. Cardinality(Loose) <= Cardinality(Loose \ {held}) + 1
  <2>1. Loose \subseteq (Loose \ {held}) \cup {held}
    OBVIOUS
  <2> QED BY <1>6, <2>1, OneMore
<1>11. held \notin works => Loose \ {held} = Loose
  BY DEF Loose
<1>12. StrayCount'
  <2>1. CASE closing = "no"
    <3>1. Under' # {} /\ closing' = "no"
      BY <1>1, <1>3, <2>1
    <3>2. CASE Under = {}
      <4>1. Cardinality(Loose \ {held}) <= needless /\ Cardinality(Under') = 1
        BY <1>6, <1>7, <2>1, <3>2 DEF StrayInv, StrayCount
      <4>2. Cardinality(Loose) <= needless'
        <5>1. CASE held \in works
          BY <1>6, <1>8, <1>10, <4>1, <5>1
        <5>2. CASE held \notin works
          <6>1. Cardinality(Loose \ {held}) = Cardinality(Loose)
            BY <1>11, <5>2
          <6> QED BY <1>6, <1>8, <4>1, <6>1
        <5> QED BY <5>1, <5>2
      <4>3. Cardinality(Loose') + Cardinality(Under') <= needless' + 1
        BY <1>5, <1>6, <1>8, <4>1, <4>2
      <4> QED BY <3>1, <4>3 DEF StrayCount
    <3>3. CASE Under # {}
      <4>1. Cardinality(Loose) + Cardinality(Under) <= needless + 1 /\ needless' = needless + 1
        BY <1>8, <2>1, <3>3 DEF StrayInv, StrayCount
      <4>2. Cardinality(Loose') + Cardinality(Under') <= needless' + 1
        BY <1>5, <1>6, <1>7, <4>1
      <4> QED BY <3>1, <4>2 DEF StrayCount
    <3> QED BY <3>2, <3>3
  <2>2. CASE closing # "no"
    <3>1. needless' = needless + 1 /\ closing' = closing
      BY <1>1, <1>8, <2>2 DEF Cancelled
    <3>2. CASE closing = "cancelled"
      <4>1. Cardinality(Loose \ {held}) + Cardinality(Under) <= needless
        BY <3>2 DEF StrayInv, StrayCount
      <4>2. Cardinality((Loose \ {held})') + Cardinality(Under') <= needless'
        BY <1>5, <1>6, <1>7, <3>1, <4>1
      <4> QED BY <3>1, <3>2, <4>2 DEF StrayCount
    <3>3. CASE closing = "closed"
      <4>1. Cardinality(Loose) + Cardinality(Under) <= needless
        BY <3>3 DEF StrayInv, StrayCount
      <4>2. Cardinality(Loose') + Cardinality(Under') <= needless'
        BY <1>5, <1>6, <1>7, <3>1, <4>1
      <4> QED BY <3>1, <3>3, <4>2 DEF StrayCount
    <3> QED BY <1>2, <2>2, <3>2, <3>3 DEF WSTypes
  <2> QED BY <2>1, <2>2
<1> QED BY <1>9, <1>12 DEF StrayInv

(* A call goes on: the timer, a failed dial, a dial, or the end by ctx. *)
LEMMA CallGoesOn ==
  ASSUME StrayInv, NEW a \in Reconnectors, Backoff(a) \/ DialFails(a) \/ DialDone(a)
  PROVE  StrayInv'
<1>1. WSTypes /\ actor[a].at \in {"backoff", "dial"} /\ UNCHANGED <<held, closing, needless>>
  BY DEF StrayInv, Backoff, DialFails, DialDone
<1>2. a \in Under
  BY <1>1 DEF Under, Retrying
<1>3. actor[a].delay \in Nat
  BY <1>1, ActorFields DEF WSTypes
<1>4. CASE Backoff(a) /\ Act(a, [actor[a] EXCEPT !.at = "dial"])
  <2>1. Act(a, [at |-> "dial", delay |-> actor[a].delay]) /\ UNCHANGED <<open, works, conns>>
    BY <1>1, <1>4, ActorFields DEF Backoff, WSTypes
  <2>2. Under' = Under /\ Dialled' = Dialled
    <3>1. [at |-> "dial", delay |-> actor[a].delay] \in ActorPlaces
      BY <1>3, Places
    <3>2. Under' = (Under \ {a}) \cup {a} /\ Dialled' = Dialled
      BY <1>1, <2>1, <3>1, UnderMoves
    <3> QED BY <1>2, <3>2
  <2>3. WSTypes'
    BY <1>1, <1>3, <2>1, Places, ActorMoves DEF WSTypes
  <2> QED BY <1>1, <2>1, <2>2, <2>3, QuietStep
<1>5. CASE DialFails(a)
  <2>1. PICK n : n = IF actor[a].delay >= MaxDelay THEN MaxDelay ELSE 2 * actor[a].delay
    OBVIOUS
  <2>2. n \in Nat
    BY <1>3, <2>1, WSAssumption
  <2>3. Act(a, [at |-> "backoff", delay |-> n]) /\ UNCHANGED <<open, works, conns>>
    BY <1>5, <2>1 DEF DialFails
  <2>4. Under' = Under /\ Dialled' = Dialled
    <3>1. [at |-> "backoff", delay |-> n] \in ActorPlaces
      BY <2>2, Places
    <3>2. Under' = (Under \ {a}) \cup {a} /\ Dialled' = Dialled
      BY <1>1, <2>3, <3>1, UnderMoves
    <3> QED BY <1>2, <3>2
  <2>5. WSTypes'
    BY <1>1, <2>2, <2>3, Places, ActorMoves DEF WSTypes
  <2> QED BY <1>1, <2>3, <2>4, <2>5, QuietStep
<1>6. CASE DialDone(a)
  <2>1. conns' \in Nat /\ Act(a, [at |-> "store", new |-> conns'])
        /\ open' = open \cup {conns'} /\ works' = works \cup {conns'}
    BY <1>1, <1>6 DEF DialDone, WSTypes
  <2>2. Under' = Under /\ Dialled' = Dialled \cup {conns'}
    <3>1. [at |-> "store", new |-> conns'] \in ActorPlaces
      BY <2>1, Places
    <3>2. Under' = (Under \ {a}) \cup {a} /\ Dialled' = Dialled \cup {conns'}
      BY <1>1, <2>1, <3>1, UnderMoves
    <3> QED BY <1>2, <3>2
  <2>3. WSTypes'
    <3>1. IsFiniteSet(open')
      BY <1>1, <2>1, FS_AddElement DEF WSTypes
    <3> QED BY <1>1, <2>1, <3>1, Places, ActorMoves DEF WSTypes
  <2>4. Loose' \subseteq Loose /\ (Loose \ {held})' \subseteq Loose \ {held}
    BY <1>1, <2>1, <2>2 DEF Loose
  <2> QED BY <1>1, <2>2, <2>3, <2>4, SmallerStep
<1>7. CASE Cancelled /\ Act(a, [at |-> "off"]) /\ Backoff(a)
  <2>1. UNCHANGED <<open, works, conns>>
    BY <1>7 DEF Backoff
  <2>2. Under' = Under \ {a} /\ Dialled' = Dialled
    BY <1>1, <1>7, Places, UnderMoves
  <2>3. WSTypes'
    BY <1>1, <1>7, <2>1, Places, ActorMoves DEF WSTypes
  <2>4. Loose' = Loose /\ (Loose \ {held})' = Loose \ {held}
    BY <1>1, <2>1, <2>2 DEF Loose
  <2>5. /\ Cardinality(Under) \in Nat /\ Cardinality(Under') \in Nat
        /\ Cardinality(Under') <= Cardinality(Under)
        /\ Cardinality(Loose) \in Nat /\ Cardinality(Loose \ {held}) \in Nat /\ needless \in Nat
    BY <1>1, <2>2, WSFinite, NoMore DEF WSTypes
  <2>6. closing # "no"
    BY <1>7 DEF Cancelled
  <2> QED BY <1>1, <2>3, <2>4, <2>5, <2>6 DEF StrayInv, StrayCount
<1> QED BY <1>4, <1>5, <1>6, <1>7 DEF Backoff

(* A call ends by storing what it dialled over what the client held. *)
LEMMA CallEnds ==
  ASSUME StrayInv, NEW a \in Reconnectors, StoreConn(a)
  PROVE  StrayInv'
<1> DEFINE c == actor[a].new
<1>1. /\ actor[a].at = "store" /\ Act(a, [at |-> "loop"]) /\ held' = c
      /\ UNCHANGED <<open, works, conns, closing, needless>>
  BY DEF StoreConn
<1>2. WSTypes /\ a \in Under
  BY <1>1 DEF StrayInv, Under, Retrying
<1>3. /\ Under' = Under \ {a} /\ Dialled \subseteq Dialled' \cup {c}
      /\ (Under' = {} => Dialled' = {})
  BY <1>1, <1>2, Places, UnderMoves
<1>4. WSTypes'
  BY <1>1, <1>2, Places, ActorMoves DEF WSTypes
<1>5. /\ IsFiniteSet(Under) /\ Cardinality(Under) \in Nat /\ IsFiniteSet(Loose)
      /\ IsFiniteSet(Loose \ {held})
      /\ Cardinality(Loose) \in Nat /\ Cardinality(Loose \ {held}) \in Nat /\ needless \in Nat
  BY <1>2, WSFinite DEF WSTypes
<1>6. Cardinality(Under') = Cardinality(Under) - 1 /\ Cardinality(Under') \in Nat
  <2>1. Cardinality(Under') = Cardinality(Under) - 1
    BY <1>2, <1>3, <1>5, FS_RemoveElement
  <2> QED BY <1>4, <2>1, WSFinite, NoMore, <1>3, <1>5
<1>7. Loose' \subseteq Loose \cup {c}
  BY <1>1, <1>3 DEF Loose
<1>8. Cardinality(Loose') \in Nat /\ Cardinality(Loose') <= Cardinality(Loose) + 1
  BY <1>5, <1>7, OneMore
<1>9. PICK L : L = (Loose \ {held})'
  OBVIOUS
<1>10. L \subseteq Loose /\ L \subseteq (Loose \ {held}) \cup {held}
  BY <1>1, <1>7, <1>9
<1>11. /\ Cardinality(L) \in Nat /\ Cardinality(L) <= Cardinality(Loose)
       /\ Cardinality(L) <= Cardinality(Loose \ {held}) + 1
  BY <1>5, <1>10, OneMore, NoMore
<1>12. CASE closing = "no"
  <2>1. Cardinality(Loose) + Cardinality(Under) <= needless + 1
    BY <1>2, <1>12 DEF StrayInv, StrayCount
  <2>2. Under' = {} => Cardinality(L) <= needless
    <3>1. Under' = {} => Cardinality(Under') = 0
      BY FS_EmptySet
    <3> QED BY <1>5, <1>6, <1>11, <2>1, <3>1
  <2>3. Cardinality(Loose') + Cardinality(Under') <= needless + 1
    BY <1>5, <1>6, <1>8, <2>1
  <2> QED BY <1>1, <1>4, <1>9, <1>12, <2>2, <2>3 DEF StrayInv, StrayCount
<1>13. CASE closing = "cancelled"
  <2>1. Cardinality(Loose \ {held}) + Cardinality(Under) <= needless
    BY <1>13 DEF StrayInv, StrayCount
  <2>2. Cardinality(L) + Cardinality(Under') <= needless
    BY <1>5, <1>6, <1>11, <2>1
  <2> QED BY <1>1, <1>4, <1>9, <1>13, <2>2 DEF StrayInv, StrayCount
<1>14. CASE closing = "closed"
  <2>1. Cardinality(Loose) + Cardinality(Under) <= needless
    BY <1>14 DEF StrayInv, StrayCount
  <2>2. Cardinality(Loose') + Cardinality(Under') <= needless
    BY <1>5, <1>6, <1>8, <2>1
  <2> QED BY <1>1, <1>4, <1>14, <2>2 DEF StrayInv, StrayCount
<1> QED BY <1>2, <1>12, <1>13, <1>14 DEF WSTypes

(* Close, and connections that break. *)
LEMMA CloseCounts ==
  ASSUME StrayInv, CloseCancel \/ CloseConn \/ \E c \in works : Breaks(c)
  PROVE  StrayInv'
<1>1. WSTypes /\ UNCHANGED <<held, conns, actor>>
  BY DEF StrayInv, CloseCancel, CloseConn, Breaks
<1>2. Under' = Under /\ Dialled' = Dialled
  BY <1>1 DEF Under, Dialled, Retrying
<1>3. /\ IsFiniteSet(Under) /\ Cardinality(Under) \in Nat /\ IsFiniteSet(Loose)
      /\ Cardinality(Loose) \in Nat /\ Cardinality(Loose \ {held}) \in Nat /\ needless \in Nat
      /\ (Under = {} <=> Cardinality(Under) = 0)
  BY <1>1, WSFinite DEF WSTypes
<1>4. CASE CloseCancel
  <2>1. /\ closing = "no" /\ closing' = "cancelled" /\ needless' = needless + Cardinality(Under)
        /\ UNCHANGED <<open, works>>
    BY <1>4 DEF CloseCancel
  <2>2. WSTypes'
    BY <1>1, <1>3, <2>1 DEF WSTypes
  <2>3. (Loose \ {held})' = Loose \ {held} /\ Cardinality(Under') = Cardinality(Under)
    BY <1>1, <1>2, <2>1 DEF Loose
  <2>4. Cardinality(Loose \ {held}) <= Cardinality(Loose)
    BY <1>3, NoMore
  <2>5. Cardinality(Loose \ {held}) + Cardinality(Under) <= needless + Cardinality(Under)
    <3>1. CASE Under = {}
      BY <1>3, <2>1, <3>1 DEF StrayInv, StrayCount
    <3>2. CASE Under # {}
      <4>1. Cardinality(Loose) + Cardinality(Under) <= needless + 1
        BY <2>1, <3>2 DEF StrayInv, StrayCount
      <4> QED BY <1>3, <2>4, <3>2, <4>1
    <3> QED BY <3>1, <3>2
  <2> QED BY <2>1, <2>2, <2>3, <2>5 DEF StrayInv, StrayCount
<1>5. CASE CloseConn
  <2>1. /\ closing = "cancelled" /\ closing' = "closed" /\ UNCHANGED needless
        /\ open' = open \ {held} /\ works' = works \ {held}
    BY <1>5 DEF CloseConn
  <2>2. WSTypes'
    <3>1. IsFiniteSet(open')
      BY <1>1, <2>1, FS_Subset DEF WSTypes
    <3> QED BY <1>1, <2>1, <3>1 DEF WSTypes
  <2>3. Loose' = Loose \ {held}
    BY <1>2, <2>1 DEF Loose
  <2>4. Cardinality(Loose \ {held}) + Cardinality(Under) <= needless
    BY <2>1 DEF StrayInv, StrayCount
  <2> QED BY <1>2, <2>1, <2>2, <2>3, <2>4 DEF StrayInv, StrayCount
<1>6. CASE \E c \in works : Breaks(c)
  <2>1. works' \subseteq works /\ UNCHANGED <<open, closing, needless>>
    BY <1>6 DEF Breaks
  <2>2. WSTypes'
    BY <1>1, <2>1 DEF WSTypes
  <2> QED BY <1>1, <1>2, <2>1, <2>2, QuietStep
<1> QED BY <1>4, <1>5, <1>6

LEMMA StrayInitial == WSInit => StrayInv
<1> SUFFICES ASSUME WSInit PROVE StrayInv
  OBVIOUS
<1>1. /\ held = 1 /\ open = {1} /\ works = {1} /\ conns = 1 /\ needless = 0
      /\ actor = [a \in Reconnectors |-> [at |-> "loop"]] /\ closing = "no"
  BY DEF WSInit
<1>2. WSTypes
  BY <1>1, Places, FS_Singleton DEF WSTypes
<1>3. Under = {} /\ Loose \ {held} = {}
  BY <1>1 DEF Under, Retrying, Loose
<1>4. Cardinality(Loose \ {held}) = 0
  BY <1>3, FS_EmptySet
<1> QED BY <1>1, <1>2, <1>3, <1>4 DEF StrayInv, StrayCount

LEMMA StrayStep == ASSUME StrayInv, [WSNext]_wsVars PROVE StrayInv'
<1>1. CASE UNCHANGED wsVars
  <2>1. UNCHANGED <<held, open, works, conns, actor, closing, needless>>
    BY <1>1 DEF wsVars
  <2>2. Under' = Under /\ Dialled' = Dialled
    BY <2>1 DEF Under, Retrying, Dialled
  <2>3. WSTypes'
    BY <2>1 DEF StrayInv, WSTypes
  <2> QED BY <2>1, <2>2, <2>3, QuietStep
<1>2. CASE WSNext
  BY <1>2, BetweenCalls, CallBegins, CallGoesOn, CallEnds, CloseCounts DEF WSNext, Reconnect
<1> QED BY <1>1, <1>2

(* However often connections break and whoever calls TryReconnect when,    *)
(* the connections that work and that the client has lost sight of are no  *)
(* more than the needless calls (connect, Close): none if every call was   *)
(* needed and none overlapped another or Close.                            *)
THEOREM StraysCounted == WSSpec => []StraysBounded
<1>1. StrayInv => StraysBounded
  <2> SUFFICES ASSUME StrayInv, Under = {}
               PROVE  Cardinality((open \cap works) \ Holds) <= needless
    BY DEF StraysBounded
  <2>1. Dialled = {}
    BY DEF Under, Retrying, Dialled
  <2>2. Loose = open \cap works
    BY <2>1 DEF Loose
  <2>3. Cardinality(Under) = 0
    BY FS_EmptySet
  <2>4. WSTypes /\ Cardinality(Loose) \in Nat /\ Cardinality(Loose \ {held}) \in Nat
    BY WSFinite DEF StrayInv
  <2>5. CASE closing = "closed"
    <3>1. (open \cap works) \ Holds = Loose
      BY <2>2, <2>5 DEF Holds
    <3>2. Cardinality(Loose) + Cardinality(Under) <= needless
      BY <2>5 DEF StrayInv, StrayCount
    <3> QED BY <2>3, <2>4, <3>1, <3>2
  <2>6. CASE closing # "closed"
    <3>1. (open \cap works) \ Holds = Loose \ {held}
      BY <2>2, <2>6 DEF Holds
    <3>2. closing = "no" => Cardinality(Loose \ {held}) <= needless
      BY DEF StrayInv, StrayCount
    <3>3. closing = "cancelled" => Cardinality(Loose \ {held}) + Cardinality(Under) <= needless
      BY DEF StrayInv, StrayCount
    <3>4. needless \in Nat /\ closing \in {"no", "cancelled"}
      BY <2>4, <2>6 DEF WSTypes
    <3>5. Cardinality(Loose \ {held}) <= needless
      BY <2>3, <2>4, <3>2, <3>3, <3>4
    <3> QED BY <3>1, <3>5
  <2> QED BY <2>5, <2>6
<1> QED BY <1>1, StrayInitial, StrayStep, PTL DEF WSSpec

-----------------------------------------------------------------------------
(* Resending.  The events that the hub owes to the client: saved since the *)
(* connection began on which it got its first one, and neither delayed nor *)
(* missed.                                                                 *)
Owed == {e \in Nat : since < e /\ e <= saved /\ e \notin delayed /\ e \notin missed}

Elems(s) == {s[i] : i \in 1 .. Len(s)}

(* Whatever is owed and older than an element of s comes before it in s,   *)
(* or is in base.                                                          *)
Orderly(s, owed, base) ==
  \A i \in 1 .. Len(s) : \A e \in owed :
    e < s[i] => e \in base \/ \E j \in 1 .. i - 1 : s[j] = e

(* What resendEvents has still to list, and the last event that Push has   *)
(* handed over.                                                            *)
Unlisted == {e \in Nat : conn = "resend" /\ cursor < e}
Pushed   == IF pushing THEN saved - 1 ELSE saved
Connected == conn \in {"resend", "listed", "stream"}

(* Where an owed event is before it reaches each stage of the way. *)
BeforeQueue == got \cup Elems(wire) \cup Unlisted
BeforeHub   == BeforeQueue \cup Elems(queue)
AtAll       == BeforeHub \cup Elems(broadcast)

ResendTyped ==
  /\ {saved, cursor, lastEventID, since} \subseteq Nat
  /\ since <= saved /\ cursor <= saved /\ lastEventID <= saved
  /\ broadcast \in Seq(1 .. saved) /\ queue \in Seq(1 .. saved) /\ wire \in Seq(1 .. saved)
  /\ late \subseteq 1 .. saved /\ Pushed \in Nat
  /\ conn \in {"none", "resend", "listed", "stream", "broken"}
  /\ reg \in {"no", "taken", "yes"}
  /\ (conn = "none" => reg = "no") /\ (reg = "no" => ~Connected)
  /\ conn = "none" => queue = <<>>
  /\ ~Connected => wire = <<>>
  /\ (got = {}) <=> (lastEventID = 0)

(* What the client does not have comes after its Last-Event-ID, and every  *)
(* stage of the way passes on the owed events in order: the connection,    *)
(* the client's queue, the hub's channel, and Push.                        *)
WayInv ==
  /\ \A e \in Owed : e <= lastEventID => e \in got
  /\ Connected =>
       /\ Orderly(wire, Owed, got)
       /\ Orderly(queue, Owed, BeforeQueue)
       /\ Orderly(broadcast, Owed, BeforeHub)
       /\ \A e \in Owed : e <= Pushed => e \in AtAll
       /\ conn \in {"resend", "listed"} =>
            \A e \in Owed : e <= cursor => e \in got \cup Elems(wire)

ResendInv == ResendTyped /\ WayInv

(* Elements and order of a sequence that grows, shrinks or stays. *)
LEMMA ElemsTail ==
  ASSUME NEW S, NEW s \in Seq(S), s # <<>>
  PROVE  /\ Head(s) \in S /\ Tail(s) \in Seq(S)
         /\ Elems(s) = {Head(s)} \cup Elems(Tail(s))
<1>1. Len(s) \in Nat /\ Len(s) > 0 /\ Head(s) = s[1] /\ Len(Tail(s)) = Len(s) - 1
      /\ Head(s) \in S /\ Tail(s) \in Seq(S)
  OBVIOUS
<1>2. \A i \in 1 .. Len(s) - 1 : Tail(s)[i] = s[i + 1]
  BY <1>1
<1>3. \A i \in 1 .. Len(s) : i = 1 \/ (s[i] = Tail(s)[i - 1] /\ i - 1 \in 1 .. Len(s) - 1)
  BY <1>1, <1>2
<1>4. \A i \in 1 .. Len(s) - 1 : i + 1 \in 1 .. Len(s)
  BY <1>1
<1>5. Elems(s) \subseteq {Head(s)} \cup Elems(Tail(s))
  BY <1>1, <1>3 DEF Elems
<1>6. Head(s) \in Elems(s)
  BY <1>1 DEF Elems
<1>7. Elems(Tail(s)) \subseteq Elems(s)
  BY <1>1, <1>2, <1>4 DEF Elems
<1> QED BY <1>1, <1>5, <1>6, <1>7

LEMMA ElemsAppend ==
  ASSUME NEW S, NEW s \in Seq(S), NEW x \in S
  PROVE  /\ Append(s, x) \in Seq(S)
         /\ Elems(Append(s, x)) = Elems(s) \cup {x}
<1>1. Append(s, x) \in Seq(S) /\ Len(Append(s, x)) = Len(s) + 1 /\ Len(s) \in Nat
  OBVIOUS
<1>2. Append(s, x)[Len(s) + 1] = x /\ \A i \in 1 .. Len(s) : Append(s, x)[i] = s[i]
  OBVIOUS
<1>3. \A i \in 1 .. Len(s) + 1 : i \in 1 .. Len(s) \/ i = Len(s) + 1
  BY <1>1
<1>4. Elems(Append(s, x)) \subseteq Elems(s) \cup {x}
  BY <1>1, <1>2, <1>3 DEF Elems
<1>5. x \in Elems(Append(s, x))
  BY <1>1, <1>2 DEF Elems
<1>6. Elems(s) \subseteq Elems(Append(s, x))
  BY <1>1, <1>2 DEF Elems
<1> QED BY <1>1, <1>4, <1>5, <1>6

LEMMA ElemsNone == Elems(<<>>) = {} /\ \A owed, base : Orderly(<<>>, owed, base)
  BY DEF Elems, Orderly

LEMMA OrderlyKeeps ==
  ASSUME NEW s, NEW owed, NEW base, NEW owed2, NEW base2, Orderly(s, owed, base),
         \A e \in owed2 : e \in owed \/ \A i \in 1 .. Len(s) : ~(e < s[i]),
         \A e \in owed2 : e \in base => e \in base2
  PROVE  Orderly(s, owed2, base2)
  BY DEF Orderly

LEMMA OrderlyTail ==
  ASSUME NEW s \in Seq(Nat), s # <<>>, NEW owed, NEW base, NEW base2, Orderly(s, owed, base),
         NEW owed2 \in SUBSET owed,
         \A e \in owed2 : e \in base \/ e = Head(s) => e \in base2
  PROVE  /\ Orderly(Tail(s), owed2, base2)
         /\ \A e \in owed : e < Head(s) => e \in base
<1>1. Len(s) \in Nat /\ Len(s) > 0 /\ Head(s) = s[1] /\ Len(Tail(s)) = Len(s) - 1
  OBVIOUS
<1>2. \A i \in 1 .. Len(s) - 1 : Tail(s)[i] = s[i + 1]
  BY <1>1
<1>3. ASSUME NEW i \in 1 .. Len(s) - 1, NEW e \in owed2, e < Tail(s)[i]
      PROVE  e \in base2 \/ \E j \in 1 .. i - 1 : Tail(s)[j] = e
  <2>1. i + 1 \in 1 .. Len(s) /\ e < s[i + 1]
    BY <1>1, <1>2, <1>3
  <2>2. e \in base \/ \E j \in 1 .. i + 1 - 1 : s[j] = e
    BY <2>1 DEF Orderly
  <2>3. ASSUME NEW j \in 1 .. i + 1 - 1, s[j] = e, j # 1
        PROVE  \E k \in 1 .. i - 1 : Tail(s)[k] = e
    <3>1. j - 1 \in 1 .. i - 1 /\ j - 1 \in 1 .. Len(s) - 1
      BY <1>1, <2>3
    <3>2. Tail(s)[j - 1] = e
      BY <1>2, <2>3, <3>1
    <3> QED BY <3>1, <3>2
  <2> QED BY <1>1, <2>2, <2>3
<1>4. \A e \in owed : e < Head(s) => e \in base
  <2>1. 1 \in 1 .. Len(s) /\ 1 .. 1 - 1 = {}
    BY <1>1
  <2> QED BY <1>1, <2>1 DEF Orderly
<1> QED BY <1>1, <1>3, <1>4 DEF Orderly

LEMMA OrderlyAppend ==
  ASSUME NEW s \in Seq(Nat), NEW x \in Nat, NEW owed, NEW base, Orderly(s, owed, base),
         \A e \in owed : e < x => e \in base \cup Elems(s)
  PROVE  Orderly(Append(s, x), owed, base)
<1>1. Len(Append(s, x)) = Len(s) + 1 /\ Len(s) \in Nat
  OBVIOUS
<1>2. Append(s, x)[Len(s) + 1] = x /\ \A i \in 1 .. Len(s) : Append(s, x)[i] = s[i]
  OBVIOUS
<1>3. ASSUME NEW i \in 1 .. Len(s) + 1, NEW e \in owed, e < Append(s, x)[i]
      PROVE  e \in base \/ \E j \in 1 .. i - 1 : Append(s, x)[j] = e
  <2>1. CASE i = Len(s) + 1
    <3>1. e \in base \/ \E j \in 1 .. Len(s) : s[j] = e
      BY <1>2, <1>3, <2>1 DEF Elems
    <3> QED BY <1>1, <1>2, <2>1, <3>1
  <2>2. CASE i \in 1 .. Len(s)
    <3>1. e \in base \/ \E j \in 1 .. i - 1 : s[j] = e
      BY <1>2, <1>3, <2>2 DEF Orderly
    <3>2. \A j \in 1 .. i - 1 : j \in 1 .. Len(s)
      BY <1>1, <2>2
    <3> QED BY <1>2, <3>1, <3>2
  <2> QED BY <1>1, <2>1, <2>2
<1> QED BY <1>1, <1>3 DEF Orderly

LEMMA SeqWiden ==
  ASSUME NEW n \in Nat, NEW m \in Nat, n <= m, NEW s \in Seq(1 .. n)
  PROVE  s \in Seq(1 .. m) /\ s \in Seq(Nat) /\ \A i \in 1 .. Len(s) : s[i] \in 1 .. n
  OBVIOUS

LEMMA ResendInitial == ResendInit => ResendInv
<1> SUFFICES ASSUME ResendInit PROVE ResendInv
  OBVIOUS
<1>1. /\ saved = 0 /\ broadcast = <<>> /\ late = {} /\ conn = "none" /\ reg = "no" /\ cursor = 0
      /\ queue = <<>> /\ wire = <<>> /\ lastEventID = 0 /\ got = {} /\ since = 0
  BY DEF ResendInit
<1>2. Pushed = 0
  BY <1>1 DEF ResendInit, Pushed
<1>4. ResendTyped
  BY <1>1, <1>2 DEF ResendTyped, Connected
<1>3. WayInv
  BY <1>1 DEF WayInv, Connected, Owed
<1> QED BY <1>4, <1>3 DEF ResendInv

(* A step that leaves the way as it is, and owes no more than before, or   *)
(* besides only what Push has not handed over.                             *)
LEMMA WayStays ==
  ASSUME ResendInv, ResendTyped', saved <= saved',
         UNCHANGED <<broadcast, conn, cursor, queue, wire, lastEventID, got, since>>,
         \A e \in Owed' : e \in Owed \/ e > saved,
         \A e \in Owed' : e <= Pushed' => e \in Owed /\ e <= Pushed
  PROVE  WayInv'
<1>1. /\ {saved, cursor, lastEventID} \subseteq Nat /\ cursor <= saved /\ lastEventID <= saved
      /\ broadcast \in Seq(1 .. saved) /\ queue \in Seq(1 .. saved) /\ wire \in Seq(1 .. saved)
  BY DEF ResendInv, ResendTyped
<1>2. UNCHANGED <<Connected, Unlisted, BeforeQueue, BeforeHub, AtAll>>
  BY DEF Connected, Unlisted, BeforeQueue, BeforeHub, AtAll
<1>3. ASSUME NEW s \in Seq(1 .. saved)
      PROVE  \A e \in Owed' : e \in Owed \/ \A i \in 1 .. Len(s) : ~(e < s[i])
  <2>1. \A i \in 1 .. Len(s) : s[i] \in 1 .. saved
    BY <1>1, SeqWiden
  <2>2. \A e \in Owed' : e \in Nat
    BY DEF Owed
  <2> QED BY <1>1, <2>1, <2>2
<1>4. \A e \in Owed' : e <= lastEventID => e \in got
  <2>1. \A e \in Owed' : e <= lastEventID => e \in Owed
    BY <1>1 DEF Owed
  <2> QED BY <2>1 DEF ResendInv, WayInv
<1>5. ASSUME Connected
      PROVE  /\ Orderly(wire, Owed', got)
             /\ Orderly(queue, Owed', BeforeQueue)
             /\ Orderly(broadcast, Owed', BeforeHub)
  <2>1. /\ Orderly(wire, Owed, got) /\ Orderly(queue, Owed, BeforeQueue)
        /\ Orderly(broadcast, Owed, BeforeHub)
    BY <1>5 DEF ResendInv, WayInv
  <2>2. Orderly(wire, Owed', got)
    BY <1>1, <1>3, <2>1, OrderlyKeeps
  <2>3. Orderly(queue, Owed', BeforeQueue)
    BY <1>1, <1>3, <2>1, OrderlyKeeps
  <2>4. Orderly(broadcast, Owed', BeforeHub)
    BY <1>1, <1>3, <2>1, OrderlyKeeps
  <2> QED BY <2>2, <2>3, <2>4
<1>6. Connected => \A e \in Owed' : e <= Pushed' => e \in AtAll
  BY DEF ResendInv, WayInv
<1>7. conn \in {"resend", "listed"} => \A e \in Owed' : e <= cursor => e \in got \cup Elems(wire)
  <2>1. \A e \in Owed' : e <= cursor => e \in Owed
    BY <1>1 DEF Owed
  <2> QED BY <2>1 DEF ResendInv, WayInv, Connected
<1> QED BY <1>2, <1>4, <1>5, <1>6, <1>7 DEF WayInv

LEMMA SaveStep == ASSUME ResendInv, Save PROVE ResendInv'
<1>1. saved \in Nat /\ saved' = saved + 1 /\ Pushed' = saved /\ Pushed = saved
  BY DEF Save, Pushed, ResendInv, ResendTyped
<1>2. UNCHANGED <<broadcast, late, conn, reg, cursor, queue, wire, lastEventID, got, since,
                  delayed, missed>>
  BY DEF Save
<1>3. ResendTyped'
  <2>1. /\ broadcast \in Seq(1 .. saved) /\ queue \in Seq(1 .. saved) /\ wire \in Seq(1 .. saved)
    BY DEF ResendInv, ResendTyped
  <2>2. /\ broadcast \in Seq(1 .. saved') /\ queue \in Seq(1 .. saved') /\ wire \in Seq(1 .. saved')
    BY <1>1, <2>1, SeqWiden
  <2> QED BY <1>1, <1>2, <2>2 DEF ResendInv, ResendTyped, Connected
<1>4. \A e \in Owed' : e \in Owed \/ e > saved
  BY <1>1, <1>2 DEF Owed
<1>5. \A e \in Owed' : e <= Pushed' => e \in Owed /\ e <= Pushed
  BY <1>1, <1>2 DEF Owed
<1> QED BY <1>1, <1>2, <1>3, <1>4, <1>5, WayStays DEF ResendInv

(* Without a connection only the first conjunct of WayInv says anything. *)
LEMMA WayDown ==
  ASSUME ResendInv, ~Connected', lastEventID' = lastEventID, got' = got, Owed' \subseteq Owed
  PROVE  WayInv'
  BY DEF ResendInv, WayInv

(* An event arrives in the hub's channel: Push or a worker. *)
LEMMA WayAppends ==
  ASSUME ResendInv, ResendTyped', NEW x \in 1 .. saved, broadcast' = Append(broadcast, x),
         UNCHANGED <<saved, conn, cursor, queue, wire, lastEventID, got, since, delayed, missed>>,
         \A e \in Owed : e < x => e <= Pushed,
         \A e \in Owed : e <= Pushed' => e = x \/ e <= Pushed
  PROVE  WayInv'
<1>1. saved \in Nat /\ broadcast \in Seq(1 .. saved) /\ x \in Nat
  BY DEF ResendInv, ResendTyped
<1>2. Elems(broadcast') = Elems(broadcast) \cup {x} /\ broadcast \in Seq(Nat)
  <2>1. Elems(broadcast') = Elems(broadcast) \cup {x}
    BY <1>1, ElemsAppend
  <2>2. broadcast \in Seq(Nat)
    BY <1>1, SeqWiden
  <2> QED BY <2>1, <2>2
<1>3. UNCHANGED <<Owed, Connected, Unlisted, BeforeQueue, BeforeHub>> /\ AtAll' = AtAll \cup {x}
  BY <1>2 DEF Owed, Connected, Unlisted, BeforeQueue, BeforeHub, AtAll
<1>4. CASE ~Connected
  BY <1>3, <1>4, WayDown
<1>5. CASE Connected
  <2>1. \A e \in Owed : e <= Pushed => e \in BeforeHub \cup Elems(broadcast)
    BY <1>5 DEF ResendInv, WayInv, AtAll
  <2>2. Orderly(broadcast, Owed, BeforeHub) /\ \A e \in Owed : e < x => e \in BeforeHub \cup Elems(broadcast)
    BY <1>5, <2>1 DEF ResendInv, WayInv
  <2>3. Orderly(broadcast', Owed, BeforeHub)
    BY <1>1, <1>2, <2>2, OrderlyAppend
  <2>4. \A e \in Owed : e <= Pushed' => e \in AtAll'
    BY <1>3, <2>1 DEF AtAll
  <2> QED BY <1>3, <1>5, <2>3, <2>4 DEF ResendInv, WayInv
<1> QED BY <1>4, <1>5

LEMMA PushStep == ASSUME ResendInv, PushSaved PROVE ResendInv'
<1>1. saved \in Nat /\ UNCHANGED saved /\ Pushed' = saved /\ Pushed = saved - 1 /\ saved # 0
  <2>1. pushing /\ pushing' = FALSE /\ UNCHANGED saved
    BY DEF PushSaved
  <2>2. Pushed' = saved /\ Pushed = saved - 1
    BY <2>1 DEF Pushed
  <2> QED BY <2>1, <2>2 DEF ResendInv, ResendTyped
<1>2. UNCHANGED <<conn, reg, cursor, queue, wire, lastEventID, got, since>>
  BY DEF PushSaved
<1>3. \/ reg # "yes" /\ missed' = missed \cup TooEarly /\ UNCHANGED <<broadcast, late, delayed>>
      \/ broadcast' = Append(broadcast, saved) /\ UNCHANGED <<late, delayed, missed>>
      \/ /\ late' = late \cup {saved} /\ delayed' = delayed \cup {saved}
         /\ UNCHANGED <<broadcast, missed>>
  BY DEF PushSaved, Registered
<1>4. CASE reg # "yes" /\ missed' = missed \cup TooEarly /\ UNCHANGED <<broadcast, late, delayed>>
  <2>1. ResendTyped'
    BY <1>1, <1>2, <1>4 DEF ResendInv, ResendTyped, Connected
  <2>2. \A e \in Owed' : e \in Owed /\ e <= saved /\ e \in Nat
    BY <1>1, <1>2, <1>4 DEF Owed
  <2>3. CASE ~Connected
    <3>1. ~Connected'
      BY <1>2, <2>3 DEF Connected
    <3> QED BY <1>2, <2>1, <2>2, <3>1, WayDown DEF ResendInv
  <2>4. CASE conn \in {"listed", "stream"}
    <3>1. reg = "taken"
      BY <1>4, <2>4 DEF ResendInv, ResendTyped, Connected
    <3>2. \A e \in Owed' : e # saved
      BY <1>1, <1>4, <2>4, <3>1 DEF TooEarly, Owed
    <3>3. \A e \in Owed' : e \in Owed /\ e <= Pushed
      BY <1>1, <2>2, <3>2
    <3> QED BY <1>1, <1>2, <1>4, <2>1, <3>3, WayStays DEF ResendInv
  <2>5. CASE conn = "resend"
    <3>1. Connected /\ cursor \in Nat
      BY <2>5 DEF Connected, ResendInv, ResendTyped
    <3>2. missed' = missed
      BY <1>4, <2>5 DEF TooEarly
    <3>3. UNCHANGED <<Owed, Connected, Unlisted, BeforeQueue, BeforeHub, AtAll>>
      BY <1>1, <1>2, <1>4, <3>2 DEF Owed, Connected, Unlisted, BeforeQueue, BeforeHub, AtAll
    <3>4. ASSUME NEW e \in Owed PROVE e \in AtAll
      <4>1. e \in Nat
        BY DEF Owed
      <4>2. CASE e <= cursor
        BY <2>5, <3>1, <4>2 DEF ResendInv, WayInv, AtAll, BeforeHub, BeforeQueue
      <4>3. CASE cursor < e
        BY <2>5, <4>1, <4>3 DEF Unlisted, AtAll, BeforeHub, BeforeQueue
      <4> QED BY <3>1, <4>1, <4>2, <4>3
    <3>5. WayInv'
      BY <1>2, <1>4, <3>1, <3>3, <3>4 DEF ResendInv, WayInv
    <3> QED BY <2>1, <3>5 DEF ResendInv
  <2> QED BY <2>3, <2>4, <2>5 DEF Connected
<1>5. CASE broadcast' = Append(broadcast, saved) /\ UNCHANGED <<late, delayed, missed>>
  <2>1. broadcast' \in Seq(1 .. saved)
    BY <1>1, <1>5, ElemsAppend DEF ResendInv, ResendTyped
  <2>2. ResendTyped'
    BY <1>1, <1>2, <1>5, <2>1 DEF ResendInv, ResendTyped, Connected
  <2>3. \A e \in Owed : (e < saved => e <= Pushed) /\ (e <= Pushed' => e = saved \/ e <= Pushed)
    BY <1>1 DEF Owed
  <2> QED BY <1>1, <1>2, <1>5, <2>2, <2>3, WayAppends DEF ResendInv
<1>6. CASE /\ late' = late \cup {saved} /\ delayed' = delayed \cup {saved}
           /\ UNCHANGED <<broadcast, missed>>
  <2>1. ResendTyped'
    BY <1>1, <1>2, <1>6 DEF ResendInv, ResendTyped, Connected
  <2>2. \A e \in Owed' : e \in Owed /\ e <= Pushed
    BY <1>1, <1>2, <1>6 DEF Owed
  <2> QED BY <1>1, <1>2, <1>6, <2>1, <2>2, WayStays DEF ResendInv
<1> QED BY <1>3, <1>4, <1>5, <1>6

LEMMA LateStep == ASSUME ResendInv, LatePush PROVE ResendInv'
<1>1. /\ UNCHANGED <<saved, conn, reg, cursor, queue, wire, lastEventID, got, since, delayed, missed>>
      /\ UNCHANGED Pushed
  BY DEF LatePush, Pushed
<1>2. PICK x \in late : /\ late' = late \ {x}
                        /\ broadcast' = Append(broadcast, x) \/ UNCHANGED broadcast
  BY DEF LatePush
<1>3. x \in 1 .. saved /\ saved \in Nat
  BY DEF ResendInv, ResendTyped
<1>4. CASE UNCHANGED broadcast
  <2>1. ResendTyped'
    BY <1>1, <1>2, <1>4 DEF ResendInv, ResendTyped, Connected
  <2>2. UNCHANGED Owed
    BY <1>1 DEF Owed
  <2> QED BY <1>1, <1>3, <1>4, <2>1, <2>2, WayStays DEF ResendInv
<1>5. CASE broadcast' = Append(broadcast, x)
  <2>1. broadcast' \in Seq(1 .. saved)
    BY <1>3, <1>5, ElemsAppend DEF ResendInv, ResendTyped
  <2>2. ResendTyped'
    BY <1>1, <1>2, <2>1 DEF ResendInv, ResendTyped, Connected
  <2>3. Pushed \in {saved - 1, saved}
    BY DEF Pushed
  <2>4. \A e \in Owed : e < x => e <= Pushed
    BY <1>3, <2>3 DEF Owed
  <2> QED BY <1>1, <1>3, <1>5, <2>2, <2>4, WayAppends DEF ResendInv
<1> QED BY <1>2, <1>4, <1>5

LEMMA HubStep == ASSUME ResendInv, HubTake PROVE ResendInv'
<1> DEFINE x == Head(broadcast)
<1>1. /\ UNCHANGED <<saved, late, conn, reg, cursor, wire, lastEventID, got, since, missed>>
      /\ UNCHANGED Pushed /\ broadcast # <<>> /\ broadcast' = Tail(broadcast)
  BY DEF HubTake, Pushed
<1>2. \/ queue' = Append(queue, x) /\ UNCHANGED delayed /\ conn # "none"
      \/ ~Connected /\ UNCHANGED <<queue, delayed>>
      \/ delayed' = delayed \cup {x} /\ UNCHANGED queue
  BY DEF HubTake, Registered, ResendInv, ResendTyped
<1>3. saved \in Nat /\ broadcast \in Seq(1 .. saved) /\ queue \in Seq(1 .. saved)
  BY DEF ResendInv, ResendTyped
<1>4. /\ x \in 1 .. saved /\ broadcast' \in Seq(1 .. saved)
      /\ Elems(broadcast) = {x} \cup Elems(broadcast')
  BY <1>1, <1>3, ElemsTail
<1>5. broadcast \in Seq(Nat) /\ queue \in Seq(Nat) /\ x \in Nat
  BY <1>3, <1>4, SeqWiden
<1>6. CASE ~Connected /\ UNCHANGED <<queue, delayed>>
  <2>1. ResendTyped'
    BY <1>1, <1>4, <1>6 DEF ResendInv, ResendTyped, Connected
  <2>2. ~Connected' /\ UNCHANGED Owed
    BY <1>1, <1>6 DEF Connected, Owed
  <2> QED BY <1>1, <2>1, <2>2, WayDown DEF ResendInv
<1>7. CASE queue' = Append(queue, x) /\ UNCHANGED delayed /\ conn # "none"
  <2>1. queue' \in Seq(1 .. saved) /\ Elems(queue') = Elems(queue) \cup {x}
    BY <1>3, <1>4, <1>7, ElemsAppend
  <2>2. ResendTyped'
    BY <1>1, <1>4, <1>7, <2>1 DEF ResendInv, ResendTyped, Connected
  <2>3. /\ UNCHANGED <<Owed, Connected, Unlisted, BeforeQueue>>
        /\ BeforeHub' = BeforeHub \cup {x} /\ AtAll' = AtAll
    BY <1>1, <1>4, <1>7, <2>1 DEF Owed, Connected, Unlisted, BeforeQueue, BeforeHub, AtAll
  <2>4. CASE ~Connected
    BY <1>1, <2>2, <2>3, <2>4, WayDown DEF ResendInv
  <2>5. CASE Connected
    <3>1. Orderly(broadcast, Owed, BeforeHub) /\ Orderly(queue, Owed, BeforeQueue)
      BY <2>5 DEF ResendInv, WayInv
    <3>2. /\ Orderly(broadcast', Owed, BeforeHub')
          /\ \A e \in Owed : e < x => e \in BeforeHub
      BY <1>1, <1>5, <2>3, <3>1, OrderlyTail
    <3>3. \A e \in Owed : e < x => e \in BeforeQueue \cup Elems(queue)
      BY <3>2 DEF BeforeHub
    <3>4. Orderly(queue', Owed, BeforeQueue)
      BY <1>5, <1>7, <3>1, <3>3, OrderlyAppend
    <3>5. WayInv'
      BY <1>1, <2>3, <2>5, <3>2, <3>4 DEF ResendInv, WayInv
    <3> QED BY <2>2, <3>5 DEF ResendInv
  <2> QED BY <2>4, <2>5
<1>8. CASE delayed' = delayed \cup {x} /\ UNCHANGED queue
  <2>1. ResendTyped'
    BY <1>1, <1>4, <1>8 DEF ResendInv, ResendTyped, Connected
  <2>2. /\ UNCHANGED <<Connected, Unlisted, BeforeQueue, BeforeHub>>
        /\ AtAll = AtAll' \cup {x}
    BY <1>1, <1>4, <1>8 DEF Connected, Unlisted, BeforeQueue, BeforeHub, AtAll
  <2>3. Owed' \subseteq Owed /\ x \notin Owed'
    BY <1>1, <1>8 DEF Owed
  <2>4. CASE ~Connected
    BY <1>1, <2>1, <2>2, <2>3, <2>4, WayDown DEF ResendInv
  <2>5. CASE Connected
    <3>1. Orderly(broadcast, Owed, BeforeHub) /\ Orderly(queue, Owed, BeforeQueue)
          /\ Orderly(wire, Owed, got)
      BY <2>5 DEF ResendInv, WayInv
    <3>2. Orderly(broadcast', Owed', BeforeHub)
      <4>1. \A e \in Owed' : e \in BeforeHub \/ e = x => e \in BeforeHub
        BY <2>3
      <4>2. Owed' \in SUBSET Owed
        BY <2>3
      <4> QED BY <1>1, <1>5, <3>1, <4>1, <4>2, OrderlyTail
    <3>3. Orderly(queue, Owed', BeforeQueue)
      BY <2>3, <3>1, OrderlyKeeps
    <3>4. Orderly(wire, Owed', got)
      BY <2>3, <3>1, OrderlyKeeps
    <3>5. \A e \in Owed' : e <= Pushed => e \in AtAll'
      BY <2>2, <2>3, <2>5 DEF ResendInv, WayInv
    <3>6. WayInv'
      BY <1>1, <1>8, <2>2, <2>3, <2>5, <3>2, <3>3, <3>4, <3>5 DEF ResendInv, WayInv
    <3> QED BY <2>1, <3>6 DEF ResendInv
  <2> QED BY <2>4, <2>5
<1> QED BY <1>2, <1>6, <1>7, <1>8

LEMMA ConnectStep == ASSUME ResendInv, Connect PROVE ResendInv'
<1>1. /\ UNCHANGED <<saved, broadcast, late, queue, wire, lastEventID, got, delayed, missed>>
      /\ UNCHANGED Pushed /\ conn = "none" /\ reg' = "taken" /\ cursor' = lastEventID
      /\ conn' = IF lastEventID # 0 THEN "resend" ELSE "stream"
      /\ since' = IF got = {} THEN saved ELSE since
  BY DEF Connect, Pushed
<1>2. wire = <<>> /\ queue = <<>> /\ (got = {} <=> lastEventID = 0)
  BY <1>1 DEF ResendInv, ResendTyped, Connected
<1>3. ResendTyped'
  BY <1>1, <1>2 DEF ResendInv, ResendTyped, Connected
<1>4. CASE got = {}
  <2>1. Owed' = {}
    BY <1>1, <1>3, <1>4 DEF Owed, ResendTyped
  <2>2. WayInv'
    BY <2>1 DEF WayInv, Orderly
  <2> QED BY <1>3, <2>2 DEF ResendInv
<1>5. CASE got # {}
  <2>1. UNCHANGED Owed /\ conn' = "resend" /\ \A e \in Owed : e <= lastEventID => e \in got
    BY <1>1, <1>2, <1>5 DEF Owed, ResendInv, WayInv
  <2>2. \A e \in Owed : e \in BeforeQueue' /\ e \in BeforeHub' /\ e \in AtAll'
    <3>1. \A e \in Owed : e \in Nat /\ lastEventID \in Nat
      BY DEF Owed, ResendInv, ResendTyped
    <3> QED BY <1>1, <2>1, <3>1 DEF BeforeQueue, BeforeHub, AtAll, Unlisted
  <2>3. Orderly(queue', Owed, BeforeQueue') /\ Orderly(broadcast', Owed, BeforeHub')
    BY <2>2 DEF Orderly
  <2>4. Orderly(wire', Owed, got')
    BY <1>1, <1>2, ElemsNone
  <2>5. WayInv'
    BY <1>1, <2>1, <2>2, <2>3, <2>4 DEF WayInv
  <2> QED BY <1>3, <2>5 DEF ResendInv
<1> QED BY <1>4, <1>5

(* A page lists the events that follow the cursor, without a hole, and it  *)
(* is empty only if nothing follows.                                       *)
LEMMA PageLists ==
  ASSUME saved \in Nat, cursor \in Nat, cursor <= saved
  PROVE  /\ Len(Page) \in Nat /\ cursor + Len(Page) <= saved
         /\ Page \in Seq(1 .. saved) /\ \A i \in 1 .. Len(Page) : Page[i] = cursor + i
         /\ Page = <<>> => cursor = saved
<1> DEFINE last == IF cursor + PageSize < saved THEN cursor + PageSize ELSE saved
           n == last - cursor
<1>1. n \in Nat /\ cursor + n <= saved /\ (n = 0 => cursor = saved)
  BY ResendAssumption
<1>2. Page = [i \in 1 .. n |-> cursor + i]
  BY DEF Page
<1> HIDE DEF n
<1>3. Page \in Seq(1 .. saved) /\ Len(Page) = n
  BY <1>1, <1>2
<1> QED BY <1>1, <1>2, <1>3

(* The page follows on the wire: what is owed up to the old cursor is on   *)
(* its way or received, and the page has no hole.                          *)
LEMMA OrderlyPage ==
  ASSUME NEW w \in Seq(Nat), NEW p \in Seq(Nat), NEW c \in Nat, NEW owed \in SUBSET Nat, NEW base,
         \A i \in 1 .. Len(p) : p[i] = c + i,
         Orderly(w, owed, base), \A e \in owed : e <= c => e \in base \cup Elems(w)
  PROVE  /\ Orderly(w \o p, owed, base)
         /\ Elems(w) \subseteq Elems(w \o p)
         /\ \A e \in Nat : c < e /\ e <= c + Len(p) => e \in Elems(w \o p)
<1>1. /\ Len(w) \in Nat /\ Len(p) \in Nat /\ Len(w \o p) = Len(w) + Len(p)
      /\ \A i \in 1 .. Len(w) : (w \o p)[i] = w[i]
      /\ \A i \in 1 .. Len(p) : (w \o p)[Len(w) + i] = c + i
  OBVIOUS
<1> DEFINE q == w \o p
<1> HIDE DEF q
<1>2. /\ Len(q) = Len(w) + Len(p)
      /\ \A i \in 1 .. Len(w) : q[i] = w[i] /\ i \in 1 .. Len(q)
      /\ \A i \in 1 .. Len(p) : q[Len(w) + i] = c + i /\ Len(w) + i \in 1 .. Len(q)
  BY <1>1 DEF q
<1>3. Elems(w) \subseteq Elems(q)
  BY <1>2 DEF Elems
<1>4. ASSUME NEW e \in Nat, c < e, e <= c + Len(p) PROVE e \in Elems(q)
  <2>1. PICK k \in 1 .. Len(p) : e = c + k
    <3>1. e - c \in 1 .. Len(p) /\ e = c + (e - c)
      BY <1>1, <1>4
    <3> QED BY <3>1
  <2>2. q[Len(w) + k] = e /\ Len(w) + k \in 1 .. Len(q)
    BY <1>2, <2>1
  <2> QED BY <2>2 DEF Elems
<1>5. ASSUME NEW i \in 1 .. Len(q), NEW e \in owed, e < q[i]
      PROVE  e \in base \/ \E j \in 1 .. i - 1 : q[j] = e
  <2>1. CASE i \in 1 .. Len(w)
    <3>1. e \in base \/ \E j \in 1 .. i - 1 : w[j] = e
      BY <1>2, <1>5, <2>1 DEF Orderly
    <3>2. \A j \in 1 .. i - 1 : j \in 1 .. Len(w)
      BY <1>1, <2>1
    <3> QED BY <1>2, <3>1, <3>2
  <2>2. CASE i \notin 1 .. Len(w)
    <3>1. PICK k \in 1 .. Len(p) : i = Len(w) + k
      <4>1. i - Len(w) \in 1 .. Len(p) /\ i = Len(w) + (i - Len(w))
        BY <1>1, <1>2, <2>2
      <4> QED BY <4>1
    <3>2. e < c + k /\ e \in Nat
      BY <1>2, <1>5, <3>1
    <3>3. CASE e <= c
      <4>1. e \in base \/ \E j \in 1 .. Len(w) : w[j] = e
        BY <3>3 DEF Elems
      <4>2. \A j \in 1 .. Len(w) : j \in 1 .. i - 1
        BY <1>1, <3>1
      <4> QED BY <1>2, <4>1, <4>2
    <3>4. CASE ~(e <= c)
      <4>1. PICK l \in 1 .. Len(p) : e = c + l
        <5>1. e - c \in 1 .. Len(p) /\ e = c + (e - c)
          BY <1>1, <3>1, <3>2, <3>4
        <5> QED BY <5>1
      <4>2. q[Len(w) + l] = e /\ Len(w) + l \in 1 .. i - 1
        BY <1>1, <1>2, <3>1, <3>2, <4>1
      <4> QED BY <4>2
    <3> QED BY <3>3, <3>4
  <2> QED BY <2>1, <2>2
<1>6. Orderly(q, owed, base)
  BY <1>5 DEF Orderly
<1> QED BY <1>3, <1>4, <1>6 DEF q

LEMMA ListStep == ASSUME ResendInv, Resend PROVE ResendInv'
<1>1. /\ UNCHANGED <<saved, broadcast, late, reg, queue, lastEventID, got, since, delayed, missed>>
      /\ UNCHANGED Pushed
      /\ conn = "resend" /\ wire' = wire \o Page /\ cursor' = cursor + Len(Page)
      /\ conn' = "resend" \/ (cursor' = saved /\ conn' = "listed")
  BY DEF Resend, Pushed
<1>2. saved \in Nat /\ cursor \in Nat /\ cursor <= saved /\ wire \in Seq(1 .. saved)
  BY DEF ResendInv, ResendTyped
<1>3. /\ Len(Page) \in Nat /\ cursor' \in Nat /\ cursor' <= saved
      /\ Page \in Seq(1 .. saved) /\ \A i \in 1 .. Len(Page) : Page[i] = cursor + i
      /\ Page = <<>> => cursor = saved
  BY <1>1, <1>2, PageLists
<1>4. wire \in Seq(Nat) /\ Page \in Seq(Nat) /\ wire' \in Seq(1 .. saved)
  <2>1. wire \in Seq(Nat)
    BY <1>2, SeqWiden
  <2>2. Page \in Seq(Nat)
    BY <1>2, <1>3, SeqWiden
  <2>3. wire' \in Seq(1 .. saved)
    BY <1>1, <1>2, <1>3
  <2> QED BY <2>1, <2>2, <2>3
<1>5. ResendTyped'
  BY <1>1, <1>3, <1>4 DEF ResendInv, ResendTyped, Connected
<1>6. Connected /\ Connected' /\ UNCHANGED Owed /\ Owed \subseteq Nat
  BY <1>1 DEF Connected, Owed
<1>7. /\ Orderly(wire, Owed, got) /\ Orderly(queue, Owed, BeforeQueue)
      /\ Orderly(broadcast, Owed, BeforeHub) /\ (\A e \in Owed : e <= Pushed => e \in AtAll)
      /\ \A e \in Owed : e <= cursor => e \in got \cup Elems(wire)
  BY <1>1, <1>6 DEF ResendInv, WayInv
<1>8. /\ Orderly(wire', Owed, got) /\ Elems(wire) \subseteq Elems(wire')
      /\ \A e \in Nat : cursor < e /\ e <= cursor' => e \in Elems(wire')
  BY <1>1, <1>2, <1>3, <1>4, <1>6, <1>7, OrderlyPage
<1>9. \A e \in Owed : e <= cursor' => e \in got \cup Elems(wire')
  <2>1. \A e \in Owed : e \in Nat /\ (e <= cursor \/ cursor < e)
    BY <1>2, <1>6
  <2> QED BY <1>7, <1>8, <2>1
<1>10. ASSUME NEW e \in Owed PROVE e \in Unlisted => e \in Elems(wire') \cup Unlisted'
  <2>1. e \in Nat /\ e <= saved
    BY <1>6 DEF Owed
  <2>2. e \in Unlisted => cursor < e
    BY DEF Unlisted
  <2>3. conn' = "resend" \/ e <= cursor'
    BY <1>1, <2>1
  <2>4. e <= cursor' \/ cursor' < e
    BY <1>3, <2>1
  <2> QED BY <1>8, <2>1, <2>2, <2>3, <2>4 DEF Unlisted
<1>11. \A e \in Owed : /\ e \in BeforeQueue => e \in BeforeQueue'
                       /\ e \in BeforeHub => e \in BeforeHub'
                       /\ e \in AtAll => e \in AtAll'
  BY <1>1, <1>8, <1>10 DEF BeforeQueue, BeforeHub, AtAll
<1>12. Orderly(queue, Owed, BeforeQueue')
  BY <1>7, <1>11, OrderlyKeeps
<1>13. Orderly(broadcast, Owed, BeforeHub')
  BY <1>7, <1>11, OrderlyKeeps
<1>14. \A e \in Owed : e <= lastEventID => e \in got
  BY DEF ResendInv, WayInv
<1>15. WayInv'
  BY <1>1, <1>6, <1>7, <1>8, <1>9, <1>11, <1>12, <1>13, <1>14 DEF WayInv
<1> QED BY <1>5, <1>15 DEF ResendInv

(* What the failed listing leaves out is not owed any more. *)
LEMMA FailStep == ASSUME ResendInv, ListFails PROVE ResendInv'
<1>1. /\ UNCHANGED <<saved, broadcast, late, reg, cursor, queue, wire, lastEventID, got, since, delayed>>
      /\ UNCHANGED Pushed /\ conn = "resend" /\ conn' = "listed"
      /\ missed' = missed \cup (cursor + 1 .. saved)
  BY DEF ListFails, Pushed
<1>2. saved \in Nat /\ cursor \in Nat
  BY DEF ResendInv, ResendTyped
<1>3. ResendTyped' /\ Connected /\ Connected'
  BY <1>1 DEF ResendInv, ResendTyped, Connected
<1>4. \A e \in Owed' : e \in Owed /\ e <= cursor
  BY <1>1, <1>2 DEF Owed
<1>5. /\ Orderly(wire, Owed, got) /\ Orderly(queue, Owed, BeforeQueue)
      /\ Orderly(broadcast, Owed, BeforeHub) /\ (\A e \in Owed : e <= lastEventID => e \in got)
      /\ \A e \in Owed : e <= cursor => e \in got \cup Elems(wire)
  BY <1>1, <1>3 DEF ResendInv, WayInv
<1>6. \A e \in Owed' : e \in BeforeQueue' /\ e \in BeforeHub' /\ e \in AtAll'
  BY <1>1, <1>4, <1>5 DEF BeforeQueue, BeforeHub, AtAll
<1>7. Orderly(wire, Owed', got)
  BY <1>4, <1>5, OrderlyKeeps
<1>8. Orderly(queue, Owed', BeforeQueue') /\ Orderly(broadcast, Owed', BeforeHub')
  BY <1>6 DEF Orderly
<1>9. WayInv'
  BY <1>1, <1>3, <1>4, <1>5, <1>6, <1>7, <1>8 DEF WayInv
<1> QED BY <1>3, <1>9 DEF ResendInv

LEMMA SetStep == ASSUME ResendInv, SetClient PROVE ResendInv'
<1>1. /\ UNCHANGED <<saved, broadcast, late, conn, cursor, queue, wire, lastEventID, got, since,
                     delayed, missed>>
      /\ UNCHANGED Pushed /\ reg = "taken" /\ reg' = "yes"
  BY DEF SetClient, Pushed
<1>2. UNCHANGED Owed /\ ResendTyped' /\ saved \in Nat
  BY <1>1 DEF Owed, ResendInv, ResendTyped, Connected
<1> QED BY <1>1, <1>2, WayStays DEF ResendInv

LEMMA StreamSteps == ASSUME ResendInv, StartStream \/ Stream PROVE ResendInv'
<1>1. /\ UNCHANGED <<saved, broadcast, late, reg, cursor, lastEventID, got, since, delayed, missed>>
      /\ UNCHANGED Pushed /\ conn \in {"listed", "stream"} /\ conn' = "stream"
  BY DEF StartStream, Stream, Pushed
<1>2. Connected /\ Connected' /\ UNCHANGED Owed /\ Unlisted = {} /\ Unlisted' = {}
  BY <1>1 DEF Connected, Owed, Unlisted
<1>3. saved \in Nat /\ queue \in Seq(1 .. saved) /\ wire \in Seq(1 .. saved)
  BY DEF ResendInv, ResendTyped
<1>4. /\ Orderly(wire, Owed, got) /\ Orderly(queue, Owed, BeforeQueue)
      /\ Orderly(broadcast, Owed, BeforeHub) /\ (\A e \in Owed : e <= Pushed => e \in AtAll)
      /\ \A e \in Owed : e <= lastEventID => e \in got
  BY <1>2 DEF ResendInv, WayInv
<1>5. CASE StartStream
  <2>1. UNCHANGED <<wire, queue, BeforeQueue, BeforeHub, AtAll>>
    BY <1>1, <1>2, <1>5 DEF StartStream, BeforeQueue, BeforeHub, AtAll
  <2>2. ResendTyped'
    BY <1>1, <2>1 DEF ResendInv, ResendTyped, Connected
  <2>3. WayInv'
    BY <1>1, <1>2, <1>4, <2>1 DEF WayInv
  <2> QED BY <2>2, <2>3 DEF ResendInv
<1>6. CASE Stream
  <2> DEFINE x == Head(queue)
  <2>1. queue # <<>> /\ wire' = Append(wire, x) /\ queue' = Tail(queue)
    BY <1>6 DEF Stream
  <2>2. /\ x \in 1 .. saved /\ queue' \in Seq(1 .. saved) /\ Elems(queue) = {x} \cup Elems(queue')
    BY <1>3, <2>1, ElemsTail
  <2>3. wire' \in Seq(1 .. saved) /\ Elems(wire') = Elems(wire) \cup {x}
    BY <1>3, <2>1, <2>2, ElemsAppend
  <2>4. ResendTyped'
    BY <1>1, <1>2, <2>2, <2>3 DEF ResendInv, ResendTyped, Connected
  <2>5. BeforeQueue' = BeforeQueue \cup {x} /\ UNCHANGED <<BeforeHub, AtAll>>
    BY <1>1, <1>2, <2>2, <2>3 DEF BeforeQueue, BeforeHub, AtAll
  <2>6. wire \in Seq(Nat) /\ queue \in Seq(Nat) /\ x \in Nat
    BY <1>3, <2>2, SeqWiden
  <2>7. Orderly(queue', Owed, BeforeQueue') /\ \A e \in Owed : e < x => e \in BeforeQueue
    BY <1>4, <2>1, <2>5, <2>6, OrderlyTail
  <2>8. \A e \in Owed : e < x => e \in got \cup Elems(wire)
    BY <1>2, <2>7 DEF BeforeQueue
  <2>9. Orderly(wire', Owed, got)
    BY <1>4, <2>1, <2>6, <2>8, OrderlyAppend
  <2>10. WayInv'
    BY <1>1, <1>2, <1>4, <2>5, <2>7, <2>9 DEF WayInv
  <2> QED BY <2>4, <2>10 DEF ResendInv
<1> QED BY <1>5, <1>6

LEMMA ReceiveStep == ASSUME ResendInv, Receive PROVE ResendInv'
<1> DEFINE x == Head(wire)
<1>1. /\ UNCHANGED <<saved, broadcast, late, conn, reg, cursor, queue, since, delayed, missed>>
      /\ UNCHANGED Pushed
      /\ wire # <<>> /\ wire' = Tail(wire) /\ lastEventID' = x /\ got' = got \cup {x}
  BY DEF Receive, Pushed
<1>2. Connected /\ Connected' /\ UNCHANGED <<Owed, Unlisted>>
  <2>1. Connected
    BY <1>1 DEF ResendInv, ResendTyped
  <2> QED BY <1>1, <2>1 DEF Connected, Owed, Unlisted
<1>3. saved \in Nat /\ wire \in Seq(1 .. saved)
  BY DEF ResendInv, ResendTyped
<1>4. x \in 1 .. saved /\ wire' \in Seq(1 .. saved) /\ Elems(wire) = {x} \cup Elems(wire')
  BY <1>1, <1>3, ElemsTail
<1>5. ResendTyped'
  <2>1. got' # {} /\ lastEventID' # 0 /\ lastEventID' \in Nat /\ lastEventID' <= saved
    <3>1. x \in got' /\ x \in Nat /\ x # 0 /\ x <= saved
      BY <1>1, <1>3, <1>4
    <3> QED BY <1>1, <3>1
  <2>2. (got' = {}) <=> (lastEventID' = 0)
    BY <2>1
  <2>3. UNCHANGED Connected
    BY <1>1 DEF Connected
  <2> QED BY <1>1, <1>2, <1>4, <2>1, <2>2, <2>3 DEF ResendInv, ResendTyped
<1>6. /\ Orderly(wire, Owed, got) /\ Orderly(queue, Owed, BeforeQueue)
      /\ Orderly(broadcast, Owed, BeforeHub) /\ (\A e \in Owed : e <= Pushed => e \in AtAll)
      /\ conn \in {"resend", "listed"} =>
           \A e \in Owed : e <= cursor => e \in got \cup Elems(wire)
  BY <1>2 DEF ResendInv, WayInv
<1>7. got' \cup Elems(wire') = got \cup Elems(wire)
  BY <1>1, <1>4
<1>8. UNCHANGED <<BeforeQueue, BeforeHub, AtAll>>
  BY <1>1, <1>2, <1>7 DEF BeforeQueue, BeforeHub, AtAll
<1>9. wire \in Seq(Nat) /\ x \in Nat
  BY <1>3, <1>4, SeqWiden
<1>10. Orderly(wire', Owed, got') /\ \A e \in Owed : e < x => e \in got
  BY <1>1, <1>6, <1>9, OrderlyTail
<1>11. \A e \in Owed : e <= x => e \in got'
  <2>1. \A e \in Owed : e <= x => e < x \/ e = x
    BY <1>9 DEF Owed
  <2> QED BY <1>1, <1>10, <2>1
<1>12. WayInv'
  BY <1>1, <1>2, <1>6, <1>7, <1>8, <1>10, <1>11 DEF WayInv
<1> QED BY <1>5, <1>12 DEF ResendInv

LEMMA DownSteps == ASSUME ResendInv, Break \/ Unregister PROVE ResendInv'
<1>1. /\ UNCHANGED <<saved, broadcast, late, cursor, lastEventID, got, since, delayed, missed>>
      /\ UNCHANGED Pushed
  BY DEF Break, Unregister, Pushed
<1>2. \/ conn' = "broken" /\ UNCHANGED <<queue, reg>> /\ wire' = <<>>
      \/ conn = "broken" /\ conn' = "none" /\ reg' = "no" /\ queue' = <<>> /\ UNCHANGED wire
  BY DEF Break, Unregister
<1>3. ~Connected' /\ UNCHANGED Owed
  BY <1>1, <1>2 DEF Connected, Owed
<1>4. wire' = <<>> /\ queue' \in Seq(1 .. saved) /\ (conn' = "none" => queue' = <<>>)
      /\ conn' \in {"broken", "none"}
      /\ reg' \in {"no", "taken", "yes"} /\ (conn' = "none" => reg' = "no")
  BY <1>2 DEF ResendInv, ResendTyped, Connected
<1>5. ResendTyped'
  BY <1>1, <1>3, <1>4 DEF ResendInv, ResendTyped
<1> QED BY <1>1, <1>3, <1>5, WayDown DEF ResendInv

LEMMA ResendStep == ASSUME ResendInv, [ResendNext]_resendVars PROVE ResendInv'
<1>1. CASE UNCHANGED resendVars
  <2>1. /\ UNCHANGED <<saved, broadcast, late, conn, reg, cursor, queue, wire, lastEventID,
                       got, since, delayed, missed>>
        /\ UNCHANGED Pushed
    BY <1>1 DEF resendVars, Pushed
  <2>2. UNCHANGED Owed /\ ResendTyped' /\ saved \in Nat
    BY <2>1 DEF Owed, ResendInv, ResendTyped, Connected
  <2> QED BY <2>1, <2>2, WayStays DEF ResendInv
<1>2. CASE ResendNext
  BY <1>2, SaveStep, PushStep, LateStep, HubStep, SetStep, ConnectStep, ListStep, FailStep,
     StreamSteps, ReceiveStep, DownSteps DEF ResendNext, Progress
<1> QED BY <1>1, <1>2

(* Of the events saved since the connection began on which the client got  *)
(* its first one, it never lacks one that would not be resent, unless the  *)
(* hub delayed or gave up that one, or missed it between listing and       *)
(* clients.Set: for every page size, any number of events and of breaks,   *)
(* wherever they fall (Push, Serve, resendEvents, SSEClient).              *)
THEOREM NothingForgotten == ResendSpec => []NoneForgotten
<1>1. ResendInv => NoneForgotten
  <2> SUFFICES ASSUME ResendInv, NEW e \in Ids, Due(e), e \notin delayed \cup missed
               PROVE  e \in got \/ e > lastEventID
    BY DEF NoneForgotten
  <2>1. e \in Nat /\ lastEventID \in Nat
    BY ResendAssumption DEF Ids, ResendInv, ResendTyped
  <2>2. e \in Owed
    BY <2>1 DEF Owed, Due
  <2> QED BY <2>1, <2>2 DEF ResendInv, WayInv
<1> QED BY <1>1, ResendInitial, ResendStep, PTL DEF ResendSpec

=============================================================================
