-------------------------- MODULE BackgroundProofs --------------------------
(* Proofs about the work in the background: the Kafka claim, the RabbitMQ  *)
(* consumer and the named tasks of gocron.                                 *)
EXTENDS RabbitMQ, Kafka, GoCron, TLAPS

-----------------------------------------------------------------------------
(* Kafka.  The last message whose handler has run; while a message is in   *)
(* the handler's hands it is the one before.                               *)
Seen == IF claim = "handle" THEN offset - 1 ELSE offset

(* Every message up to the last one seen was tried, and marks and commits  *)
(* stay behind it: what ConsumeClaim keeps between any two of its steps.   *)
ClaimInv ==
  /\ {log, offset, marked, committed} \subseteq Nat
  /\ claim \in {"select", "handle", "mark", "commit", "returned"}
  /\ claim = "handle" => offset > 0
  /\ committed <= marked /\ marked <= Seen
  /\ 1 .. Seen \subseteq tried

(* sarama keeps the higher of two offsets. *)
LEMMA MaxPair ==
  ASSUME NEW a \in Nat, NEW b \in Nat, a <= b
  PROVE  Max({a, b}) = b
<1>1. b \in {a, b} /\ \A y \in {a, b} : b >= y
  OBVIOUS
<1>2. \A x \in {a, b} : (\A y \in {a, b} : x >= y) => x = b
  OBVIOUS
<1> QED BY <1>1, <1>2 DEF Max

LEMMA ClaimInitial == KafkaInit => ClaimInv
  BY DEF KafkaInit, ClaimInv, Seen

LEMMA ClaimStep == ASSUME ClaimInv, [KafkaNext]_kafkaVars PROVE ClaimInv'
<1> USE DEF ClaimInv, Seen
<1>1. CASE UNCHANGED claimVars
  BY <1>1 DEF claimVars
<1>2. CASE Produced
  BY <1>2 DEF Produced
<1>3. CASE TakeMessage
  BY <1>3 DEF TakeMessage
<1>4. CASE HandleDone
  BY <1>4 DEF HandleDone
<1>5. CASE HandleError
  BY <1>5 DEF HandleError
<1>6. CASE MarkMessage
  <2>1. marked' = offset
    BY <1>6, MaxPair DEF MarkMessage
  <2>2. /\ claim = "mark" /\ claim' \in {"select", "commit"}
        /\ UNCHANGED <<log, offset, committed, tried>>
    BY <1>6 DEF MarkMessage
  <2> QED BY <2>1, <2>2
<1>7. CASE Commit
  BY <1>7 DEF Commit
<1>8. CASE AutoCommit
  BY <1>8 DEF AutoCommit
<1>9. CASE ClaimReturns \/ Crash
  BY <1>9 DEF ClaimReturns, Crash, EndSession
<1>10. CASE Consume
  BY <1>10 DEF Consume
<1>11. CASE Respond \/ CloseProducer \/ CloseSarama
  BY <1>11, <1>1 DEF Respond, ResponseExits, TellFailure, CloseProducer, CloseSarama
<1>12. CASE \E m \in Sends : SendMessage(m) \/ SendResult(m)
  BY <1>12, <1>1 DEF SendMessage, SendResult
<1> QED
  BY <1>1, <1>2, <1>3, <1>4, <1>5, <1>6, <1>7, <1>8, <1>9, <1>10, <1>11, <1>12
  DEF KafkaNext, Claim, kafkaVars

(* No crash, rebalance, panic or failed handler makes the consumer group   *)
(* commit past a message that no handler has seen, however long the        *)
(* partition and however many sessions (ConsumeClaim).                     *)
THEOREM KafkaCommitsTried == KafkaSpec => []CommittedWasTried
<1>1. ClaimInv => CommittedWasTried
  BY DEF ClaimInv, Seen, CommittedWasTried
<1> QED BY <1>1, ClaimInitial, ClaimStep, PTL DEF KafkaSpec

-----------------------------------------------------------------------------
(* RabbitMQ.  A message that is about to be acknowledged was handled; with *)
(* it ManualAckKeeps is inductive.                                         *)
AckInv ==
  /\ ManualAckKeeps
  /\ consume = "ack" => cur \in handled

(* When channels end, each message that was delivered on one of them and   *)
(* not acknowledged is queued again, and the others stay where they are.   *)
LEMMA EndKeeps ==
  ASSUME NEW cs, EndChannels(cs), NEW m
  PROVE  /\ m \in ready => m \in ready'
         /\ (\E u \in unacked : u[1] = m) => m \in ready' \/ \E u \in unacked' : u[1] = m
  BY DEF EndChannels

LEMMA AckInitial == RabbitInit => AckInv
  BY DEF RabbitInit, AckInv, ManualAckKeeps

LEMMA AckStep == ASSUME AckInv, [RabbitNext]_rabbitVars PROVE AckInv'
<1> USE DEF AckInv, ManualAckKeeps, connVars, consumerVars, channelVars, resultVars
<1>1. CASE UNCHANGED rabbitVars
  BY <1>1 DEF rabbitVars
<1>2. CASE MonitorStep
  <2>1. CASE MonitorExit
    BY <2>1, EndKeeps DEF MonitorExit
  <2> QED BY <2>1, <1>2 DEF MonitorStep, MonitorLost, RedialFails, RedialDone, SetConn
<1>3. CASE ConsumeStep
  <2>1. CASE ConsumeExit
    BY <2>1, EndKeeps DEF ConsumeExit
  <2>2. CASE DeclareFails
    BY <2>2, EndKeeps DEF DeclareFails
  <2>3. CASE ConsumeFails
    BY <2>3, EndKeeps DEF ConsumeFails
  <2>4. CASE Tick \/ InitChannel \/ Declared \/ Consuming \/ DeliveryEnds
    BY <2>4 DEF Tick, InitChannel, Declared, Consuming, DeliveryEnds
  <2>5. CASE HandlerDone \/ HandlerFails
    BY <2>5 DEF HandlerDone, HandlerFails
  <2>6. CASE Ack
    BY <2>6 DEF Ack
  <2>7. ASSUME NEW m \in Messages, ReceiveDelivery(m) PROVE AckInv'
    BY <2>7 DEF ReceiveDelivery
  <2> QED BY <1>3, <2>1, <2>2, <2>3, <2>4, <2>5, <2>6, <2>7 DEF ConsumeStep, Handles
<1>4. CASE LoseChannel
  BY <1>4, EndKeeps DEF LoseChannel
<1>5. CASE CloseClears \/ CloseExit \/ CancelConsume
  BY <1>5 DEF CloseClears, CloseExit, CancelConsume
<1>6. ASSUME NEW c \in alive, LoseConn(c) PROVE AckInv'
  BY <1>6, EndKeeps DEF LoseConn
<1>7. ASSUME NEW m \in Messages, Publish(m) PROVE AckInv'
  BY <1>7 DEF Publish
<1>8. ASSUME NEW m \in Messages, Deliver(m) PROVE AckInv'
  <2>1. /\ UNCHANGED <<manual, consume, published, cur, handled>>
        /\ ready' = ready \ {m} /\ (manual => unacked' = unacked \cup {<<m, ch>>})
    BY <1>8 DEF Deliver
  <2>2. manual => \E u \in unacked' : u[1] = m
    <3>1. <<m, ch>>[1] = m
      OBVIOUS
    <3> QED BY <2>1, <3>1
  <2>3. manual => unacked \subseteq unacked'
    BY <2>1
  <2> QED BY <2>1, <2>2, <2>3
<1>9. CASE \E m \in Messages : Publish(m) \/ Deliver(m)
  BY <1>9, <1>7, <1>8
<1>10. CASE \E c \in alive : LoseConn(c)
  BY <1>10, <1>6
<1> QED
  BY <1>1, <1>2, <1>3, <1>4, <1>5, <1>9, <1>10 DEF RabbitNext

(* With manual acknowledgement the broker keeps a message until a handler  *)
(* has succeeded, for any number of messages, lost connections, lost       *)
(* channels and failing handlers, and through Close (Consume, d.Ack).      *)
THEOREM RabbitKeepsUnhandled == RabbitSpec => []ManualAckKeeps
<1>1. AckInv => ManualAckKeeps
  BY DEF AckInv
<1> QED BY <1>1, AckInitial, AckStep, PTL DEF RabbitSpec

-----------------------------------------------------------------------------
(* gocron.  What a goroutine may be doing: nothing, a call that knows its  *)
(* task's name only, or one that has an entry's id in hand.                *)
ProcStates ==
  [at : {"idle"}] \cup [at : {"add", "job", "load"}, name : Names]
    \cup [at : {"idName", "nameID", "remove", "name", "id"}, name : Names, id : IDs]

HasID(p)   == proc[p].at \in {"idName", "nameID", "remove", "name", "id"}
Storing(p) == proc[p].at \in {"idName", "nameID"}

CronTypes ==
  /\ nextID \in 0 .. MaxEntries /\ entries \subseteq 1 .. nextID
  /\ nameOf = [i \in IDs |-> nameOf[i]] /\ nameID \in [Names -> 0 .. nextID]
  /\ proc \in [Procs -> ProcStates]

(* An id is stored, and worked on, under the name it was added for. *)
IDsNamed ==
  /\ \A i \in 1 .. nextID : nameOf[i] \in Names
  /\ \A n \in Names : nameID[n] # 0 => nameOf[nameID[n]] = n
  /\ \A p \in Procs : HasID(p) => proc[p].id <= nextID /\ nameOf[proc[p].id] = proc[p].name

(* The entry of a Run that has not returned is its own: nobody else has    *)
(* the id, so nobody removes it.                                           *)
StoringOwns ==
  \A p \in Procs : Storing(p) =>
    /\ p \in Users /\ proc[p].id \in entries /\ nameID[proc[p].name] # proc[p].id
    /\ \A q \in Procs : HasID(q) /\ proc[q].id = proc[p].id => q = p

(* Between DeleteRemove and DeleteName the entry is gone. *)
RemovedFirst == \A p \in Procs : proc[p].at = "name" => proc[p].id \notin entries

(* Calls that do not overlap: one Run and one DeleteTask for a name, the   *)
(* first while it has no id and the second while it has the id it loaded.  *)
OneByOne ==
  \A n \in Names :
    /\ \A p, q \in Adding(n) : p = q
    /\ \A p, q \in Deleting(n) : p = q
    /\ Adding(n) # {} => nameID[n] = 0
    /\ \A p \in Deleting(n) : nameID[n] = proc[p].id

(* The two halves of NamesMatchEntries. *)
NamesLive == \A n \in Names : nameID[n] # 0 /\ Deleting(n) = {} => nameID[n] \in entries
EntriesNamed ==
  \A i \in entries : nameID[nameOf[i]] = i \/ \E p \in Users : Storing(p) /\ proc[p].id = i

CronInv ==
  /\ CronTypes /\ IDsNamed /\ StoringOwns /\ RemovedFirst /\ NamesLive
  /\ overlap \in BOOLEAN /\ (~overlap => OneByOne /\ EntriesNamed)

(* Which fields a goroutine's state has, and what a change of its place keeps. *)
LEMMA Fields ==
  ASSUME NEW s \in ProcStates
  PROVE  /\ s.at \in {"add", "job", "load"} =>
              s.name \in Names /\ [s EXCEPT !.at = "load"] = [at |-> "load", name |-> s.name]
         /\ s.at \in {"idName", "nameID", "remove", "name", "id"} =>
              /\ s.name \in Names /\ s.id \in IDs
              /\ \A a : [s EXCEPT !.at = a] = [at |-> a, name |-> s.name, id |-> s.id]
  BY DEF ProcStates

LEMMA Becomes ==
  ASSUME CronTypes, NEW p \in Procs, NEW d \in ProcStates, Become(p, d)
  PROVE  /\ proc' \in [Procs -> ProcStates] /\ proc'[p] = d
         /\ \A q \in Procs : q # p => proc'[q] = proc[q]
  BY DEF CronTypes, Become

LEMMA CronInitial == CronInit => CronInv
<1> SUFFICES ASSUME CronInit PROVE CronInv
  OBVIOUS
<1>1. nextID = 0 /\ entries = {}
  BY DEF CronInit
<1>2. /\ nameOf = [i \in IDs |-> nameOf[i]] /\ nameID \in [Names -> {0}]
      /\ overlap \in BOOLEAN /\ \A p \in Procs : proc[p] = Resting
  BY DEF CronInit
<1>3. Resting \in ProcStates /\ Resting.at = "idle"
  BY DEF Resting, ProcStates
<1>4. \A p \in Procs : proc[p].at = "idle"
  BY <1>2, <1>3
<1>5. \A n \in Names : nameID[n] = 0
  BY <1>2
<1>6. CronTypes
  <2>1. proc \in [Procs -> ProcStates]
    BY <1>3 DEF CronInit
  <2>2. nextID \in 0 .. MaxEntries /\ {0} \subseteq 0 .. nextID
    BY <1>1, CronAssumption
  <2>3. nameID \in [Names -> 0 .. nextID]
    BY <1>2, <2>2
  <2> QED BY <1>1, <1>2, <2>1, <2>2, <2>3 DEF CronTypes
<1>7. IDsNamed
  BY <1>1, <1>4, <1>5 DEF IDsNamed, HasID
<1>8. StoringOwns /\ RemovedFirst
  BY <1>4 DEF StoringOwns, RemovedFirst, Storing
<1>9. NamesLive /\ EntriesNamed
  BY <1>1, <1>5 DEF NamesLive, EntriesNamed
<1>10. OneByOne
  BY <1>4 DEF OneByOne, Adding, Deleting
<1> QED BY <1>2, <1>6, <1>7, <1>8, <1>9, <1>10 DEF CronInv

(* A goroutine takes up, or gives up, something without an id: the maps    *)
(* and the scheduler are as before.                                        *)
LEMMA CronPlain ==
  ASSUME CronInv, NEW p \in Procs, NEW d \in ProcStates, Become(p, d),
         d.at \in {"idle", "add", "job", "load"},
         proc[p].at \in {"idle", "add", "job", "load", "id"},
         overlap' \in BOOLEAN, overlap => overlap',
         d.at = "add" => nameID[d.name] = 0 /\ (~overlap' => Adding(d.name) = {}),
         UNCHANGED <<entries, nameOf, nameID, nextID>>
  PROVE  CronInv'
<1> USE DEF CronInv
<1>1. /\ proc' \in [Procs -> ProcStates] /\ proc'[p] = d
      /\ \A q \in Procs : q # p => proc'[q] = proc[q]
  BY Becomes
<1>2. CronTypes'
  BY <1>1 DEF CronTypes
<1>3. IDsNamed'
  BY <1>1 DEF IDsNamed, HasID
<1>4. StoringOwns'
  BY <1>1 DEF StoringOwns, HasID, Storing
<1>5. RemovedFirst'
  BY <1>1 DEF RemovedFirst
<1>6. \A n : Deleting(n)' = Deleting(n)
  BY <1>1 DEF Deleting
<1>7. NamesLive'
  BY <1>6 DEF NamesLive
<1>8. ASSUME ~overlap' PROVE OneByOne' /\ EntriesNamed'
  <2>1. ~overlap /\ OneByOne /\ EntriesNamed
    BY <1>8
  <2>2. EntriesNamed'
    <3>1. \A q \in Users : q \in Procs
      BY DEF Procs
    <3>2. \A q \in Procs : Storing(q) => q # p
      BY DEF Storing
    <3> QED BY <1>1, <2>1, <3>1, <3>2 DEF EntriesNamed, Storing
  <2>3. \A n : \A q \in Adding(n)' : q \in Adding(n) \/ (q = p /\ d.at = "add" /\ n = d.name)
    BY <1>1 DEF Adding
  <2>4. d.at = "add" => Adding(d.name) = {}
    BY <1>8
  <2>5. OneByOne'
    <3> SUFFICES ASSUME NEW n \in Names
                 PROVE  /\ \A q, r \in Adding(n)' : q = r
                        /\ \A q, r \in Deleting(n)' : q = r
                        /\ Adding(n)' # {} => nameID[n]' = 0
                        /\ \A q \in Deleting(n)' : nameID[n]' = proc[q].id'
      BY DEF OneByOne
    <3>1. /\ \A q, r \in Adding(n)' : q = r
          /\ Adding(n)' # {} => nameID[n]' = 0
      BY <2>1, <2>3, <2>4 DEF OneByOne
    <3>2. \A q \in Deleting(n) : q \in Procs /\ q # p
      BY DEF Deleting
    <3> QED BY <1>1, <1>6, <2>1, <3>1, <3>2 DEF OneByOne
  <2> QED BY <2>2, <2>5
<1> QED BY <1>2, <1>3, <1>4, <1>5, <1>7, <1>8

(* AddFunc succeeds: the id is new, so nobody has it. *)
LEMMA CronAdds ==
  ASSUME CronInv, NEW u \in Users, proc[u].at = "add", AddFunc(u), nextID' # nextID
  PROVE  CronInv'
<1> DEFINE d == [at |-> "idName", name |-> proc[u].name, id |-> nextID']
<1>a. CronTypes /\ IDsNamed /\ StoringOwns /\ RemovedFirst /\ NamesLive
  BY DEF CronInv
<1>b. overlap' = overlap
  BY DEF AddFunc
<1>1. /\ nextID < MaxEntries /\ nextID' = nextID + 1 /\ entries' = entries \cup {nextID'}
      /\ nameOf' = [nameOf EXCEPT ![nextID'] = proc[u].name]
      /\ Become(u, d) /\ nameID' = nameID
  BY DEF AddFunc
<1>2. /\ u \in Procs /\ proc[u].name \in Names /\ nextID' \in IDs /\ nextID \in Nat
      /\ MaxEntries \in Nat
  <2>1. u \in Procs /\ proc[u] \in ProcStates
    BY <1>a DEF Procs, CronTypes
  <2>2. proc[u].name \in Names
    BY <2>1, Fields
  <2>3. nextID \in Nat /\ MaxEntries \in Nat
    BY <1>a, CronAssumption DEF CronTypes
  <2> QED BY <1>1, <2>1, <2>2, <2>3 DEF IDs
<1>3. d \in ProcStates
  BY <1>2 DEF ProcStates
<1> HIDE DEF d
<1>4. /\ proc' \in [Procs -> ProcStates] /\ proc'[u] = d
      /\ \A q \in Procs : q # u => proc'[q] = proc[q]
  BY <1>a, <1>1, <1>2, <1>3, Becomes
<1>5. d.at = "idName" /\ d.name = proc[u].name /\ d.id = nextID'
  BY DEF d
<1>6. /\ nameOf' = [i \in IDs |-> nameOf'[i]] /\ nameOf'[nextID'] = proc[u].name
      /\ \A i \in 1 .. nextID : nameOf'[i] = nameOf[i] /\ i # nextID'
  <2>1. nameOf = [i \in IDs |-> nameOf[i]]
    BY <1>a DEF CronTypes
  <2>2. \A i \in 1 .. nextID : i \in IDs /\ i # nextID'
    BY <1>1, <1>2 DEF IDs
  <2>3. \A i \in IDs : nameOf'[i] = IF i = nextID' THEN proc[u].name ELSE nameOf[i]
    BY <2>1, <1>1
  <2>4. nameOf' = [i \in IDs |-> nameOf'[i]]
    BY <2>1, <1>1
  <2> QED BY <1>2, <2>2, <2>3, <2>4
<1>7. CronTypes'
  <2>1. nextID' \in 0 .. MaxEntries /\ entries' \subseteq 1 .. nextID'
    BY <1>a, <1>1, <1>2 DEF CronTypes
  <2>2. nameID' \in [Names -> 0 .. nextID']
    BY <1>a, <1>1, <1>2 DEF CronTypes
  <2> QED BY <1>a, <1>4, <1>6, <2>1, <2>2 DEF CronTypes
<1>8. /\ \A n \in Names : nameID[n] \in 0 .. nextID
      /\ \A q \in Procs : HasID(q) => q # u /\ proc[q].id \in 1 .. nextID
  <2>1. \A q \in Procs : HasID(q) => proc[q].id \in IDs /\ q # u
    BY <1>a, Fields DEF HasID, CronTypes
  <2> QED BY <1>a, <2>1, <1>2 DEF CronTypes, IDsNamed, IDs
<1>9. \A q \in Procs : (HasID(q))' <=> HasID(q) \/ q = u
  BY <1>4, <1>5 DEF HasID
<1>10. IDsNamed'
  <2>1. \A i \in 1 .. nextID' : nameOf'[i] \in Names
    BY <1>a, <1>1, <1>2, <1>6 DEF IDsNamed
  <2>2. \A n \in Names : nameID'[n] # 0 => nameOf'[nameID'[n]] = n
    BY <1>a, <1>1, <1>2, <1>6, <1>8 DEF IDsNamed
  <2>3. \A q \in Procs : (HasID(q))' => proc'[q].id <= nextID' /\ nameOf'[proc'[q].id] = proc'[q].name
    BY <1>a, <1>1, <1>2, <1>4, <1>5, <1>6, <1>8, <1>9 DEF IDsNamed
  <2> QED BY <1>a, <2>1, <2>2, <2>3 DEF IDsNamed
<1>11. StoringOwns'
  <2> SUFFICES ASSUME NEW q \in Procs, Storing(q)'
               PROVE  /\ q \in Users /\ proc'[q].id \in entries'
                      /\ nameID'[proc'[q].name] # proc'[q].id
                      /\ \A r \in Procs : (HasID(r))' /\ proc'[r].id = proc'[q].id => r = q
    BY <1>a DEF StoringOwns
  <2>1. CASE q = u
    BY <2>1, <1>1, <1>2, <1>4, <1>5, <1>8, <1>9
  <2>2. CASE q # u
    <3>1. Storing(q) /\ HasID(q)
      BY <2>2, <1>4 DEF Storing, HasID
    <3>2. proc[q].id \in 1 .. nextID /\ nextID' # proc[q].id
      BY <3>1, <1>8, <1>1, <1>2
    <3> QED BY <1>a, <2>2, <3>1, <3>2, <1>1, <1>4, <1>5, <1>9 DEF StoringOwns
  <2> QED BY <2>1, <2>2
<1>12. RemovedFirst'
  BY <1>a, <1>1, <1>2, <1>4, <1>5, <1>8 DEF RemovedFirst, HasID
<1>13. \A n : Deleting(n)' = Deleting(n)
  BY <1>4, <1>5 DEF Deleting
<1>14. NamesLive'
  BY <1>a, <1>1, <1>13 DEF NamesLive
<1>15. \A n : Adding(n)' = Adding(n)
  BY <1>4, <1>5 DEF Adding
<1>16. ASSUME ~overlap' PROVE OneByOne' /\ EntriesNamed'
  <2>1. OneByOne /\ EntriesNamed
    BY <1>b, <1>16 DEF CronInv
  <2>2. OneByOne'
    <3>1. \A n : \A q \in Deleting(n) : q \in Procs /\ q # u
      BY DEF Deleting
    <3> QED BY <2>1, <3>1, <1>1, <1>4, <1>13, <1>15 DEF OneByOne
  <2>3. EntriesNamed'
    <3> SUFFICES ASSUME NEW i \in entries'
                 PROVE  \/ nameID'[nameOf'[i]] = i
                        \/ \E q \in Users : Storing(q)' /\ proc'[q].id = i
      BY DEF EntriesNamed
    <3>1. CASE i = nextID'
      BY <3>1, <1>4, <1>5 DEF Storing
    <3>2. CASE i \in entries
      <4>1. i \in 1 .. nextID /\ nameOf'[i] = nameOf[i]
        BY <1>a, <3>2, <1>6 DEF CronTypes
      <4>2. \A q \in Users : Storing(q) => q # u /\ q \in Procs
        BY DEF Storing, Procs
      <4> QED BY <2>1, <3>2, <4>1, <4>2, <1>1, <1>4 DEF EntriesNamed, Storing
    <3> QED BY <3>1, <3>2, <1>1
  <2> QED BY <2>2, <2>3
<1> QED BY <1>b, <1>7, <1>10, <1>11, <1>12, <1>14, <1>16 DEF CronInv

(* A goroutine with an id goes to another place with the same id. *)
LEMMA Moves ==
  ASSUME CronTypes, NEW p \in Procs, HasID(p),
         NEW a \in {"idName", "nameID", "remove", "name", "id"},
         Become(p, [proc[p] EXCEPT !.at = a])
  PROVE  /\ proc' \in [Procs -> ProcStates]
         /\ proc'[p].at = a /\ proc'[p].name = proc[p].name /\ proc'[p].id = proc[p].id
         /\ \A q \in Procs : q # p => proc'[q] = proc[q]
         /\ proc[p].name \in Names /\ proc[p].id \in IDs
<1> DEFINE d == [at |-> a, name |-> proc[p].name, id |-> proc[p].id]
<1>1. proc[p] \in ProcStates
  BY DEF CronTypes
<1>2. proc[p].name \in Names /\ proc[p].id \in IDs /\ [proc[p] EXCEPT !.at = a] = d
  BY <1>1, Fields DEF HasID
<1>3. d \in ProcStates /\ d.at = a /\ d.name = proc[p].name /\ d.id = proc[p].id
  BY <1>2 DEF ProcStates
<1> HIDE DEF d
<1> QED BY <1>2, <1>3, Becomes

LEMMA CronStoresId ==
  ASSUME CronInv, NEW u \in Users, StoreIdName(u)
  PROVE  CronInv'
<1>a. CronTypes /\ IDsNamed /\ StoringOwns /\ RemovedFirst /\ NamesLive
  BY DEF CronInv
<1>1. /\ u \in Procs /\ HasID(u) /\ proc[u].at = "idName"
      /\ Become(u, [proc[u] EXCEPT !.at = "nameID"])
  BY DEF StoreIdName, Procs, HasID
<1>2. UNCHANGED <<entries, nameOf, nameID, nextID, overlap>>
  BY DEF StoreIdName
<1>3. /\ proc' \in [Procs -> ProcStates]
      /\ proc'[u].at = "nameID" /\ proc'[u].name = proc[u].name /\ proc'[u].id = proc[u].id
      /\ \A q \in Procs : q # u => proc'[q] = proc[q]
  BY <1>a, <1>1, Moves
<1>4. /\ \A q \in Procs : (HasID(q))' = HasID(q)
      /\ \A q \in Procs : (Storing(q))' = Storing(q)
      /\ \A q \in Procs : proc'[q].id = proc[q].id /\ proc'[q].name = proc[q].name
      /\ \A n : Adding(n)' = Adding(n) /\ Deleting(n)' = Deleting(n)
  BY <1>1, <1>3 DEF HasID, Storing, Adding, Deleting
<1>5. CronTypes' /\ RemovedFirst'
  BY <1>a, <1>2, <1>3 DEF CronTypes, RemovedFirst
<1>6. IDsNamed' /\ StoringOwns' /\ NamesLive'
  BY <1>a, <1>2, <1>4 DEF IDsNamed, StoringOwns, NamesLive
<1>7. (OneByOne /\ EntriesNamed => OneByOne' /\ EntriesNamed')
  <2>1. \A q \in Users : q \in Procs
    BY DEF Procs
  <2>2. \A n : Deleting(n) \subseteq Procs
    BY DEF Deleting
  <2> QED BY <1>2, <1>4, <2>1, <2>2 DEF OneByOne, EntriesNamed
<1> QED BY <1>2, <1>5, <1>6, <1>7 DEF CronInv

(* StoreNameID gives a name without an id the entry just added: nobody     *)
(* else has that id.                                                       *)
LEMMA CronStoresName ==
  ASSUME CronInv, NEW u \in Users, StoreNameID(u)
  PROVE  CronInv'
<1>0. PICK n0, i0 : n0 = proc[u].name /\ i0 = proc[u].id
  OBVIOUS
<1>a. CronTypes /\ IDsNamed /\ StoringOwns /\ RemovedFirst /\ NamesLive
  BY DEF CronInv
<1>1. /\ u \in Procs /\ HasID(u) /\ Storing(u) /\ proc[u].at = "nameID"
      /\ Become(u, Resting) /\ nameID' = [nameID EXCEPT ![n0] = i0]
  BY <1>0 DEF StoreNameID, Procs, HasID, Storing
<1>2. UNCHANGED <<entries, nameOf, nextID, overlap>>
  BY DEF StoreNameID
<1>3. n0 \in Names /\ i0 \in IDs /\ i0 \in 0 .. nextID /\ i0 # 0
  <2>1. n0 \in Names /\ i0 \in IDs
    BY <1>0, <1>a, <1>1, Fields DEF CronTypes, HasID
  <2> QED BY <1>0, <1>a, <1>1, <2>1, CronAssumption DEF CronTypes, IDsNamed, IDs
<1>4. Resting \in ProcStates /\ Resting.at = "idle"
  BY DEF Resting, ProcStates
<1>5. /\ proc' \in [Procs -> ProcStates] /\ proc'[u].at = "idle"
      /\ \A q \in Procs : q # u => proc'[q] = proc[q]
  BY <1>a, <1>1, <1>4, Becomes
<1>6. /\ nameID' \in [Names -> 0 .. nextID] /\ nameID'[n0] = i0
      /\ \A n \in Names : n # n0 => nameID'[n] = nameID[n]
  BY <1>a, <1>1, <1>3 DEF CronTypes
<1>7. i0 \in entries /\ nameOf[i0] = n0
  BY <1>0, <1>a, <1>1 DEF StoringOwns, IDsNamed
<1>8. CronTypes'
  BY <1>a, <1>2, <1>5, <1>6 DEF CronTypes
<1>9. \A q \in Procs : (HasID(q))' => HasID(q) /\ q # u /\ proc'[q] = proc[q]
  BY <1>5 DEF HasID
<1>10. \A q \in Procs : (Storing(q))' => Storing(q) /\ q # u /\ proc'[q] = proc[q]
  BY <1>5 DEF Storing
<1>11. IDsNamed'
  BY <1>a, <1>2, <1>3, <1>6, <1>7, <1>9 DEF IDsNamed
<1>12. StoringOwns'
  <2>1. \A q \in Procs : HasID(q) /\ q # u => proc[q].id # i0
    BY <1>0, <1>a, <1>1 DEF StoringOwns
  <2>2. \A q \in Procs : Storing(q) => HasID(q) /\ proc[q].name \in Names
    BY <1>a, Fields DEF Storing, HasID, CronTypes
  <2> QED BY <1>a, <1>2, <1>6, <1>9, <1>10, <2>1, <2>2 DEF StoringOwns
<1>13. RemovedFirst'
  BY <1>a, <1>2, <1>5 DEF RemovedFirst
<1>14. \A n : Deleting(n)' = Deleting(n)
  BY <1>1, <1>5 DEF Deleting
<1>15. NamesLive'
  BY <1>a, <1>2, <1>6, <1>7, <1>14 DEF NamesLive
<1>16. ASSUME OneByOne, EntriesNamed PROVE OneByOne' /\ EntriesNamed'
  <2>1. \A n : \A q \in Adding(n)' : q \in Adding(n) /\ q # u
    BY <1>5 DEF Adding
  <2>2. u \in Adding(n0)
    BY <1>0, <1>1 DEF Adding
  <2>3. nameID[n0] = 0 /\ Adding(n0)' = {} /\ Deleting(n0) = {}
    <3>1. nameID[n0] = 0 /\ Adding(n0)' = {}
      BY <1>3, <1>16, <2>1, <2>2 DEF OneByOne
    <3>2. \A q \in Deleting(n0) : proc[q].id \in IDs
      BY <1>a, Fields DEF Deleting, CronTypes
    <3> QED BY <1>3, <1>16, <3>1, <3>2, CronAssumption DEF OneByOne, IDs
  <2>4. OneByOne'
    <3>1. \A n : \A q \in Deleting(n) : q \in Procs /\ q # u
      BY <1>1 DEF Deleting
    <3> QED BY <1>5, <1>6, <1>14, <1>16, <2>1, <2>3, <3>1 DEF OneByOne
  <2>5. EntriesNamed'
    <3> SUFFICES ASSUME NEW i \in entries
                 PROVE  \/ nameID'[nameOf[i]] = i
                        \/ \E q \in Users : (Storing(q))' /\ proc'[q].id = i
      BY <1>2 DEF EntriesNamed
    <3>1. nameOf[i] \in Names /\ i # 0
      <4>1. i \in 1 .. nextID /\ i # 0
        BY <1>a DEF CronTypes
      <4> QED BY <1>a, <4>1 DEF IDsNamed
    <3>2. CASE nameID[nameOf[i]] = i
      BY <3>1, <3>2, <1>6, <2>3
    <3>3. ASSUME NEW q \in Users, Storing(q), proc[q].id = i
          PROVE  \/ nameID'[nameOf[i]] = i
                 \/ \E r \in Users : (Storing(r))' /\ proc'[r].id = i
      <4>1. CASE q = u
        BY <1>0, <3>3, <4>1, <1>6, <1>7
      <4>2. CASE q # u
        <5>1. q \in Procs /\ proc'[q] = proc[q]
          BY <4>2, <1>5 DEF Procs
        <5> QED BY <3>3, <5>1 DEF Storing
      <4> QED BY <4>1, <4>2
    <3> QED BY <1>16, <3>2, <3>3 DEF EntriesNamed
  <2> QED BY <2>4, <2>5
<1> QED BY <1>2, <1>8, <1>11, <1>12, <1>13, <1>15, <1>16 DEF CronInv

(* DeleteTask loads an id: the one its name has now. *)
LEMMA CronLoads ==
  ASSUME CronInv, NEW p \in Procs, DeleteLoad(p), nameID[proc[p].name] # 0
  PROVE  CronInv'
<1>0. PICK n0, i0 : n0 = proc[p].name /\ i0 = nameID[n0]
  OBVIOUS
<1>a. CronTypes /\ IDsNamed /\ StoringOwns /\ RemovedFirst /\ NamesLive
  BY DEF CronInv
<1>b. /\ proc[p].at = "load" /\ i0 # 0 /\ Become(p, [at |-> "remove", name |-> n0, id |-> i0])
      /\ overlap' = (overlap \/ Deleting(n0) # {})
  BY <1>0 DEF DeleteLoad
<1>1. /\ proc[p].at = "load" /\ i0 # 0 /\ Become(p, [at |-> "remove", name |-> n0, id |-> i0])
  BY <1>b
<1>2. UNCHANGED <<entries, nameOf, nameID, nextID>>
  BY DEF DeleteLoad
<1>3. n0 \in Names /\ i0 \in 1 .. nextID /\ i0 \in IDs /\ nameOf[i0] = n0
  <2>1. n0 \in Names
    BY <1>0, <1>a, <1>1, Fields DEF CronTypes
  <2>2. i0 \in 1 .. nextID /\ i0 \in IDs
    BY <1>0, <1>a, <1>1, <2>1, CronAssumption DEF CronTypes, IDs
  <2> QED BY <1>0, <1>a, <1>1, <2>1, <2>2 DEF IDsNamed
<1>4. [at |-> "remove", name |-> n0, id |-> i0] \in ProcStates
  BY <1>3 DEF ProcStates
<1>5. /\ proc' \in [Procs -> ProcStates]
      /\ proc'[p] = [at |-> "remove", name |-> n0, id |-> i0]
      /\ \A q \in Procs : q # p => proc'[q] = proc[q]
  BY <1>a, <1>1, <1>4, Becomes
<1>6. proc'[p].at = "remove" /\ proc'[p].name = n0 /\ proc'[p].id = i0
  BY <1>5
<1>7. CronTypes'
  BY <1>a, <1>2, <1>5 DEF CronTypes
<1>8. IDsNamed'
  BY <1>a, <1>2, <1>3, <1>5, <1>6 DEF IDsNamed, HasID
<1>9. StoringOwns'
  <2> SUFFICES ASSUME NEW q \in Procs, (Storing(q))'
               PROVE  /\ q \in Users /\ proc'[q].id \in entries
                      /\ nameID[proc'[q].name] # proc'[q].id
                      /\ \A r \in Procs : (HasID(r))' /\ proc'[r].id = proc'[q].id => r = q
    BY <1>2 DEF StoringOwns
  <2>1. q # p /\ proc'[q] = proc[q] /\ Storing(q)
    BY <1>5, <1>6 DEF Storing
  <2>2. proc[q].id # i0
    BY <1>0, <1>a, <1>3, <2>1 DEF StoringOwns, IDsNamed, HasID, Storing
  <2>3. \A r \in Procs : (HasID(r))' /\ r # p => HasID(r) /\ proc'[r] = proc[r]
    BY <1>5 DEF HasID
  <2> QED BY <1>a, <1>6, <2>1, <2>2, <2>3 DEF StoringOwns
<1>10. RemovedFirst'
  BY <1>a, <1>2, <1>5, <1>6 DEF RemovedFirst
<1>11. \A n : Deleting(n) \subseteq Deleting(n)'
  BY <1>1, <1>5 DEF Deleting
<1>12. NamesLive'
  BY <1>a, <1>2, <1>11 DEF NamesLive
<1>13. ASSUME OneByOne, EntriesNamed, Deleting(n0) = {} PROVE OneByOne' /\ EntriesNamed'
  <2>1. \A n : Adding(n)' = Adding(n)
    BY <1>1, <1>5, <1>6 DEF Adding
  <2>2. \A n : \A q \in Deleting(n)' :
          \/ q \in Deleting(n) /\ q \in Procs /\ proc'[q] = proc[q]
          \/ q = p /\ n = n0
    BY <1>1, <1>5, <1>6 DEF Deleting
  <2>3. OneByOne'
    BY <1>0, <1>2, <1>6, <1>13, <2>1, <2>2 DEF OneByOne
  <2>4. EntriesNamed'
    <3>1. \A q \in Users : q \in Procs
      BY DEF Procs
    <3>2. \A q \in Procs : Storing(q) => q # p
      BY <1>1 DEF Storing
    <3> QED BY <1>2, <1>5, <1>13, <3>1, <3>2 DEF EntriesNamed, Storing
  <2> QED BY <2>3, <2>4
<1>14. ~overlap' => OneByOne' /\ EntriesNamed'
  BY <1>b, <1>13 DEF CronInv
<1>15. overlap' \in BOOLEAN
  BY <1>b
<1> QED BY <1>7, <1>8, <1>9, <1>10, <1>12, <1>14, <1>15 DEF CronInv

(* The scheduler forgets the entry; nobody is storing its name. *)
LEMMA CronRemoves ==
  ASSUME CronInv, NEW p \in Procs, DeleteRemove(p)
  PROVE  CronInv'
<1>0. PICK n0, i0 : n0 = proc[p].name /\ i0 = proc[p].id
  OBVIOUS
<1>a. CronTypes /\ IDsNamed /\ StoringOwns /\ RemovedFirst /\ NamesLive
  BY DEF CronInv
<1>1. /\ HasID(p) /\ proc[p].at = "remove" /\ entries' = entries \ {i0}
      /\ Become(p, [proc[p] EXCEPT !.at = "name"])
  BY <1>0 DEF DeleteRemove, HasID
<1>2. UNCHANGED <<nameOf, nameID, nextID, overlap>>
  BY DEF DeleteRemove
<1>3. /\ proc' \in [Procs -> ProcStates]
      /\ proc'[p].at = "name" /\ proc'[p].name = n0 /\ proc'[p].id = i0
      /\ \A q \in Procs : q # p => proc'[q] = proc[q]
      /\ n0 \in Names /\ i0 \in IDs
  BY <1>0, <1>a, <1>1, Moves
<1>4. /\ \A q \in Procs : (HasID(q))' = HasID(q)
      /\ \A q \in Procs : (Storing(q))' = Storing(q)
      /\ \A q \in Procs : proc'[q].id = proc[q].id /\ proc'[q].name = proc[q].name
      /\ \A n : Adding(n)' = Adding(n) /\ Deleting(n)' = Deleting(n)
  BY <1>0, <1>1, <1>3 DEF HasID, Storing, Adding, Deleting
<1>5. CronTypes' /\ RemovedFirst'
  BY <1>a, <1>1, <1>2, <1>3 DEF CronTypes, RemovedFirst
<1>6. IDsNamed'
  BY <1>a, <1>2, <1>4 DEF IDsNamed
<1>7. StoringOwns'
  <2>1. \A q \in Procs : Storing(q) => proc[q].id # i0
    BY <1>0, <1>a, <1>1 DEF StoringOwns, Storing
  <2> QED BY <1>a, <1>1, <1>2, <1>4, <2>1 DEF StoringOwns
<1>8. NamesLive'
  <2>1. p \in Deleting(n0)
    BY <1>0, <1>1 DEF Deleting
  <2>2. \A n \in Names : nameID[n] = i0 => n = n0 \/ nameID[n] = 0
    BY <1>0, <1>a, <1>1 DEF IDsNamed
  <2> QED BY <1>a, <1>1, <1>2, <1>4, <2>1, <2>2 DEF NamesLive
<1>9. OneByOne /\ EntriesNamed => OneByOne' /\ EntriesNamed'
  <2>1. \A q \in Users : q \in Procs
    BY DEF Procs
  <2>2. \A n : Deleting(n) \subseteq Procs
    BY DEF Deleting
  <2> QED BY <1>1, <1>2, <1>4, <2>1, <2>2 DEF OneByOne, EntriesNamed
<1> QED BY <1>2, <1>5, <1>6, <1>7, <1>8, <1>9 DEF CronInv

(* The name goes; without overlap it had the id of the entry removed.      *)
LEMMA CronForgets ==
  ASSUME CronInv, NEW p \in Procs, DeleteName(p)
  PROVE  CronInv'
<1>0. PICK n0, i0 : n0 = proc[p].name /\ i0 = proc[p].id
  OBVIOUS
<1>a. CronTypes /\ IDsNamed /\ StoringOwns /\ RemovedFirst /\ NamesLive
  BY DEF CronInv
<1>1. /\ HasID(p) /\ proc[p].at = "name" /\ nameID' = [nameID EXCEPT ![n0] = 0]
      /\ Become(p, [proc[p] EXCEPT !.at = "id"])
  BY <1>0 DEF DeleteName, HasID
<1>2. UNCHANGED <<nameOf, entries, nextID, overlap>>
  BY DEF DeleteName
<1>3. /\ proc' \in [Procs -> ProcStates]
      /\ proc'[p].at = "id" /\ proc'[p].name = n0 /\ proc'[p].id = i0
      /\ \A q \in Procs : q # p => proc'[q] = proc[q]
      /\ n0 \in Names /\ i0 \in IDs
  BY <1>0, <1>a, <1>1, Moves
<1>4. nextID \in Nat /\ 0 \in 0 .. nextID
  BY <1>a, CronAssumption DEF CronTypes
<1>5. /\ nameID' \in [Names -> 0 .. nextID] /\ nameID'[n0] = 0
      /\ \A n \in Names : n # n0 => nameID'[n] = nameID[n]
  BY <1>a, <1>1, <1>3, <1>4 DEF CronTypes
<1>6. /\ \A q \in Procs : (HasID(q))' = HasID(q)
      /\ \A q \in Procs : (Storing(q))' = Storing(q)
      /\ \A q \in Procs : proc'[q].id = proc[q].id /\ proc'[q].name = proc[q].name
      /\ \A n : Adding(n)' = Adding(n)
      /\ \A n : n # n0 => Deleting(n)' = Deleting(n)
      /\ \A n : Deleting(n)' = Deleting(n) \ {p}
  BY <1>0, <1>1, <1>3 DEF HasID, Storing, Adding, Deleting
<1>7. CronTypes' /\ RemovedFirst'
  BY <1>a, <1>2, <1>3, <1>5 DEF CronTypes, RemovedFirst
<1>8. IDsNamed'
  BY <1>a, <1>2, <1>5, <1>6 DEF IDsNamed
<1>9. StoringOwns'
  <2>1. \A q \in Procs : Storing(q) => proc[q].name \in Names /\ proc[q].id # 0
    <3>1. \A q \in Procs : Storing(q) => proc[q].name \in Names /\ proc[q].id \in IDs
      BY <1>a, Fields DEF Storing, CronTypes
    <3> QED BY <3>1, CronAssumption DEF IDs
  <2> QED BY <1>a, <1>2, <1>5, <1>6, <2>1 DEF StoringOwns
<1>10. NamesLive'
  BY <1>a, <1>2, <1>5, <1>6 DEF NamesLive
<1>11. ASSUME OneByOne, EntriesNamed PROVE OneByOne' /\ EntriesNamed'
  <2>1. p \in Deleting(n0)
    BY <1>0, <1>1 DEF Deleting
  <2>2. nameID[n0] = i0 /\ i0 \notin entries /\ Deleting(n0)' = {}
    BY <1>0, <1>a, <1>1, <1>3, <1>6, <1>11, <2>1 DEF OneByOne, RemovedFirst
  <2>3. \A n : Deleting(n) \subseteq Procs
    BY DEF Deleting
  <2>4. OneByOne'
    BY <1>5, <1>6, <1>11, <2>2, <2>3 DEF OneByOne
  <2>5. EntriesNamed'
    <3>1. \A i \in entries : nameOf[i] \in Names
      BY <1>a DEF CronTypes, IDsNamed
    <3>2. \A q \in Users : q \in Procs
      BY DEF Procs
    <3> QED BY <1>2, <1>5, <1>6, <1>11, <2>2, <3>1, <3>2 DEF EntriesNamed
  <2> QED BY <2>4, <2>5
<1> QED BY <1>2, <1>7, <1>8, <1>9, <1>10, <1>11 DEF CronInv

LEMMA CronStep == ASSUME CronInv, [CronNext]_cronVars PROVE CronInv'
<1>a. CronTypes /\ overlap \in BOOLEAN /\ Resting \in ProcStates /\ Resting.at = "idle"
  BY DEF CronInv, Resting, ProcStates
<1>b. \A p \in Users \cup Jobs : p \in Procs /\ proc[p] \in ProcStates
  BY <1>a DEF Procs, CronTypes
<1>1. CASE UNCHANGED <<entries, nameOf, nameID, proc, nextID, overlap>>
  <2>1. /\ CronTypes' = CronTypes /\ RemovedFirst' = RemovedFirst
        /\ IDsNamed' = IDsNamed /\ StoringOwns' = StoringOwns
    BY <1>1 DEF CronTypes, IDsNamed, StoringOwns, RemovedFirst, HasID, Storing
  <2>2. NamesLive' = NamesLive /\ EntriesNamed' = EntriesNamed /\ OneByOne' = OneByOne
    BY <1>1 DEF NamesLive, EntriesNamed, OneByOne, Storing, Adding, Deleting
  <2> QED BY <1>1, <2>1, <2>2 DEF CronInv
<1>2. ASSUME NEW u \in Users, NEW n \in Names, CallRun(u, n) PROVE CronInv'
  <2> DEFINE d == [at |-> "add", name |-> n]
  <2>1. d \in ProcStates /\ d.at = "add" /\ d.name = n
    BY DEF ProcStates
  <2>2. /\ Become(u, d) /\ proc[u].at = "idle" /\ nameID[d.name] = 0
        /\ UNCHANGED <<entries, nameOf, nameID, nextID>>
    BY <1>2, <1>a DEF CallRun
  <2> HIDE DEF d
  <2>3. overlap' \in BOOLEAN /\ (overlap => overlap') /\ (~overlap' => Adding(d.name) = {})
    BY <1>2, <2>1 DEF CallRun
  <2> QED BY <1>b, <2>1, <2>2, <2>3, CronPlain
<1>3. ASSUME NEW p \in Users \cup Jobs, Become(p, Resting),
             proc[p].at \in {"idle", "add", "job", "load", "id"},
             UNCHANGED <<entries, nameOf, nameID, nextID, overlap>>
      PROVE  CronInv'
  BY <1>3, <1>a, <1>b, CronPlain
<1>4. ASSUME NEW p \in Users \cup Jobs, NEW n \in Names, NEW l \in {"job", "load"},
             Become(p, [at |-> l, name |-> n]), proc[p].at \in {"idle", "job"},
             UNCHANGED <<entries, nameOf, nameID, nextID, overlap>>
      PROVE  CronInv'
  <2> DEFINE d == [at |-> l, name |-> n]
  <2>1. d \in ProcStates /\ d.at = l
    BY DEF ProcStates
  <2> HIDE DEF d
  <2> QED BY <1>4, <1>a, <1>b, <2>1, CronPlain DEF d
<1>5. ASSUME NEW u \in Users, AddFunc(u) PROVE CronInv'
  <2>1. CASE nextID' # nextID
    BY <1>5, <2>1, CronAdds DEF AddFunc
  <2>2. CASE nextID' = nextID
    <3>1. nextID' # nextID + 1
      BY <1>a, <2>2, CronAssumption DEF CronTypes
    <3> QED BY <1>3, <1>5, <3>1 DEF AddFunc
  <2> QED BY <2>1, <2>2
<1>6. ASSUME NEW j \in Jobs, Fire(j[1], j[2]) PROVE CronInv'
  <2>1. j = <<j[1], j[2]>> /\ j[1] \in entries /\ proc[j].at = "idle"
    BY <1>6, <1>a DEF Fire, Jobs
  <2>2. nameOf[j[1]] \in Names
    BY <2>1 DEF CronInv, CronTypes, IDsNamed
  <2> QED BY <1>4, <1>6, <2>1, <2>2 DEF Fire
<1>7. ASSUME NEW j \in Jobs, JobEnds(j) \/ JobPanics(j) PROVE CronInv'
  <2>1. CASE JobEnds(j)
    <3>1. /\ proc[j].at = "job" /\ UNCHANGED <<entries, nameOf, nameID, nextID, overlap>>
          /\ Become(j, Resting) \/ Become(j, [proc[j] EXCEPT !.at = "load"])
      BY <2>1 DEF JobEnds
    <3>2. /\ proc[j].name \in Names
          /\ [proc[j] EXCEPT !.at = "load"] = [at |-> "load", name |-> proc[j].name]
      BY <1>b, <3>1, Fields
    <3> QED BY <1>3, <1>4, <3>1, <3>2
  <2>2. CASE JobPanics(j)
    BY <1>3, <2>2 DEF JobPanics
  <2> QED BY <1>7, <2>1, <2>2
<1>8. ASSUME NEW u \in Users, NEW n \in Names, CallDelete(u, n) PROVE CronInv'
  BY <1>4, <1>8, <1>a DEF CallDelete
<1>9. ASSUME NEW p \in Users \cup Jobs, CronWork(p) PROVE CronInv'
  <2>1. CASE DeleteLoad(p)
    <3>1. CASE nameID[proc[p].name] = 0
      BY <1>3, <2>1, <3>1 DEF DeleteLoad
    <3> QED BY <1>b, <2>1, <3>1, CronLoads
  <2>2. CASE DeleteId(p)
    BY <1>3, <2>2 DEF DeleteId
  <2> QED BY <1>9, <1>b, <2>1, <2>2, CronRemoves, CronForgets DEF CronWork
<1>10. ASSUME NEW u \in Users, UserStep(u) PROVE CronInv'
  BY <1>5, <1>9, <1>10, CronStoresId, CronStoresName DEF UserStep
<1>11. ASSUME NEW j \in Jobs, JobStep(j) PROVE CronInv'
  BY <1>7, <1>9, <1>11 DEF JobStep
<1> QED
  BY <1>1, <1>2, <1>6, <1>8, <1>10, <1>11 DEF CronNext, CronStop, cronVars

(* For any number of callers, names, entries and firings: a name that      *)
(* nobody is deleting stands for an entry, and an entry whose Run has      *)
(* returned is found by its name, unless calls of Run or of DeleteTask     *)
(* overlapped on that name (Run, DeleteTask, checkRunOnce).                *)
THEOREM CronNamesMatch == CronSpec => []NamesMatchEntries
<1>1. CronInv => NamesMatchEntries
  BY DEF CronInv, NamesLive, EntriesNamed, Storing, NamesMatchEntries
<1> QED BY <1>1, CronInitial, CronStep, PTL DEF CronSpec
=============================================================================
