-------------------------- MODULE EventOutboxProofs --------------------------
(***************************************************************************)
(* For any events, batches, vendors, pods and faults: what is marked       *)
(* published has reached each of its subscribers, a vendor is welcomed     *)
(* once, and beliefs count the evidence once, whoever records it.          *)
(*                                                                         *)
(* A subscriber serves an event by its task or by what it leaves behind;   *)
(* no task ends before it has left that, unless it is lost.  A vendor has  *)
(* one task about to welcome it at most, a single copy, and nobody has     *)
(* welcomed it yet.  A vendor whose recordings of evidence, promotions and *)
(* statements, neither overlapped nor were cut short has at most one past  *)
(* its append, which has seen all there is.                                *)
(*                                                                         *)
(* The last part is about WalletLedger, where the welcome credits and all  *)
(* others end up, for every set of wallets, references and sessions: the   *)
(* row lock makes the balance a debit checks the balance it decrements, so *)
(* no wallet goes below zero, each reference posts at most once, and the   *)
(* repository implements CreditLedger.                                     *)
(***************************************************************************)
EXTENDS EventOutbox, WalletLedger, NaturalsInduction, WellFoundedInduction, TLAPS

PubState == [at : {"idle", "dispatch"}, left : SUBSET Event, sent : SUBSET Event]
RelayState == [at : {"idle", "emit", "mark"}, todo : SUBSET Event,
               cur : Event \cup {None}, read : Counts]

\* A sweep has a next row while it emits, and marks an event.
PodInv ==
    /\ pub \in [Pod -> PubState]
    /\ relay \in [Pod -> RelayState]
    /\ \A p \in Pod : /\ relay[p].at = "emit" => relay[p].todo # {}
                      /\ relay[p].at = "mark" => relay[p].cur \in Event

\* A task is where its run can be, and one past its append has left a row.
TaskInv ==
    /\ IsABag(tasks)
    /\ \A t \in BagToSet(tasks) :
          /\ t.at = "welcome" => t.who = "grant"
          /\ t.at = "replace" => t.who = "learn" /\ evidence[t.event] > 0

\* Subscriber s of event e is queued or running, has done its work or was lost.
Reached(e, s) == Settled(e, s) \/ \E t \in BagToSet(tasks) : t.event = e /\ t.who = s
Served(e) == \A s \in Subscribers(e) : Reached(e, s)

\* What is published, dispatched by a publisher or emitted by a sweep is served.
ServedInv ==
    /\ \A e \in Event : row[e] = "published" => Served(e)
    /\ \A p \in Pod : \A e \in pub[p].sent : Served(e)
    /\ \A p \in Pod : \A e \in Event : relay[p].at = "mark" /\ relay[p].cur = e => Served(e)

\* One task at most is about to welcome a vendor, which is granted and was
\* not welcomed before.
WelcomeInv ==
    /\ \A v \in Vendor : welcomed[v] <= (IF v \in granted THEN 1 ELSE 0)
    /\ \A t \in BagToSet(tasks) : t.at = "welcome" =>
          /\ tasks[t] = 1
          /\ VendorOf[t.event] \in granted /\ welcomed[VendorOf[t.event]] = 0
          /\ \A u \in BagToSet(tasks) :
                u.at = "welcome" /\ VendorOf[u.event] = VendorOf[t.event] => u = t

\* A recording of vendor v's evidence was cut short.
CutShort(v) == \E l \in lost : l[2] = "learn" /\ VendorOf[l[1]] = v

\* The one recording for vendor v past its append has seen all its rows, and
\* without one the beliefs count them.
UpToDate(v) ==
    /\ \A t \in Learning(v) :
          /\ tasks[t] = 1
          /\ \A u \in Learning(v) : u = t
          /\ \A e \in Event : VendorOf[e] = v => t.seen[e] = evidence[e]
    /\ Learning(v) = {} => \A e \in Event : VendorOf[e] = v => belief[e] = evidence[e]

BeliefInv == \A v \in Vendor : v \in crossed \/ CutShort(v) \/ UpToDate(v)

IInv == TypeOK /\ PodInv /\ TaskInv /\ ServedInv /\ WelcomeInv /\ BeliefInv

\* The order of the naturals as a relation is well founded.
Less == {q \in Nat \X Nat : q[1] < q[2]}

LEMMA LessIsWellFounded == IsWellFoundedOn(Less, Nat)
  <1>1. OpToRel(<, Nat) = Less
    BY Zenon DEF OpToRel, Less
  <1>2. QED
    BY <1>1, NatLessThanWellFounded

\* A nonempty set of events has an oldest one.
LEMMA FirstIsIn ==
  ASSUME NEW E \in SUBSET Event, E # {}
  PROVE  First(E) \in E
  <1>1. E \subseteq Nat
    BY OutboxAssumption
  <1>2. PICK x \in E : \A y \in E : <<y, x>> \notin Less
    BY <1>1, LessIsWellFounded, WFMin
  <1>3. ASSUME NEW y \in E PROVE x <= y
    <2>1. x \in Nat /\ y \in Nat /\ <<y, x>> \notin Less
      BY <1>1, <1>2
    <2>2. ~(y < x)
      <3>1. SUFFICES ASSUME y < x PROVE <<y, x>> \in Less
        BY <2>1
      <3>2. <<y, x>> \in Nat \X Nat /\ <<y, x>>[1] = y /\ <<y, x>>[2] = x
        BY <2>1
      <3>3. QED
        BY <3>1, <3>2 DEF Less
    <2>3. QED
      BY <2>1, <2>2
  <1>4. QED
    BY <1>3 DEF First

\* Adding a set to a bag.
LEMMA BagAdd ==
  ASSUME NEW B, IsABag(B), NEW S, NEW C, C = B (+) SetToBag(S)
  PROVE  /\ IsABag(C) /\ BagToSet(C) = BagToSet(B) \cup S
         /\ \A x \in BagToSet(B) \ S : C[x] = B[x]
         /\ \A x \in S \ BagToSet(B) : C[x] = 1
  <1>1. DOMAIN SetToBag(S) = S /\ \A x \in S : SetToBag(S)[x] = 1
    BY DEF SetToBag
  <1>2. /\ DOMAIN C = DOMAIN B \cup S
        /\ C = [x \in DOMAIN B \cup S |-> (IF x \in DOMAIN B THEN B[x] ELSE 0)
                                       + (IF x \in S THEN SetToBag(S)[x] ELSE 0)]
    BY <1>1 DEF (+)
  <1>3. \A x \in DOMAIN B : B[x] \in Nat /\ B[x] > 0
    BY DEF IsABag
  <1>4. \A x \in DOMAIN B \ S : C[x] = B[x]
    BY <1>2, <1>3
  <1>5. \A x \in S : C[x] = (IF x \in DOMAIN B THEN B[x] ELSE 0) + 1
    BY <1>1, <1>2
  <1>6. \A x \in DOMAIN C : C[x] \in Nat /\ C[x] > 0
    BY <1>2, <1>3, <1>4, <1>5
  <1>7. IsABag(C)
    BY <1>2, <1>6 DEF IsABag
  <1>8. QED
    BY <1>2, <1>4, <1>5, <1>7 DEF BagToSet

\* Taking one copy of an element from a bag.
LEMMA BagTake ==
  ASSUME NEW B, IsABag(B), NEW t \in BagToSet(B), NEW C, C = B (-) SetToBag({t})
  PROVE  /\ IsABag(C) /\ BagToSet(C) \subseteq BagToSet(B)
         /\ \A x \in BagToSet(B) \ {t} : x \in BagToSet(C) /\ C[x] = B[x]
         /\ B[t] = 1 => t \notin BagToSet(C)
  <1> DEFINE D == [x \in DOMAIN B |-> IF x = t THEN B[x] - 1 ELSE B[x]]
  <1>1. DOMAIN SetToBag({t}) = {t} /\ SetToBag({t})[t] = 1
    BY DEF SetToBag
  <1>2. C = [x \in {d \in DOMAIN D : D[d] > 0} |-> D[x]]
    BY <1>1 DEF (-)
  <1>3. \A x \in DOMAIN B : B[x] \in Nat /\ B[x] > 0
    BY DEF IsABag
  <1>4. DOMAIN D = DOMAIN B /\ \A x \in DOMAIN B : D[x] = IF x = t THEN B[x] - 1 ELSE B[x]
    OBVIOUS
  <1> HIDE DEF D
  <1>5. DOMAIN C = {d \in DOMAIN B : D[d] > 0} /\ \A x \in DOMAIN C : C[x] = D[x]
    BY <1>2, <1>4
  <1>6. \A x \in DOMAIN C : C[x] \in Nat /\ C[x] > 0
    BY <1>3, <1>4, <1>5
  <1>7. IsABag(C)
    BY <1>2, <1>5, <1>6 DEF IsABag
  <1>8. \A x \in DOMAIN B \ {t} : x \in DOMAIN C /\ C[x] = B[x]
    BY <1>3, <1>4, <1>5
  <1>9. B[t] = 1 => t \notin DOMAIN C
    BY <1>4, <1>5 DEF BagToSet
  <1>10. QED
    BY <1>5, <1>7, <1>8, <1>9 DEF BagToSet

\* Publishers and sweeps keep their types, a sweep has a row to emit, and what
\* it marks is an event.
LEMMA PodStep == ASSUME TypeOK, PodInv, [Next]_vars PROVE PodInv'
  <1>u. ASSUME UNCHANGED <<pub, relay>> PROVE PodInv'
    BY <1>u DEF PodInv
  <1>p. ASSUME NEW p \in Pod, NEW r \in PubState, pub' = [pub EXCEPT ![p] = r], UNCHANGED relay
        PROVE  PodInv'
    BY <1>p DEF PodInv
  <1>r. ASSUME NEW p \in Pod, NEW r \in RelayState, relay' = [relay EXCEPT ![p] = r],
               r.at = "emit" => r.todo # {}, r.at = "mark" => r.cur \in Event, UNCHANGED pub
        PROVE  PodInv'
    BY <1>r DEF PodInv
  <1>i. IdlePub \in PubState /\ IdleRelay \in RelayState /\ IdleRelay.at = "idle"
    BY DEF IdlePub, IdleRelay, PubState, RelayState, NoCounts, Counts
  <1>1. ASSUME NEW p \in Producer, NEW B \in Batch, Record(p, B) PROVE PodInv'
    <2>1. p \in Pod /\ B \subseteq Event
      BY OutboxAssumption
    <2>2. [at |-> "dispatch", left |-> B, sent |-> {}] \in PubState
      BY <2>1 DEF PubState
    <2>3. QED
      BY <1>1, <1>p, <2>1, <2>2 DEF Record
  <1>2. ASSUME NEW p \in Pod, Dispatch(p) PROVE PodInv'
    <2> DEFINE e == First(pub[p].left)
               r == [pub[p] EXCEPT !.left = @ \ {e}, !.sent = @ \cup {e}]
    <2>1. pub[p] \in PubState /\ pub[p].left \in SUBSET Event /\ pub[p].left # {}
      BY <1>2 DEF PodInv, PubState, Dispatch
    <2>2. e \in Event
      BY <2>1, FirstIsIn
    <2>3. pub' = [pub EXCEPT ![p].left = @ \ {e}, ![p].sent = @ \cup {e}] /\ UNCHANGED relay
      BY <1>2 DEF Dispatch
    <2> HIDE DEF e
    <2>4. r \in PubState
      BY <2>1, <2>2 DEF PubState
    <2>5. pub' = [pub EXCEPT ![p] = r]
      BY <2>1, <2>3 DEF PubState, PodInv
    <2> HIDE DEF r
    <2>6. QED
      BY <1>p, <2>3, <2>4, <2>5
  <1>3. ASSUME NEW p \in Pod, MarkDelivered(p) \/ MarkDeliveredFails(p) PROVE PodInv'
    BY <1>3, <1>i, <1>p DEF MarkDelivered, MarkDeliveredFails
  <1>4. ASSUME NEW p \in Pod, Sweep(p) PROVE PodInv'
    <2> DEFINE r == [at |-> "emit", todo |-> Pending, cur |-> None,
                     read |-> [e \in Event |-> IF e \in Pending THEN attempts[e] ELSE 0]]
    <2>1. Pending \subseteq Event /\ Pending # {}
      BY <1>4 DEF Pending, Sweep
    <2>2. [e \in Event |-> IF e \in Pending THEN attempts[e] ELSE 0] \in Counts
      BY DEF TypeOK, Counts
    <2>3. r \in RelayState /\ r.at = "emit" /\ r.todo # {}
      BY <2>1, <2>2 DEF RelayState
    <2>4. relay' = [relay EXCEPT ![p] = r] /\ UNCHANGED pub
      BY <1>4 DEF Sweep
    <2> HIDE DEF r
    <2>5. QED
      BY <1>r, <2>3, <2>4
  <1>5. ASSUME NEW p \in Pod, RelayEmit(p) PROVE PodInv'
    <2> DEFINE e == First(relay[p].todo)
               r == [relay[p] EXCEPT !.at = "mark", !.cur = e, !.todo = @ \ {e}]
    <2>1. relay[p] \in RelayState /\ relay[p].todo \in SUBSET Event /\ relay[p].todo # {}
      BY <1>5 DEF PodInv, RelayState, RelayEmit
    <2>2. e \in Event
      BY <2>1, FirstIsIn
    <2>3. /\ relay' = [relay EXCEPT ![p].at = "mark", ![p].cur = e, ![p].todo = @ \ {e}]
          /\ UNCHANGED pub
      BY <1>5 DEF RelayEmit
    <2> HIDE DEF e
    <2>4. r \in RelayState /\ r.at = "mark" /\ r.cur \in Event
      BY <2>1, <2>2 DEF RelayState
    <2>5. relay' = [relay EXCEPT ![p] = r]
      BY <2>1, <2>3 DEF RelayState, PodInv
    <2> HIDE DEF r
    <2>6. QED
      BY <1>r, <2>3, <2>4, <2>5
  <1>6. ASSUME NEW p \in Pod, Advance(p), UNCHANGED pub PROVE PodInv'
    <2>1. relay[p] \in RelayState
      BY DEF PodInv
    <2>2. CASE relay[p].todo = {}
      <3>1. relay' = [relay EXCEPT ![p] = IdleRelay]
        BY <1>6, <2>2 DEF Advance, PodInv
      <3>2. QED
        BY <1>6, <1>i, <1>r, <3>1
    <2>3. CASE relay[p].todo # {}
      <3> DEFINE r == [relay[p] EXCEPT !.at = "emit", !.cur = None]
      <3>1. relay' = [relay EXCEPT ![p] = r]
        BY <1>6, <2>3 DEF Advance, PodInv
      <3>2. r \in RelayState /\ r.at = "emit" /\ r.todo # {}
        BY <2>1, <2>3 DEF RelayState
      <3> HIDE DEF r
      <3>3. QED
        BY <1>6, <1>r, <3>1, <3>2
    <2>4. QED
      BY <2>2, <2>3
  <1>7. ASSUME NEW p \in Pod, RelayMark(p) \/ RelayMarkFails(p) PROVE PodInv'
    BY <1>7, <1>i, <1>r, <1>6 DEF RelayMark, RelayMarkFails
  <1>8. ASSUME NEW p \in Pod, Crash(p) PROVE PodInv'
    BY <1>8, <1>i DEF Crash, PodInv
  <1>9. ASSUME NEW t, NEW p, Run(t) \/ SubscriberFails(t) \/ Observe(p, t) PROVE PodInv'
    BY <1>9, <1>u DEF Observe, Run, Capture, Grant, Welcome, AppendEvidence, ReplaceBeliefs, SubscriberFails
  <1>10. CASE UNCHANGED vars
    BY <1>10, <1>u DEF vars
  <1>11. QED
    BY <1>1, <1>2, <1>3, <1>4, <1>5, <1>7, <1>8, <1>9, <1>10 DEF Next, Publish, Relay, RunOn

\* No task goes when others are queued, and only new ones come or are doubled.
LEMMA QueueTasks ==
  ASSUME IsABag(tasks), BagToSet(tasks) \subseteq Task, NEW p \in Pod, NEW e \in Event,
         NEW W \in SUBSET {"capture", "grant", "learn"}, Queue(p, e, W)
  PROVE  /\ IsABag(tasks') /\ BagToSet(tasks') \subseteq Task
         /\ BagToSet(tasks) \subseteq BagToSet(tasks')
         /\ \A t \in BagToSet(tasks') :
               t \in BagToSet(tasks) \/ (t.at = "start" /\ t.event = e)
         /\ \A t \in BagToSet(tasks) : t.at # "start" => tasks'[t] = tasks[t]
         /\ \A s \in W : \E t \in BagToSet(tasks') : t.event = e /\ t.who = s
  <1> DEFINE T(s) == [pod |-> p, event |-> e, who |-> s, at |-> "start", seen |-> NoCounts]
             S == {T(s) : s \in W}
  <1>1. tasks' = tasks (+) SetToBag(S)
    BY DEF Queue
  <1>3. NoCounts \in Counts
    BY DEF NoCounts, Counts
  <1>4. \A s \in W : /\ T(s) \in Task /\ T(s).at = "start"
                     /\ T(s).event = e /\ T(s).who = s
    BY <1>3 DEF Task
  <1>5. S \subseteq Task /\ \A t \in S : t.at = "start" /\ t.event = e
    BY <1>4
  <1>6. \A s \in W : T(s) \in S
    OBVIOUS
  <1> HIDE DEF T, S
  <1>7. /\ IsABag(tasks') /\ BagToSet(tasks') = BagToSet(tasks) \cup S
        /\ \A t \in BagToSet(tasks) \ S : tasks'[t] = tasks[t]
    BY <1>1, BagAdd
  <1>8. QED
    BY <1>4, <1>5, <1>6, <1>7

\* A dispatched event queues a run of each of its subscribers, and a statement
\* one of its own.
LEMMA EmitQueues ==
  ASSUME NEW p, NEW e
  PROVE  /\ Subscribers(e) \in SUBSET {"capture", "grant", "learn"}
         /\ Emit(p, e) => Queue(p, e, Subscribers(e))
         /\ {"learn"} \in SUBSET {"capture", "grant", "learn"}
         /\ Observe(p, e) => Queue(p, e, {"learn"})
  BY DEF Subscribers, Emit, Observe

\* A task that ends leaves the others as they are.
LEMMA EndTasks ==
  ASSUME IsABag(tasks), NEW t \in BagToSet(tasks), Ends(t)
  PROVE  /\ IsABag(tasks') /\ BagToSet(tasks') \subseteq BagToSet(tasks)
         /\ \A x \in BagToSet(tasks) \ {t} : x \in BagToSet(tasks') /\ tasks'[x] = tasks[x]
         /\ tasks[t] = 1 => t \notin BagToSet(tasks')
  BY BagTake DEF Ends

\* And so does one that goes on, of which a single copy is added.
LEMMA BecomeTasks ==
  ASSUME IsABag(tasks), NEW t \in BagToSet(tasks), NEW u, u # t, Becomes(t, u)
  PROVE  /\ IsABag(tasks') /\ BagToSet(tasks') \subseteq BagToSet(tasks) \cup {u}
         /\ u \in BagToSet(tasks')
         /\ \A x \in BagToSet(tasks) \ {t, u} : x \in BagToSet(tasks') /\ tasks'[x] = tasks[x]
         /\ u \notin BagToSet(tasks) => tasks'[u] = 1
  <1> DEFINE B == tasks (-) SetToBag({t})
  <1>1. /\ IsABag(B) /\ BagToSet(B) \subseteq BagToSet(tasks)
        /\ \A x \in BagToSet(tasks) \ {t} : x \in BagToSet(B) /\ B[x] = tasks[x]
    BY BagTake
  <1>2. tasks' = B (+) SetToBag({u})
    BY DEF Becomes
  <1> HIDE DEF B
  <1>3. /\ IsABag(tasks') /\ BagToSet(tasks') = BagToSet(B) \cup {u}
        /\ \A x \in BagToSet(B) \ {u} : tasks'[x] = B[x]
        /\ \A x \in {u} \ BagToSet(B) : tasks'[x] = 1
    BY <1>1, <1>2, BagAdd
  <1>4. QED
    BY <1>1, <1>3

\* A grant that goes on to the welcome, and a recording that goes on to the
\* beliefs, are the same run of the same event.
LEMMA GoesOn ==
  ASSUME TypeOK, NEW t \in BagToSet(tasks), t.at = "start"
  PROVE  /\ t \in Task /\ t.event \in Event /\ VendorOf[t.event] \in Vendor
         /\ LET u == [t EXCEPT !.at = "welcome"]
            IN  /\ u \in Task /\ u # t /\ u.at = "welcome"
                /\ u.who = t.who /\ u.event = t.event /\ u.pod = t.pod
         /\ LET u == [t EXCEPT !.at = "replace", !.seen = History(t.event)]
            IN  /\ u \in Task /\ u # t /\ u.at = "replace" /\ u.seen = History(t.event)
                /\ u.who = t.who /\ u.event = t.event /\ u.pod = t.pod
  <1>1. t \in Task /\ t.event \in Event
    BY DEF TypeOK, Task
  <1>2. VendorOf[t.event] \in Vendor
    BY <1>1, OutboxAssumption
  <1>3. History(t.event) \in Counts
    <2>1. \A f \in Event : evidence[f] \in Nat
      BY DEF TypeOK, Counts
    <2>2. QED
      BY <2>1 DEF History, Counts
  <1>4. LET u == [t EXCEPT !.at = "welcome"]
        IN  /\ u \in Task /\ u # t /\ u.at = "welcome"
            /\ u.who = t.who /\ u.event = t.event /\ u.pod = t.pod
    BY <1>1 DEF Task
  <1>5. LET u == [t EXCEPT !.at = "replace", !.seen = History(t.event)]
        IN  /\ u \in Task /\ u # t /\ u.at = "replace" /\ u.seen = History(t.event)
            /\ u.who = t.who /\ u.event = t.event /\ u.pod = t.pod
    BY <1>1, <1>3 DEF Task
  <1>6. QED
    BY <1>1, <1>2, <1>4, <1>5

\* A task is of an event of some vendor.
LEMMA TaskIs ==
  ASSUME TypeOK, NEW t \in BagToSet(tasks)
  PROVE  /\ t \in Task /\ t.event \in Event /\ VendorOf[t.event] \in Vendor
         /\ t.who \in {"capture", "grant", "learn"} /\ t.seen \in Counts
  <1>1. t \in Task
    BY DEF TypeOK
  <1>2. /\ t.event \in Event /\ t.who \in {"capture", "grant", "learn"} /\ t.seen \in Counts
    BY <1>1 DEF Task
  <1>3. QED
    BY <1>1, <1>2, OutboxAssumption

\* The bag of tasks stays one, and each task is where it can be.
LEMMA TaskStep ==
  ASSUME TypeOK, PodInv, TaskInv, [Next]_vars
  PROVE  TaskInv' /\ BagToSet(tasks') \subseteq Task
  <1> USE DEF storeVars
  <1>t. IsABag(tasks) /\ BagToSet(tasks) \subseteq Task
    BY DEF TaskInv, TypeOK
  <1>u. ASSUME UNCHANGED <<tasks, evidence>> PROVE TaskInv' /\ BagToSet(tasks') \subseteq Task
    BY <1>u, <1>t DEF TaskInv
  <1>e. ASSUME NEW p \in Pod, NEW e \in Event, NEW W \in SUBSET {"capture", "grant", "learn"},
               Queue(p, e, W), UNCHANGED evidence
        PROVE  TaskInv' /\ BagToSet(tasks') \subseteq Task
    <2>1. /\ IsABag(tasks') /\ BagToSet(tasks') \subseteq Task
          /\ \A t \in BagToSet(tasks') : t \in BagToSet(tasks) \/ t.at = "start"
      BY <1>e, <1>t, QueueTasks
    <2>2. QED
      BY <1>e, <2>1 DEF TaskInv
  <1>f. ASSUME NEW t \in BagToSet(tasks), Ends(t), UNCHANGED evidence
        PROVE  TaskInv' /\ BagToSet(tasks') \subseteq Task
    <2>1. IsABag(tasks') /\ BagToSet(tasks') \subseteq BagToSet(tasks)
      BY <1>f, <1>t, EndTasks
    <2>2. QED
      BY <1>f, <1>t, <2>1 DEF TaskInv
  <1>1. ASSUME NEW p \in Pod, Dispatch(p) PROVE TaskInv' /\ BagToSet(tasks') \subseteq Task
    <2>1. pub[p].left \in SUBSET Event /\ pub[p].left # {}
      BY <1>1 DEF PodInv, PubState, Dispatch
    <2>2. First(pub[p].left) \in Event
      BY <2>1, FirstIsIn
    <2>3. QED
      BY <1>1, <1>e, <2>2, EmitQueues DEF Dispatch
  <1>2. ASSUME NEW p \in Pod, RelayEmit(p) PROVE TaskInv' /\ BagToSet(tasks') \subseteq Task
    <2>1. relay[p].todo \in SUBSET Event /\ relay[p].todo # {}
      BY <1>2 DEF PodInv, RelayState, RelayEmit
    <2>2. First(relay[p].todo) \in Event
      BY <2>1, FirstIsIn
    <2>3. QED
      BY <1>2, <1>e, <2>2, EmitQueues DEF RelayEmit
  <1>3. ASSUME NEW t \in BagToSet(tasks), Capture(t) \/ Welcome(t) \/ ReplaceBeliefs(t) \/ SubscriberFails(t)
        PROVE  TaskInv' /\ BagToSet(tasks') \subseteq Task
    BY <1>3, <1>f DEF Capture, Welcome, ReplaceBeliefs, SubscriberFails
  <1>4. ASSUME NEW t \in BagToSet(tasks), Grant(t) PROVE TaskInv' /\ BagToSet(tasks') \subseteq Task
    <2>1. CASE Ends(t)
      BY <1>4, <2>1, <1>f DEF Grant
    <2>2. CASE Becomes(t, [t EXCEPT !.at = "welcome"])
      <3>1. PICK u : /\ u = [t EXCEPT !.at = "welcome"] /\ Becomes(t, u)
                     /\ u \in Task /\ u # t /\ u.at = "welcome" /\ u.who = t.who
        BY <1>4, <2>2, GoesOn DEF Grant
      <3>2. IsABag(tasks') /\ BagToSet(tasks') \subseteq BagToSet(tasks) \cup {u}
        BY <3>1, <1>t, BecomeTasks
      <3>3. u.who = "grant" /\ UNCHANGED evidence
        BY <1>4, <3>1 DEF Grant
      <3>4. QED
        BY <1>t, <3>1, <3>2, <3>3 DEF TaskInv
    <2>3. QED
      BY <1>4, <2>1, <2>2 DEF Grant
  <1>5. ASSUME NEW t \in BagToSet(tasks), AppendEvidence(t)
        PROVE  TaskInv' /\ BagToSet(tasks') \subseteq Task
    <2>1. PICK u : /\ u = [t EXCEPT !.at = "replace", !.seen = History(t.event)] /\ Becomes(t, u)
                   /\ u \in Task /\ u # t /\ u.at = "replace" /\ u.who = t.who /\ u.event = t.event
      BY <1>5, GoesOn DEF AppendEvidence
    <2>2. IsABag(tasks') /\ BagToSet(tasks') \subseteq BagToSet(tasks) \cup {u}
      BY <2>1, <1>t, BecomeTasks
    <2>3. t.who = "learn" /\ evidence' = [evidence EXCEPT ![t.event] = @ + 1] /\ t.event \in Event
      BY <1>5, TaskIs DEF AppendEvidence
    <2>4. \A e \in Event : evidence[e] \in Nat
      BY DEF TypeOK, Counts
    <2>5. \A e \in Event : evidence[e] > 0 => evidence'[e] > 0
      BY <2>3, <2>4 DEF TypeOK, Counts
    <2>6. evidence'[u.event] > 0
      BY <2>1, <2>3, <2>4 DEF TypeOK, Counts
    <2>7. \A x \in BagToSet(tasks) : x.event \in Event
      BY TaskIs
    <2>8. \A x \in BagToSet(tasks) :
             /\ x.at = "welcome" => x.who = "grant"
             /\ x.at = "replace" => x.who = "learn" /\ evidence'[x.event] > 0
      BY <2>5, <2>7 DEF TaskInv
    <2>9. QED
      BY <1>t, <2>1, <2>2, <2>3, <2>6, <2>8 DEF TaskInv
  <1>6. ASSUME NEW p \in Pod, Crash(p) PROVE TaskInv' /\ BagToSet(tasks') \subseteq Task
    <2>1. tasks' = [t \in BagToSet(tasks) \ OnPod(p) |-> tasks[t]] /\ UNCHANGED evidence
      BY <1>6 DEF Crash
    <2>2. BagToSet(tasks') \subseteq BagToSet(tasks)
      BY <2>1 DEF BagToSet
    <2>3. IsABag(tasks')
      BY <1>t, <2>1 DEF IsABag, BagToSet
    <2>4. QED
      BY <1>t, <2>1, <2>2, <2>3 DEF TaskInv
  <1>7. ASSUME NEW p \in Pod, NEW B,
               Record(p, B) \/ MarkDelivered(p) \/ MarkDeliveredFails(p) \/ Sweep(p)
                 \/ RelayMark(p) \/ RelayMarkFails(p)
        PROVE  TaskInv' /\ BagToSet(tasks') \subseteq Task
    BY <1>7, <1>u DEF Record, MarkDelivered, MarkDeliveredFails, Sweep, RelayMark, RelayMarkFails
  <1>8. CASE UNCHANGED vars
    BY <1>8, <1>u DEF vars
  <1>9. \A p \in Pod : OnPod(p) \subseteq BagToSet(tasks)
    BY DEF OnPod
  <1>10. Producer \subseteq Pod
    BY OutboxAssumption
  <1>11. ASSUME NEW p \in Pod, NEW s \in Event, Observe(p, s)
         PROVE  TaskInv' /\ BagToSet(tasks') \subseteq Task
    BY <1>11, <1>e, EmitQueues DEF Observe
  <1>12. QED
    BY <1>1, <1>2, <1>3, <1>4, <1>5, <1>6, <1>7, <1>8, <1>9, <1>10, <1>11
       DEF Next, Publish, Relay, RunOn, Run

\* A count that grows stays one.
LEMMA CountsGrow ==
  ASSUME NEW c \in Counts, NEW e \in Event
  PROVE  [c EXCEPT ![e] = @ + 1] \in Counts
  BY DEF Counts

\* The rest of the types.
LEMMA TypeStep ==
  ASSUME TypeOK, PodInv, TaskInv, [Next]_vars PROVE TypeOK'
  <1> DEFINE RowOK == row \in [Event -> {"none", "unpublished", "published"}] /\ attempts \in Counts
             StoreOK == /\ captured \subseteq Event /\ granted \subseteq Vendor
                        /\ welcomed \in [Vendor -> Nat] /\ evidence \in Counts /\ belief \in Counts
             GhostOK == /\ lost \subseteq Event \X {"capture", "grant", "learn"}
                        /\ crossed \subseteq Vendor /\ faults \in 0..MaxFaults
  <1> USE DEF outboxVars, storeVars, ghostVars
  <1>a. RowOK /\ StoreOK /\ GhostOK
    BY DEF TypeOK
  <1>b. SUFFICES RowOK' /\ StoreOK' /\ GhostOK'
    <2>1. PodInv' /\ BagToSet(tasks') \subseteq Task
      BY PodStep, TaskStep
    <2>2. \A p \in Pod : /\ pub'[p].at \in {"idle", "dispatch"}
                         /\ pub'[p].left \cup pub'[p].sent \subseteq Event
                         /\ relay'[p].at \in {"idle", "emit", "mark"}
                         /\ relay'[p].todo \subseteq Event
                         /\ relay'[p].cur \in Event \cup {None}
                         /\ relay'[p].read \in Counts
      BY <2>1 DEF PodInv, PubState, RelayState
    <2>3. QED
      BY <2>1, <2>2 DEF TypeOK
  <1>r. UNCHANGED outboxVars => RowOK'
    BY <1>a
  <1>s. UNCHANGED storeVars => StoreOK'
    BY <1>a
  <1>g. UNCHANGED <<lost, crossed, faults>> => GhostOK'
    BY <1>a
  <1>f. Fault => faults' \in 0..MaxFaults
    BY <1>a, OutboxAssumption DEF Fault
  <1>1. ASSUME NEW p, NEW B, Record(p, B) PROVE RowOK' /\ StoreOK' /\ GhostOK'
    BY <1>1, <1>a, <1>s, <1>g DEF Record
  <1>2. ASSUME NEW p, NEW s, Dispatch(p) \/ Sweep(p) \/ RelayEmit(p) \/ Observe(p, s)
        PROVE  RowOK' /\ StoreOK' /\ GhostOK'
    BY <1>2, <1>r, <1>s, <1>g DEF Dispatch, Sweep, RelayEmit, Observe
  <1>3. ASSUME NEW p, MarkDelivered(p) PROVE RowOK' /\ StoreOK' /\ GhostOK'
    BY <1>3, <1>a, <1>s, <1>g DEF MarkDelivered
  <1>4. ASSUME NEW p, MarkDeliveredFails(p) PROVE RowOK' /\ StoreOK' /\ GhostOK'
    BY <1>4, <1>a, <1>r, <1>s, <1>f DEF MarkDeliveredFails
  <1>5. ASSUME NEW p \in Pod, RelayMark(p) PROVE RowOK' /\ StoreOK' /\ GhostOK'
    <2>1. relay[p].cur \in Event
      BY <1>5 DEF RelayMark, PodInv
    <2>2. /\ row' = [row EXCEPT ![relay[p].cur] = "published"]
          /\ attempts' = [attempts EXCEPT ![relay[p].cur] = @ + 1]
      BY <1>5 DEF RelayMark
    <2>3. attempts' \in Counts
      BY <1>a, <2>1, <2>2, CountsGrow
    <2>4. RowOK'
      BY <1>a, <2>2, <2>3
    <2>5. QED
      BY <1>5, <2>4, <1>s, <1>g DEF RelayMark
  <1>6. ASSUME NEW p \in Pod, RelayMarkFails(p) PROVE RowOK' /\ StoreOK' /\ GhostOK'
    <2>1. relay[p].cur \in Event /\ relay[p].read \in Counts
      BY <1>6 DEF RelayMarkFails, PodInv, RelayState
    <2>2. relay[p].read[relay[p].cur] + 1 \in Nat
      BY <2>1 DEF Counts
    <2>3. UNCHANGED row /\ (UNCHANGED attempts \/
             attempts' = [attempts EXCEPT ![relay[p].cur] = relay[p].read[relay[p].cur] + 1])
      BY <1>6 DEF RelayMarkFails
    <2>4. RowOK'
      BY <1>a, <2>2, <2>3 DEF Counts
    <2>5. QED
      BY <1>6, <2>4, <1>a, <1>s, <1>f DEF RelayMarkFails
  <1>7. ASSUME NEW t \in BagToSet(tasks), Capture(t) \/ Grant(t) \/ Welcome(t)
        PROVE  RowOK' /\ StoreOK' /\ GhostOK'
    <2>1. t.event \in Event /\ VendorOf[t.event] \in Vendor
      BY TaskIs
    <2>2. StoreOK'
      BY <1>7, <1>a, <2>1 DEF Capture, Grant, Welcome
    <2>3. QED
      BY <1>7, <2>2, <1>r, <1>g DEF Capture, Grant, Welcome
  <1>8. ASSUME NEW t \in BagToSet(tasks), AppendEvidence(t) PROVE RowOK' /\ StoreOK' /\ GhostOK'
    <2>1. t.event \in Event /\ VendorOf[t.event] \in Vendor
      BY TaskIs
    <2>2. evidence' \in Counts
      <3>1. evidence' = [evidence EXCEPT ![t.event] = @ + 1]
        BY <1>8 DEF AppendEvidence
      <3>2. QED
        BY <1>a, <2>1, <3>1, CountsGrow
    <2>3. UNCHANGED outboxVars /\ UNCHANGED <<captured, granted, welcomed, belief, lost, faults>>
      BY <1>8 DEF AppendEvidence
    <2>4. crossed' \subseteq Vendor
      BY <1>8, <1>a, <2>1 DEF AppendEvidence
    <2>5. QED
      BY <1>a, <1>r, <2>2, <2>3, <2>4
  <1>9. ASSUME NEW t \in BagToSet(tasks), ReplaceBeliefs(t) PROVE RowOK' /\ StoreOK' /\ GhostOK'
    <2>1. \A e \in Event : t.seen[e] \in Nat /\ belief[e] \in Nat
      BY <1>a, TaskIs DEF Counts
    <2>2. belief' \in Counts
      BY <1>9, <2>1 DEF ReplaceBeliefs, DeriveBeliefs, Counts
    <2>3. QED
      BY <1>9, <1>a, <2>2, <1>r, <1>g DEF ReplaceBeliefs
  <1>10. ASSUME NEW t \in BagToSet(tasks), SubscriberFails(t) PROVE RowOK' /\ StoreOK' /\ GhostOK'
    <2>1. <<t.event, t.who>> \in Event \X {"capture", "grant", "learn"}
      BY TaskIs
    <2>2. QED
      BY <1>10, <2>1, <1>a, <1>r, <1>s, <1>f DEF SubscriberFails
  <1>11. ASSUME NEW p \in Pod, Crash(p) PROVE RowOK' /\ StoreOK' /\ GhostOK'
    <2>1. \A t \in OnPod(p) : <<t.event, t.who>> \in Event \X {"capture", "grant", "learn"}
      BY TaskIs DEF OnPod
    <2>2. QED
      BY <1>11, <2>1, <1>a, <1>r, <1>s, <1>f DEF Crash
  <1>12. CASE UNCHANGED vars
    BY <1>12, <1>r, <1>s, <1>g DEF vars
  <1>13. \A p \in Pod : OnPod(p) \subseteq BagToSet(tasks)
    BY DEF OnPod
  <1> HIDE DEF RowOK, StoreOK, GhostOK
  <1>14. QED
    BY <1>1, <1>2, <1>3, <1>4, <1>5, <1>6, <1>7, <1>8, <1>9, <1>10, <1>11, <1>12, <1>13
       DEF Next, Publish, Relay, RunOn, Run

\* What subscribers leave behind stays, and so does what was lost.
LEMMA Monotone ==
  ASSUME TypeOK, [Next]_vars
  PROVE  /\ lost \subseteq lost' /\ captured \subseteq captured' /\ granted \subseteq granted'
         /\ \A e \in Event : evidence'[e] >= evidence[e]
  <1> USE DEF outboxVars, storeVars, ghostVars
  <1>c. \A e \in Event : evidence[e] \in Nat
    BY DEF TypeOK, Counts
  <1>u. ASSUME UNCHANGED <<lost, captured, granted, evidence>>
        PROVE  /\ lost \subseteq lost' /\ captured \subseteq captured' /\ granted \subseteq granted'
               /\ \A e \in Event : evidence'[e] >= evidence[e]
    BY <1>u, <1>c
  <1>1. ASSUME NEW p, NEW B,
               Record(p, B) \/ Dispatch(p) \/ MarkDelivered(p) \/ MarkDeliveredFails(p)
                 \/ Sweep(p) \/ RelayEmit(p) \/ RelayMark(p) \/ RelayMarkFails(p)
                 \/ Observe(p, B)
        PROVE  UNCHANGED <<lost, captured, granted, evidence>>
    BY <1>1 DEF Observe, Record, Dispatch, MarkDelivered, MarkDeliveredFails, Sweep, RelayEmit,
                RelayMark, RelayMarkFails
  <1>2. ASSUME NEW t, Capture(t) \/ Grant(t) \/ Welcome(t) \/ ReplaceBeliefs(t) \/ SubscriberFails(t)
        PROVE  /\ lost \subseteq lost' /\ captured \subseteq captured' /\ granted \subseteq granted'
               /\ UNCHANGED evidence
    BY <1>2 DEF Capture, Grant, Welcome, ReplaceBeliefs, SubscriberFails
  <1>3. ASSUME NEW t, AppendEvidence(t)
        PROVE  /\ UNCHANGED <<lost, captured, granted>>
               /\ \A e \in Event : evidence'[e] >= evidence[e]
    <2>1. UNCHANGED <<lost, captured, granted>> /\ evidence' = [evidence EXCEPT ![t.event] = @ + 1]
      BY <1>3 DEF AppendEvidence
    <2>2. \A e \in Event : evidence'[e] >= evidence[e]
      BY <1>c, <2>1 DEF TypeOK, Counts
    <2>3. QED
      BY <2>1, <2>2
  <1>4. ASSUME NEW p, Crash(p)
        PROVE  lost \subseteq lost' /\ UNCHANGED <<captured, granted, evidence>>
    BY <1>4 DEF Crash
  <1>5. CASE UNCHANGED vars
    BY <1>5, <1>u DEF vars
  <1>6. QED
    BY <1>1, <1>2, <1>3, <1>4, <1>5, <1>u, <1>c DEF Next, Publish, Relay, RunOn, Run

\* A task that is no more has left its mark or was lost.
LEMMA TaskReaches ==
  ASSUME TypeOK, PodInv, TaskInv, WelcomeInv, [Next]_vars, NEW t \in BagToSet(tasks)
  PROVE  Reached(t.event, t.who)'
  <1> DEFINE e == t.event
             s == t.who
             Kept == \E x \in BagToSet(tasks') : x.event = e /\ x.who = s
  <1>t. IsABag(tasks) /\ BagToSet(tasks) \subseteq Task
    BY DEF TaskInv, TypeOK
  <1>k. t \in BagToSet(tasks') => Kept
    OBVIOUS
  <1>s. SUFFICES Settled(e, s)' \/ Kept
    BY DEF Reached
  <1>i. t \in Task /\ e \in Event
    BY TaskIs
  <1> HIDE DEF e, s, Kept
  <1>1. ASSUME NEW p \in Pod, NEW f \in Event, NEW W \in SUBSET {"capture", "grant", "learn"},
               Queue(p, f, W)
        PROVE  Kept
    BY <1>1, <1>t, <1>k, QueueTasks
  <1>2. ASSUME NEW x \in BagToSet(tasks), Ends(x), x # t PROVE Kept
    BY <1>2, <1>t, <1>k, EndTasks
  <1>3. ASSUME NEW x \in BagToSet(tasks), NEW u, u # x, Becomes(x, u), u.event = x.event, u.who = x.who
        PROVE  Kept
    <2>1. /\ u \in BagToSet(tasks')
          /\ \A y \in BagToSet(tasks) \ {x, u} : y \in BagToSet(tasks')
      BY <1>3, <1>t, BecomeTasks
    <2>2. CASE t = x
      BY <1>3, <2>1, <2>2 DEF Kept, e, s
    <2>3. CASE t # x
      BY <1>k, <2>1, <2>3
    <2>4. QED
      BY <2>2, <2>3
  <1>4. ASSUME NEW p \in Pod, Dispatch(p) PROVE Kept
    <2>1. pub[p].left \in SUBSET Event /\ pub[p].left # {}
      BY <1>4 DEF PodInv, PubState, Dispatch
    <2>2. First(pub[p].left) \in Event
      BY <2>1, FirstIsIn
    <2>3. QED
      BY <1>4, <1>1, <2>2, EmitQueues DEF Dispatch
  <1>5. ASSUME NEW p \in Pod, RelayEmit(p) PROVE Kept
    <2>1. relay[p].todo \in SUBSET Event /\ relay[p].todo # {}
      BY <1>5 DEF PodInv, RelayState, RelayEmit
    <2>2. First(relay[p].todo) \in Event
      BY <2>1, FirstIsIn
    <2>3. QED
      BY <1>5, <1>1, <2>2, EmitQueues DEF RelayEmit
  <1>6. ASSUME NEW x \in BagToSet(tasks), Capture(x) PROVE Settled(e, s)' \/ Kept
    <2>1. CASE x = t
      BY <1>6, <2>1 DEF Capture, Settled, e, s
    <2>2. CASE x # t
      BY <1>6, <1>2, <2>2 DEF Capture
    <2>3. QED
      BY <2>1, <2>2
  <1>7. ASSUME NEW x \in BagToSet(tasks), Grant(x) PROVE Settled(e, s)' \/ Kept
    <2>1. CASE Ends(x) /\ VendorOf[x.event] \in granted'
      <3>1. CASE x = t
        BY <1>7, <2>1, <3>1 DEF Grant, Settled, e, s
      <3>2. CASE x # t
        BY <1>2, <2>1, <3>2
      <3>3. QED
        BY <3>1, <3>2
    <2>2. CASE Becomes(x, [x EXCEPT !.at = "welcome"])
      <3>1. x.at = "start"
        BY <1>7 DEF Grant
      <3>2. QED
        BY <1>3, <2>2, <3>1, GoesOn
    <2>3. QED
      BY <1>7, <2>1, <2>2 DEF Grant
  <1>8. ASSUME NEW x \in BagToSet(tasks), Welcome(x) PROVE Settled(e, s)' \/ Kept
    <2>1. /\ Ends(x) /\ UNCHANGED granted
          /\ x.who = "grant" /\ VendorOf[x.event] \in granted
      BY <1>8 DEF Welcome, WelcomeInv
    <2>2. CASE x = t
      BY <2>1, <2>2 DEF Settled, e, s
    <2>3. CASE x # t
      BY <1>2, <2>1, <2>3
    <2>4. QED
      BY <2>2, <2>3
  <1>9. ASSUME NEW x \in BagToSet(tasks), AppendEvidence(x) PROVE Kept
    BY <1>9, <1>3, GoesOn DEF AppendEvidence
  <1>10. ASSUME NEW x \in BagToSet(tasks), ReplaceBeliefs(x) PROVE Settled(e, s)' \/ Kept
    <2>1. /\ Ends(x) /\ UNCHANGED evidence
          /\ x.who = "learn" /\ evidence[x.event] > 0
      BY <1>10 DEF ReplaceBeliefs, TaskInv
    <2>2. CASE x = t
      BY <2>1, <2>2 DEF Settled, e, s
    <2>3. CASE x # t
      BY <1>2, <2>1, <2>3
    <2>4. QED
      BY <2>2, <2>3
  <1>11. ASSUME NEW x \in BagToSet(tasks), SubscriberFails(x) PROVE Settled(e, s)' \/ Kept
    <2>1. CASE x = t
      BY <1>11, <2>1 DEF SubscriberFails, Settled, e, s
    <2>2. CASE x # t
      BY <1>11, <1>2, <2>2 DEF SubscriberFails
    <2>3. QED
      BY <2>1, <2>2
  <1>12. ASSUME NEW p \in Pod, Crash(p) PROVE Settled(e, s)' \/ Kept
    <2>1. /\ tasks' = [x \in BagToSet(tasks) \ OnPod(p) |-> tasks[x]]
          /\ lost' = lost \cup {<<x.event, x.who>> : x \in OnPod(p)}
      BY <1>12 DEF Crash
    <2>2. CASE t \in OnPod(p)
      <3>1. <<e, s>> \in lost'
        BY <2>1, <2>2 DEF e, s
      <3>2. QED
        BY <3>1 DEF Settled
    <2>3. CASE t \notin OnPod(p)
      BY <1>k, <2>1, <2>3 DEF BagToSet
    <2>4. QED
      BY <2>2, <2>3
  <1>13. ASSUME UNCHANGED tasks PROVE Kept
    BY <1>k, <1>13
  <1>14. ASSUME NEW p, NEW B,
                Record(p, B) \/ MarkDelivered(p) \/ MarkDeliveredFails(p) \/ Sweep(p)
                  \/ RelayMark(p) \/ RelayMarkFails(p) \/ UNCHANGED vars
         PROVE  UNCHANGED tasks
    BY <1>14 DEF Record, MarkDelivered, MarkDeliveredFails, Sweep, RelayMark, RelayMarkFails, vars
  <1>15. \A p \in Pod : OnPod(p) \subseteq BagToSet(tasks)
    BY DEF OnPod
  <1>16. Producer \subseteq Pod
    BY OutboxAssumption
  <1>17. ASSUME NEW p \in Pod, NEW f \in Event, Observe(p, f) PROVE Kept
    BY <1>17, <1>1, EmitQueues
  <1>18. QED
    BY <1>4, <1>5, <1>6, <1>7, <1>8, <1>9, <1>10, <1>11, <1>12, <1>13, <1>14, <1>15, <1>16, <1>17
       DEF Next, Publish, Relay, RunOn, Run

\* What was served stays served.
LEMMA ReachedStays ==
  ASSUME TypeOK, PodInv, TaskInv, WelcomeInv, [Next]_vars,
         NEW e \in Event, NEW s \in Subscribers(e), Reached(e, s)
  PROVE  Reached(e, s)'
  <1>1. CASE \E t \in BagToSet(tasks) : t.event = e /\ t.who = s
    BY <1>1, TaskReaches
  <1>2. CASE Settled(e, s)
    <2>1. s \in {"capture", "grant", "learn"}
      BY DEF Subscribers
    <2>2. evidence[e] \in Nat /\ evidence'[e] \in Nat
      <3>1. TypeOK'
        BY TypeStep
      <3>2. QED
        BY <3>1 DEF TypeOK, Counts
    <2>3. /\ lost \subseteq lost' /\ captured \subseteq captured' /\ granted \subseteq granted'
          /\ evidence'[e] >= evidence[e]
      BY Monotone
    <2>4. evidence[e] > 0 => evidence'[e] > 0
      BY <2>2, <2>3
    <2>5. Settled(e, s)'
      BY <1>2, <2>1, <2>3, <2>4 DEF Settled
    <2>6. QED
      BY <2>5 DEF Reached
  <1>3. QED
    BY <1>1, <1>2 DEF Reached

\* An event a bus has just carried is served.
LEMMA EmitServes ==
  ASSUME TypeOK, TaskInv, NEW p \in Pod, NEW e \in Event, Emit(p, e)
  PROVE  Served(e)'
  <1>1. \A s \in Subscribers(e) : \E t \in BagToSet(tasks') : t.event = e /\ t.who = s
    BY QueueTasks, EmitQueues DEF TypeOK, TaskInv
  <1>2. Subscribers(e)' = Subscribers(e)
    BY DEF Subscribers
  <1>3. QED
    BY <1>1, <1>2 DEF Served, Reached

\* What is published, dispatched or emitted has been on a bus.
LEMMA ServedStep ==
  ASSUME TypeOK, PodInv, TaskInv, ServedInv, WelcomeInv, [Next]_vars PROVE ServedInv'
  <1> USE DEF outboxVars, storeVars, ghostVars
  <1>s. ASSUME NEW e \in Event, Served(e) PROVE Served(e)'
    <2>1. Subscribers(e)' = Subscribers(e)
      BY DEF Subscribers
    <2>2. \A s \in Subscribers(e) : Reached(e, s)'
      BY <1>s, ReachedStays DEF Served
    <2>3. QED
      BY <2>1, <2>2 DEF Served
  <1>p. \A p \in Pod : /\ pub[p].sent \subseteq Event
                       /\ pub[p] \in PubState
                       /\ relay[p].at = "mark" => relay[p].cur \in Event
    BY DEF PodInv, PubState
  \* It is enough that what is new in each place is served by now.
  <1>n. SUFFICES
          /\ \A e \in Event : row'[e] = "published" => row[e] = "published" \/ Served(e) \/ Served(e)'
          /\ \A p \in Pod : \A e \in pub'[p].sent : e \in pub[p].sent \/ Served(e)'
          /\ \A p \in Pod : relay'[p].at = "mark" =>
                \/ relay[p].at = "mark" /\ relay'[p].cur = relay[p].cur
                \/ \E e \in Event : relay'[p].cur = e /\ Served(e)'
    <2>1. \A e \in Event : row'[e] = "published" => Served(e)'
      BY <1>n, <1>s DEF ServedInv
    <2>2. \A p \in Pod : \A e \in pub'[p].sent : Served(e)'
      BY <1>n, <1>s, <1>p DEF ServedInv
    <2>3. ASSUME NEW p \in Pod, NEW e \in Event, relay'[p].at = "mark", relay'[p].cur = e
          PROVE  Served(e)'
      <3>1. CASE relay[p].at = "mark" /\ relay'[p].cur = relay[p].cur
        BY <2>3, <3>1, <1>s DEF ServedInv
      <3>2. QED
        BY <3>1, <2>3, <1>n
    <2>4. QED
      BY <2>1, <2>2, <2>3 DEF ServedInv
  <1> DEFINE New == /\ \A e \in Event : row'[e] = "published" =>
                          row[e] = "published" \/ Served(e) \/ Served(e)'
                    /\ \A p \in Pod : \A e \in pub'[p].sent : e \in pub[p].sent \/ Served(e)'
                    /\ \A p \in Pod : relay'[p].at = "mark" =>
                          \/ relay[p].at = "mark" /\ relay'[p].cur = relay[p].cur
                          \/ \E e \in Event : relay'[p].cur = e /\ Served(e)'
  <1>u. ASSUME UNCHANGED <<row, pub, relay>> PROVE New
    BY <1>u
  <1>i. IdlePub.sent = {} /\ IdleRelay.at = "idle"
    BY DEF IdlePub, IdleRelay
  <1>1. ASSUME NEW p \in Pod, NEW B, Record(p, B) PROVE New
    <2>1. \A e \in Event : row'[e] = "published" => row[e] = "published"
      BY <1>1 DEF Record
    <2>2. \A q \in Pod : pub'[q].sent \subseteq pub[q].sent
      BY <1>1, <1>p DEF Record, PodInv
    <2>3. QED
      BY <1>1, <2>1, <2>2 DEF Record
  <1>2. ASSUME NEW p \in Pod, Dispatch(p) PROVE New
    <2>1. PICK e \in Event : e = First(pub[p].left)
      <3>1. pub[p].left \in SUBSET Event /\ pub[p].left # {}
        BY <1>2, <1>p DEF Dispatch, PubState
      <3>2. QED
        BY <3>1, FirstIsIn
    <2>2. /\ Emit(p, e) /\ UNCHANGED <<row, relay>>
          /\ pub' = [pub EXCEPT ![p].left = @ \ {e}, ![p].sent = @ \cup {e}]
      BY <1>2, <2>1 DEF Dispatch
    <2>3. Served(e)'
      BY <2>2, EmitServes
    <2>4. \A q \in Pod : pub'[q].sent \subseteq pub[q].sent \cup {e}
      BY <2>2, <1>p DEF PodInv, PubState
    <2>5. QED
      BY <2>2, <2>3, <2>4
  <1>3. ASSUME NEW p \in Pod, MarkDelivered(p) PROVE New
    <2>1. \A e \in pub[p].sent : Served(e)
      BY DEF ServedInv
    <2>2. \A e \in Event : row'[e] = "published" => row[e] = "published" \/ Served(e)
      BY <1>3, <2>1 DEF MarkDelivered
    <2>3. \A q \in Pod : pub'[q].sent \subseteq pub[q].sent
      BY <1>3, <1>i DEF MarkDelivered, PodInv
    <2>4. QED
      BY <1>3, <2>2, <2>3 DEF MarkDelivered
  <1>4. ASSUME NEW p \in Pod, MarkDeliveredFails(p) PROVE New
    <2>1. \A q \in Pod : pub'[q].sent \subseteq pub[q].sent
      BY <1>4, <1>i DEF MarkDeliveredFails, PodInv
    <2>2. QED
      BY <1>4, <2>1 DEF MarkDeliveredFails
  <1>5. ASSUME NEW p \in Pod, Sweep(p) PROVE New
    <2>1. \A q \in Pod : relay'[q].at = "mark" => q # p /\ relay'[q] = relay[q]
      BY <1>5 DEF Sweep, PodInv
    <2>2. QED
      BY <1>5, <2>1 DEF Sweep
  <1>6. ASSUME NEW p \in Pod, RelayEmit(p) PROVE New
    <2>1. PICK e \in Event : e = First(relay[p].todo)
      <3>1. relay[p].todo \in SUBSET Event /\ relay[p].todo # {}
        BY <1>6 DEF PodInv, RelayState, RelayEmit
      <3>2. QED
        BY <3>1, FirstIsIn
    <2>2. /\ Emit(p, e) /\ UNCHANGED <<row, pub>>
          /\ relay' = [relay EXCEPT ![p].at = "mark", ![p].cur = e, ![p].todo = @ \ {e}]
      BY <1>6, <2>1 DEF RelayEmit
    <2>3. Served(e)'
      BY <2>2, EmitServes
    <2>4. \A q \in Pod : relay'[q].cur = e \/ relay'[q] = relay[q]
      BY <2>2 DEF PodInv, RelayState
    <2>5. QED
      BY <2>2, <2>3, <2>4
  <1>7. ASSUME NEW p \in Pod, Advance(p)
        PROVE  \A q \in Pod : relay'[q].at = "mark" => relay'[q] = relay[q]
    BY <1>7, <1>i DEF Advance, PodInv, RelayState
  <1>8. ASSUME NEW p \in Pod, RelayMark(p) PROVE New
    <2>1. PICK c \in Event : c = relay[p].cur
      BY <1>8, <1>p DEF RelayMark
    <2>2. Served(c)
      BY <1>8, <2>1 DEF RelayMark, ServedInv
    <2>3. \A e \in Event : row'[e] = "published" => row[e] = "published" \/ Served(e)
      BY <1>8, <2>1, <2>2 DEF RelayMark, TypeOK
    <2>4. QED
      BY <1>8, <1>7, <2>3 DEF RelayMark
  <1>9. ASSUME NEW p \in Pod, RelayMarkFails(p) PROVE New
    <2>1. \A q \in Pod : relay'[q].at = "mark" => relay'[q] = relay[q]
      BY <1>9, <1>7, <1>i DEF RelayMarkFails, PodInv
    <2>2. QED
      BY <1>9, <2>1 DEF RelayMarkFails
  <1>10. ASSUME NEW p \in Pod, Crash(p) PROVE New
    <2>1. /\ \A q \in Pod : relay'[q].at = "mark" => relay'[q] = relay[q]
          /\ \A q \in Pod : pub'[q].sent \subseteq pub[q].sent
      BY <1>10, <1>i DEF Crash, PodInv
    <2>2. QED
      BY <1>10, <2>1 DEF Crash
  <1>11. ASSUME NEW t, NEW p, Run(t) \/ SubscriberFails(t) \/ Observe(p, t) PROVE New
    BY <1>11, <1>u DEF Observe, Run, Capture, Grant, Welcome, AppendEvidence, ReplaceBeliefs, SubscriberFails
  <1>12. ASSUME UNCHANGED vars PROVE New
    BY <1>12, <1>u DEF vars
  <1>13. Producer \subseteq Pod
    BY OutboxAssumption
  <1> HIDE DEF New
  <1>14. New
    BY <1>1, <1>2, <1>3, <1>4, <1>5, <1>6, <1>8, <1>9, <1>10, <1>11, <1>12, <1>13
       DEF Next, Publish, Relay, RunOn
  <1>15. QED
    BY <1>14 DEF New

\* Who is about to be welcomed, the single copies of it, and that a new one is
\* of a vendor that was not granted.
LEMMA WelcomeStep ==
  ASSUME TypeOK, PodInv, TaskInv, WelcomeInv, [Next]_vars PROVE WelcomeInv'
  <1> USE DEF outboxVars, storeVars, ghostVars
  <1>t. /\ IsABag(tasks) /\ BagToSet(tasks) \subseteq Task
        /\ \A t \in BagToSet(tasks) : t.event \in Event /\ VendorOf[t.event] \in Vendor
        /\ granted \subseteq Vendor /\ welcomed \in [Vendor -> Nat]
    BY TaskIs DEF TaskInv, TypeOK
  \* No welcome comes or is doubled, and none is sent.
  <1>k. ASSUME UNCHANGED <<granted, welcomed>>,
               \A t \in BagToSet(tasks') : t.at = "welcome" =>
                  t \in BagToSet(tasks) /\ tasks'[t] = tasks[t]
        PROVE  WelcomeInv'
    BY <1>k DEF WelcomeInv
  <1>e. ASSUME NEW p \in Pod, NEW e \in Event, NEW W \in SUBSET {"capture", "grant", "learn"},
               Queue(p, e, W), UNCHANGED <<granted, welcomed>>
        PROVE  WelcomeInv'
    <2>1. /\ \A t \in BagToSet(tasks') : t \in BagToSet(tasks) \/ t.at = "start"
          /\ \A t \in BagToSet(tasks) : t.at # "start" => tasks'[t] = tasks[t]
      BY <1>e, <1>t, QueueTasks
    <2>2. QED
      BY <1>e, <1>k, <2>1
  <1>f. ASSUME NEW x \in BagToSet(tasks), Ends(x), UNCHANGED <<granted, welcomed>>
        PROVE  WelcomeInv'
    <2>1. /\ BagToSet(tasks') \subseteq BagToSet(tasks)
          /\ \A t \in BagToSet(tasks) \ {x} : tasks'[t] = tasks[t]
          /\ tasks[x] = 1 => x \notin BagToSet(tasks')
      BY <1>f, <1>t, EndTasks
    <2>2. x.at = "welcome" => tasks[x] = 1
      BY DEF WelcomeInv
    <2>3. QED
      BY <1>f, <1>k, <2>1, <2>2
  <1>1. ASSUME NEW p \in Pod, Dispatch(p) PROVE WelcomeInv'
    <2>1. First(pub[p].left) \in Event
      BY <1>1, FirstIsIn DEF PodInv, PubState, Dispatch
    <2>2. QED
      BY <1>1, <1>e, <2>1, EmitQueues DEF Dispatch
  <1>2. ASSUME NEW p \in Pod, RelayEmit(p) PROVE WelcomeInv'
    <2>1. First(relay[p].todo) \in Event
      BY <1>2, FirstIsIn DEF PodInv, RelayState, RelayEmit
    <2>2. QED
      BY <1>2, <1>e, <2>1, EmitQueues DEF RelayEmit
  <1>3. ASSUME NEW x \in BagToSet(tasks), Capture(x) \/ ReplaceBeliefs(x) \/ SubscriberFails(x)
        PROVE  WelcomeInv'
    BY <1>3, <1>f DEF Capture, ReplaceBeliefs, SubscriberFails
  <1>4. ASSUME NEW x \in BagToSet(tasks), Grant(x) PROVE WelcomeInv'
    <2>1. CASE VendorOf[x.event] \in granted
      BY <1>4, <1>f, <2>1 DEF Grant
    <2>2. CASE VendorOf[x.event] \notin granted
      <3> DEFINE v == VendorOf[x.event]
      <3>1. PICK u : /\ u = [x EXCEPT !.at = "welcome"] /\ Becomes(x, u)
                     /\ u # x /\ u.at = "welcome" /\ u.event = x.event
        BY <1>4, <2>2, GoesOn DEF Grant
      <3>2. granted' = granted \cup {v} /\ UNCHANGED welcomed /\ x.at = "start"
        BY <1>4, <2>2 DEF Grant
      <3>3. v \in Vendor /\ VendorOf[u.event] = v /\ v \notin granted
        BY <1>t, <2>2, <3>1
      <3> HIDE DEF v
      <3>4. \A t \in BagToSet(tasks) : t.at = "welcome" => VendorOf[t.event] # v
        BY <3>3 DEF WelcomeInv
      <3>5. u \notin BagToSet(tasks)
        BY <3>1, <3>3, <3>4
      <3>6. /\ BagToSet(tasks') \subseteq BagToSet(tasks) \cup {u}
            /\ \A t \in BagToSet(tasks) \ {x, u} : tasks'[t] = tasks[t]
            /\ tasks'[u] = 1
        BY <1>t, <3>1, <3>5, BecomeTasks
      <3>7. welcomed[v] = 0
        BY <1>t, <3>3 DEF WelcomeInv
      <3>8. \A w \in Vendor : welcomed'[w] <= (IF w \in granted' THEN 1 ELSE 0)
        BY <1>t, <3>2, <3>3, <3>7 DEF WelcomeInv
      <3>9. ASSUME NEW t \in BagToSet(tasks'), t.at = "welcome"
            PROVE  /\ tasks'[t] = 1
                   /\ VendorOf[t.event] \in granted' /\ welcomed'[VendorOf[t.event]] = 0
                   /\ t = u \/ (t \in BagToSet(tasks) /\ VendorOf[t.event] # v)
        <4>1. CASE t = u
          BY <3>2, <3>3, <3>6, <3>7, <4>1
        <4>2. CASE t # u
          <5>1. t \in BagToSet(tasks) /\ t # x
            BY <3>2, <3>6, <3>9, <4>2
          <5>2. /\ tasks[t] = 1 /\ VendorOf[t.event] \in granted /\ welcomed[VendorOf[t.event]] = 0
                /\ VendorOf[t.event] # v
            BY <3>4, <3>9, <5>1 DEF WelcomeInv
          <5>3. QED
            BY <3>2, <3>6, <4>2, <5>1, <5>2
        <4>3. QED
          BY <4>1, <4>2
      <3>10. \A t, s \in BagToSet(tasks') :
                t.at = "welcome" /\ s.at = "welcome" /\ VendorOf[s.event] = VendorOf[t.event] => s = t
        BY <3>3, <3>9 DEF WelcomeInv
      <3>11. QED
        BY <3>8, <3>9, <3>10 DEF WelcomeInv
    <2>3. QED
      BY <2>1, <2>2
  <1>5. ASSUME NEW x \in BagToSet(tasks), Welcome(x) PROVE WelcomeInv'
    <2> DEFINE v == VendorOf[x.event]
    <2>1. /\ x.at = "welcome" /\ Ends(x) /\ UNCHANGED granted
          /\ welcomed' = [welcomed EXCEPT ![v] = @ + 1] /\ v \in Vendor
      BY <1>5, <1>t DEF Welcome
    <2>2. /\ tasks[x] = 1 /\ v \in granted /\ welcomed[v] = 0
          /\ \A t \in BagToSet(tasks) : t.at = "welcome" /\ VendorOf[t.event] = v => t = x
      BY <2>1 DEF WelcomeInv
    <2> HIDE DEF v
    <2>3. /\ BagToSet(tasks') \subseteq BagToSet(tasks) \ {x}
          /\ \A t \in BagToSet(tasks') : tasks'[t] = tasks[t]
      BY <1>t, <2>1, <2>2, EndTasks
    <2>4. welcomed'[v] = 1 /\ \A w \in Vendor \ {v} : welcomed'[w] = welcomed[w]
      BY <1>t, <2>1, <2>2
    <2>5. \A t \in BagToSet(tasks') : t.at = "welcome" => VendorOf[t.event] \in Vendor \ {v}
      BY <1>t, <2>2, <2>3
    <2>6. \A w \in Vendor : welcomed'[w] <= (IF w \in granted' THEN 1 ELSE 0)
      BY <2>1, <2>2, <2>4 DEF WelcomeInv
    <2>7. \A t \in BagToSet(tasks') : t.at = "welcome" =>
             /\ tasks'[t] = 1
             /\ VendorOf[t.event] \in granted' /\ welcomed'[VendorOf[t.event]] = 0
             /\ \A u \in BagToSet(tasks') :
                   u.at = "welcome" /\ VendorOf[u.event] = VendorOf[t.event] => u = t
      BY <2>1, <2>3, <2>4, <2>5 DEF WelcomeInv
    <2>8. QED
      BY <2>6, <2>7 DEF WelcomeInv
  <1>6. ASSUME NEW x \in BagToSet(tasks), AppendEvidence(x) PROVE WelcomeInv'
    <2>1. PICK u : Becomes(x, u) /\ u # x /\ u.at = "replace"
      BY <1>6, GoesOn DEF AppendEvidence
    <2>2. x.at = "start" /\ UNCHANGED <<granted, welcomed>>
      BY <1>6 DEF AppendEvidence
    <2>3. /\ BagToSet(tasks') \subseteq BagToSet(tasks) \cup {u}
          /\ \A t \in BagToSet(tasks) \ {x, u} : tasks'[t] = tasks[t]
      BY <1>t, <2>1, BecomeTasks
    <2>4. QED
      BY <1>k, <2>1, <2>2, <2>3
  <1>7. ASSUME NEW p \in Pod, Crash(p) PROVE WelcomeInv'
    <2>1. tasks' = [t \in BagToSet(tasks) \ OnPod(p) |-> tasks[t]] /\ UNCHANGED <<granted, welcomed>>
      BY <1>7 DEF Crash
    <2>2. \A t \in BagToSet(tasks') : t \in BagToSet(tasks) /\ tasks'[t] = tasks[t]
      BY <2>1 DEF BagToSet
    <2>3. QED
      BY <1>k, <2>1, <2>2
  <1>8. ASSUME UNCHANGED <<tasks, granted, welcomed>> PROVE WelcomeInv'
    BY <1>8, <1>k
  <1>9. ASSUME NEW p, NEW B,
               Record(p, B) \/ MarkDelivered(p) \/ MarkDeliveredFails(p) \/ Sweep(p)
                 \/ RelayMark(p) \/ RelayMarkFails(p) \/ UNCHANGED vars
        PROVE  UNCHANGED <<tasks, granted, welcomed>>
    BY <1>9 DEF Record, MarkDelivered, MarkDeliveredFails, Sweep, RelayMark, RelayMarkFails, vars
  <1>10. \A p \in Pod : OnPod(p) \subseteq BagToSet(tasks)
    BY DEF OnPod
  <1>11. Producer \subseteq Pod
    BY OutboxAssumption
  <1>12. ASSUME NEW p \in Pod, NEW s \in Event, Observe(p, s) PROVE WelcomeInv'
    BY <1>12, <1>e, EmitQueues DEF Observe
  <1>13. QED
    BY <1>1, <1>2, <1>3, <1>4, <1>5, <1>6, <1>7, <1>8, <1>9, <1>10, <1>11, <1>12
       DEF Next, Publish, Relay, RunOn, Run

\* A vendor's recordings: an append makes the one that has seen all, and its
\* replacement of the beliefs leaves none.
LEMMA BeliefStep ==
  ASSUME TypeOK, PodInv, TaskInv, BeliefInv, [Next]_vars PROVE BeliefInv'
  <1> USE DEF outboxVars, storeVars, ghostVars
  <1> DEFINE Past(t) == t.who = "learn" /\ t.at # "start"
  <1>t. /\ IsABag(tasks) /\ BagToSet(tasks) \subseteq Task
        /\ \A t \in BagToSet(tasks) : t.event \in Event /\ VendorOf[t.event] \in Vendor
        /\ evidence \in Counts /\ belief \in Counts
    BY TaskIs DEF TaskInv, TypeOK
  <1>c. ASSUME NEW v \in Vendor, CutShort(v), lost \subseteq lost' PROVE CutShort(v)'
    BY <1>c DEF CutShort
  <1>l. ASSUME NEW t \in Task, t.who = "learn", <<t.event, t.who>> \in lost' PROVE CutShort(VendorOf[t.event])'
    <2>1. <<t.event, t.who>>[1] = t.event /\ <<t.event, t.who>>[2] = "learn"
      BY <1>l
    <2>2. QED
      BY <1>l, <2>1 DEF CutShort
  <1>v. ASSUME NEW v \in Vendor, UpToDate(v), Learning(v)' = Learning(v),
               \A t \in Learning(v) : tasks'[t] = tasks[t],
               \A e \in Event : VendorOf[e] = v => evidence'[e] = evidence[e] /\ belief'[e] = belief[e]
        PROVE  UpToDate(v)'
    <2>1. \A t \in Learning(v)' :
             /\ tasks'[t] = 1
             /\ \A u \in Learning(v)' : u = t
             /\ \A e \in Event : VendorOf[e] = v => t.seen[e] = evidence'[e]
      BY <1>v DEF UpToDate
    <2>2. Learning(v)' = {} => \A e \in Event : VendorOf[e] = v => belief'[e] = evidence'[e]
      BY <1>v DEF UpToDate
    <2>3. QED
      BY <2>1, <2>2 DEF UpToDate
  \* No promotion past its append comes, and one goes only when it is lost.
  <1>k. ASSUME UNCHANGED <<evidence, belief>>, lost \subseteq lost', crossed \subseteq crossed',
               \A t \in BagToSet(tasks') : Past(t) => t \in BagToSet(tasks),
               \A t \in BagToSet(tasks) : Past(t) =>
                  \/ t \in BagToSet(tasks') /\ tasks'[t] = tasks[t]
                  \/ <<t.event, t.who>> \in lost'
        PROVE  BeliefInv'
    <2>1. SUFFICES ASSUME NEW v \in Vendor, UpToDate(v), ~CutShort(v)'
                   PROVE  UpToDate(v)'
      BY <1>c, <1>k DEF BeliefInv
    <2>2. \A t \in Learning(v) : t \in BagToSet(tasks') /\ tasks'[t] = tasks[t]
      <3>1. SUFFICES ASSUME NEW t \in Learning(v) PROVE <<t.event, t.who>> \notin lost'
        BY <1>k DEF Learning
      <3>2. t \in Task /\ t.who = "learn" /\ VendorOf[t.event] = v
        BY <1>t DEF Learning
      <3>3. QED
        BY <2>1, <3>2, <1>l
    <2>3. Learning(v)' = Learning(v)
      BY <1>k, <2>2 DEF Learning
    <2>4. QED
      BY <1>k, <1>v, <2>1, <2>2, <2>3
  <1>e. ASSUME NEW p \in Pod, NEW e \in Event, NEW W \in SUBSET {"capture", "grant", "learn"},
               Queue(p, e, W), UNCHANGED <<evidence, belief, lost, crossed>>
        PROVE  BeliefInv'
    <2>1. /\ BagToSet(tasks) \subseteq BagToSet(tasks')
          /\ \A t \in BagToSet(tasks') : t \in BagToSet(tasks) \/ t.at = "start"
          /\ \A t \in BagToSet(tasks) : t.at # "start" => tasks'[t] = tasks[t]
      BY <1>e, <1>t, QueueTasks
    <2>2. QED
      BY <1>e, <1>k, <2>1
  <1>f. ASSUME NEW x \in BagToSet(tasks), Ends(x), Past(x) => <<x.event, x.who>> \in lost',
               UNCHANGED <<evidence, belief, crossed>>, lost \subseteq lost'
        PROVE  BeliefInv'
    <2>1. /\ BagToSet(tasks') \subseteq BagToSet(tasks)
          /\ \A t \in BagToSet(tasks) \ {x} : t \in BagToSet(tasks') /\ tasks'[t] = tasks[t]
      BY <1>f, <1>t, EndTasks
    <2>2. QED
      BY <1>f, <1>k, <2>1
  <1>1. ASSUME NEW p \in Pod, Dispatch(p) PROVE BeliefInv'
    <2>1. First(pub[p].left) \in Event
      BY <1>1, FirstIsIn DEF PodInv, PubState, Dispatch
    <2>2. QED
      BY <1>1, <1>e, <2>1, EmitQueues DEF Dispatch
  <1>2. ASSUME NEW p \in Pod, RelayEmit(p) PROVE BeliefInv'
    <2>1. First(relay[p].todo) \in Event
      BY <1>2, FirstIsIn DEF PodInv, RelayState, RelayEmit
    <2>2. QED
      BY <1>2, <1>e, <2>1, EmitQueues DEF RelayEmit
  <1>3. ASSUME NEW x \in BagToSet(tasks), Capture(x) \/ Welcome(x) \/ SubscriberFails(x)
        PROVE  BeliefInv'
    BY <1>3, <1>f DEF Capture, Welcome, SubscriberFails
  <1>4. ASSUME NEW x \in BagToSet(tasks), Grant(x) PROVE BeliefInv'
    <2>1. UNCHANGED <<evidence, belief, lost, crossed>> /\ x.who = "grant" /\ x.at = "start"
      BY <1>4 DEF Grant
    <2>2. CASE Ends(x)
      BY <1>f, <2>1, <2>2
    <2>3. CASE Becomes(x, [x EXCEPT !.at = "welcome"])
      <3>1. PICK u : u = [x EXCEPT !.at = "welcome"] /\ Becomes(x, u) /\ u # x /\ u.who = x.who
        BY <2>1, <2>3, GoesOn
      <3>2. /\ BagToSet(tasks') \subseteq BagToSet(tasks) \cup {u}
            /\ \A t \in BagToSet(tasks) \ {x, u} : t \in BagToSet(tasks') /\ tasks'[t] = tasks[t]
        BY <1>t, <3>1, BecomeTasks
      <3>3. QED
        BY <1>k, <2>1, <3>1, <3>2
    <2>4. QED
      BY <1>4, <2>2, <2>3 DEF Grant
  <1>5. ASSUME NEW x \in BagToSet(tasks), AppendEvidence(x) PROVE BeliefInv'
    <2>1. PICK u : /\ Becomes(x, u) /\ u # x /\ u.at = "replace" /\ u.who = x.who
                   /\ u.event = x.event /\ u.seen = History(x.event)
      BY <1>5, GoesOn DEF AppendEvidence
    <2>2. /\ x.who = "learn" /\ x.at = "start" /\ UNCHANGED <<belief, lost>>
          /\ evidence' = [evidence EXCEPT ![x.event] = @ + 1]
          /\ crossed' = crossed \cup (IF Learning(VendorOf[x.event]) = {} THEN {}
                                      ELSE {VendorOf[x.event]})
      BY <1>5 DEF AppendEvidence
    <2>3. /\ BagToSet(tasks') \subseteq BagToSet(tasks) \cup {u} /\ u \in BagToSet(tasks')
          /\ \A t \in BagToSet(tasks) \ {x, u} : t \in BagToSet(tasks') /\ tasks'[t] = tasks[t]
          /\ u \notin BagToSet(tasks) => tasks'[u] = 1
      BY <1>t, <2>1, BecomeTasks
    <2>4. SUFFICES ASSUME NEW v \in Vendor, v \notin crossed', UpToDate(v)
                   PROVE  UpToDate(v)'
      BY <1>c, <2>2 DEF BeliefInv
    <2>5. CASE v # VendorOf[x.event]
      <3>1. \A t \in Learning(v) : t # x /\ t # u
        BY <2>1, <2>5 DEF Learning
      <3>2. Learning(v)' = Learning(v) /\ \A t \in Learning(v) : tasks'[t] = tasks[t]
        BY <2>1, <2>3, <2>5, <3>1 DEF Learning
      <3>3. \A e \in Event : VendorOf[e] = v => evidence'[e] = evidence[e]
        BY <1>t, <2>2, <2>5 DEF Counts
      <3>4. QED
        BY <1>v, <2>2, <2>4, <3>2, <3>3
    <2>6. CASE v = VendorOf[x.event]
      <3>1. Learning(v) = {}
        BY <2>2, <2>4, <2>6
      <3>2. u \notin BagToSet(tasks)
        BY <2>1, <2>2, <2>6, <3>1 DEF Learning
      <3>3. Learning(v)' = {u}
        BY <2>1, <2>2, <2>3, <2>6, <3>1 DEF Learning
      <3>4. \A e \in Event : VendorOf[e] = v => u.seen[e] = evidence'[e]
        <4>1. \A e \in Event : VendorOf[e] = v =>
                 u.seen[e] = IF e = x.event THEN evidence[e] + 1 ELSE evidence[e]
          BY <2>1, <2>6 DEF History
        <4>2. \A e \in Event : evidence'[e] = IF e = x.event THEN evidence[e] + 1 ELSE evidence[e]
          BY <1>t, <2>2 DEF Counts
        <4>3. QED
          BY <4>1, <4>2
      <3>5. tasks'[u] = 1
        BY <2>3, <3>2
      <3>6. QED
        BY <3>3, <3>4, <3>5 DEF UpToDate
    <2>7. QED
      BY <2>5, <2>6
  <1>6. ASSUME NEW x \in BagToSet(tasks), ReplaceBeliefs(x) PROVE BeliefInv'
    <2>1. /\ x.who = "learn" /\ x.at = "replace" /\ Ends(x)
          /\ UNCHANGED <<evidence, lost, crossed>> /\ belief' = DeriveBeliefs(x)
      BY <1>6 DEF ReplaceBeliefs
    <2>2. /\ BagToSet(tasks') \subseteq BagToSet(tasks)
          /\ \A t \in BagToSet(tasks) \ {x} : t \in BagToSet(tasks') /\ tasks'[t] = tasks[t]
          /\ tasks[x] = 1 => x \notin BagToSet(tasks')
      BY <1>t, <2>1, EndTasks
    <2>3. SUFFICES ASSUME NEW v \in Vendor, UpToDate(v) PROVE UpToDate(v)'
      BY <1>c, <2>1 DEF BeliefInv
    <2>4. \A e \in Event : belief'[e] = IF VendorOf[e] = VendorOf[x.event] THEN x.seen[e] ELSE belief[e]
      BY <2>1 DEF DeriveBeliefs
    <2>5. CASE v # VendorOf[x.event]
      <3>1. x \notin Learning(v)
        BY <2>5 DEF Learning
      <3>2. Learning(v)' = Learning(v) /\ \A t \in Learning(v) : tasks'[t] = tasks[t]
        BY <2>2, <2>5, <3>1 DEF Learning
      <3>3. QED
        BY <1>v, <2>1, <2>3, <2>4, <2>5, <3>2
    <2>6. CASE v = VendorOf[x.event]
      <3>1. x \in Learning(v)
        BY <2>1, <2>6 DEF Learning
      <3>2. /\ tasks[x] = 1 /\ \A u \in Learning(v) : u = x
            /\ \A e \in Event : VendorOf[e] = v => x.seen[e] = evidence[e]
        BY <2>3, <3>1 DEF UpToDate
      <3>3. Learning(v)' = {}
        BY <2>2, <3>2 DEF Learning
      <3>4. \A e \in Event : VendorOf[e] = v => belief'[e] = evidence'[e]
        BY <2>1, <2>4, <2>6, <3>2
      <3>5. QED
        BY <3>3, <3>4 DEF UpToDate
    <2>7. QED
      BY <2>5, <2>6
  <1>7. ASSUME NEW p \in Pod, Crash(p) PROVE BeliefInv'
    <2>1. /\ tasks' = [t \in BagToSet(tasks) \ OnPod(p) |-> tasks[t]]
          /\ lost' = lost \cup {<<t.event, t.who>> : t \in OnPod(p)}
          /\ UNCHANGED <<evidence, belief, crossed>>
      BY <1>7 DEF Crash
    <2>2. BagToSet(tasks') = BagToSet(tasks) \ OnPod(p)
      BY <2>1 DEF BagToSet
    <2>3. QED
      BY <1>k, <2>1, <2>2
  <1>8. ASSUME UNCHANGED <<tasks, evidence, belief, lost, crossed>> PROVE BeliefInv'
    BY <1>8, <1>k
  <1>9. ASSUME NEW p, NEW B,
               Record(p, B) \/ MarkDelivered(p) \/ MarkDeliveredFails(p) \/ Sweep(p)
                 \/ RelayMark(p) \/ RelayMarkFails(p) \/ UNCHANGED vars
        PROVE  UNCHANGED <<tasks, evidence, belief, lost, crossed>>
    BY <1>9 DEF Record, MarkDelivered, MarkDeliveredFails, Sweep, RelayMark, RelayMarkFails, vars
  <1>10. \A p \in Pod : OnPod(p) \subseteq BagToSet(tasks)
    BY DEF OnPod
  <1>11. Producer \subseteq Pod
    BY OutboxAssumption
  <1>12. ASSUME NEW p \in Pod, NEW s \in Event, Observe(p, s) PROVE BeliefInv'
    BY <1>12, <1>e, EmitQueues DEF Observe
  <1>13. QED
    BY <1>1, <1>2, <1>3, <1>4, <1>5, <1>6, <1>7, <1>8, <1>9, <1>10, <1>11, <1>12
       DEF Next, Publish, Relay, RunOn, Run

LEMMA InitIInv == Init => IInv
  <1>1. SUFFICES ASSUME Init PROVE IInv
    OBVIOUS
  <1>2. NoCounts \in Counts /\ \A e \in Event : NoCounts[e] = 0
    BY DEF NoCounts, Counts
  <1>3. BagToSet(tasks) = {} /\ IsABag(tasks)
    BY <1>1 DEF Init, EmptyBag, BagToSet, SetToBag, IsABag
  <1>4. TypeOK
    <2>1. 0 \in 0..MaxFaults
      BY OutboxAssumption
    <2>2. \A p \in Pod : pub[p] = IdlePub /\ relay[p] = IdleRelay
      BY <1>1 DEF Init
    <2>3. \A p \in Pod : /\ pub[p].at \in {"idle", "dispatch"}
                         /\ pub[p].left \cup pub[p].sent \subseteq Event
                         /\ relay[p].at \in {"idle", "emit", "mark"}
                         /\ relay[p].todo \subseteq Event
                         /\ relay[p].cur \in Event \cup {None}
                         /\ relay[p].read \in Counts
      BY <1>2, <2>2 DEF IdlePub, IdleRelay
    <2>4. /\ row \in [Event -> {"none", "unpublished", "published"}] /\ attempts \in Counts
          /\ welcomed \in [Vendor -> Nat] /\ evidence \in Counts /\ belief \in Counts
          /\ captured = {} /\ granted = {} /\ lost = {} /\ crossed = {} /\ faults = 0
      BY <1>1, <1>2 DEF Init
    <2>5. QED
      BY <1>3, <2>1, <2>3, <2>4 DEF TypeOK
  <1>5. PodInv
    BY <1>1, <1>2 DEF Init, PodInv, PubState, RelayState, IdlePub, IdleRelay
  <1>6. TaskInv
    BY <1>3 DEF TaskInv
  <1>7. ServedInv
    BY <1>1 DEF Init, ServedInv, IdlePub, IdleRelay
  <1>8. WelcomeInv
    BY <1>1, <1>3 DEF Init, WelcomeInv
  <1>9. BeliefInv
    <2>1. \A v \in Vendor : Learning(v) = {}
      BY <1>3 DEF Learning
    <2>2. \A v \in Vendor : UpToDate(v)
      BY <1>1, <1>2, <2>1 DEF Init, UpToDate
    <2>3. QED
      BY <2>2 DEF BeliefInv
  <1>10. QED
    BY <1>4, <1>5, <1>6, <1>7, <1>8, <1>9 DEF IInv

\* Every reachable state satisfies the invariant, whatever the events, the
\* batches, the pods and the faults.
THEOREM Invariance == Spec => []IInv
  <1>1. IInv /\ [Next]_vars => IInv'
    BY PodStep, TaskStep, TypeStep, ServedStep, WelcomeStep, BeliefStep DEF IInv
  <1>2. QED
    BY InitIInv, <1>1, PTL DEF Spec

\* Rows, publisher calls, sweeps, tasks and stores keep their types.
THEOREM TypeCorrect == Spec => []TypeOK
  <1>1. IInv => TypeOK
    BY DEF IInv
  <1>2. QED
    BY Invariance, <1>1, PTL

\* An event that is marked published has a subscriber of each kind queued,
\* running, done or lost: neither publishAll nor the relay marks what no bus
\* has carried (outbox-event-publisher.ts, outbox-relay.service.ts).
THEOREM PublishedReachesSubscribers == Spec => []PublishedIsServed
  <1>1. IInv => PublishedIsServed
    BY DEF IInv, ServedInv, Served, Reached, PublishedIsServed
  <1>2. QED
    BY Invariance, <1>1, PTL

\* The ledger's unique onboarding reference makes the welcome unique too,
\* however often the event is delivered and to however many pods.
THEOREM OneWelcome == Spec => []WelcomedOnce
  <1>1. IInv => WelcomedOnce
    BY DEF IInv, WelcomeInv, WelcomedOnce
  <1>2. QED
    BY Invariance, <1>1, PTL

\* Beliefs that miss or double an evidence row are of a vendor two of whose
\* recordings overlapped, promotions or statements alike, or one of whose was cut
\* short: one recordEvidence after another, run to its end, leaves the view equal
\* to the evidence.
THEOREM BeliefsFollowEvidence == Spec => []BeliefsExplained
  <1>1. IInv => BeliefsExplained
    <2>1. SUFFICES ASSUME BeliefInv, NEW e \in Event, Learning(VendorOf[e]) = {},
                          VendorOf[e] \notin crossed, ~CutShort(VendorOf[e])
                   PROVE  belief[e] = evidence[e]
      BY DEF IInv, BeliefsExplained, CutShort
    <2>2. VendorOf[e] \in Vendor
      BY OutboxAssumption
    <2>3. QED
      BY <2>1, <2>2 DEF BeliefInv, UpToDate
  <1>2. QED
    BY Invariance, <1>1, PTL
-----------------------------------------------------------------------------
(* The wallet repository. *)

\* The row lock and the sessions inside a transaction are two views of one
\* fact: a session is past SELECT ... FOR UPDATE exactly while it owns the row.
LockInv ==
    /\ \A s \in Session : pc[s] = "locked" => rowLock[WalletOf[ref[s]]] = s
    /\ \A w \in Wallet : \A s \in Session :
          rowLock[w] = s => pc[s] = "locked" /\ WalletOf[ref[s]] = w

\* What a session read under the lock is still the balance.
FreshRead ==
    \A s \in Session : pc[s] = "locked" => seen[s] = balance[WalletOf[ref[s]]]

\* A pending 'applied' answer is the only one for its reference.
AnswerInv ==
    /\ \A s \in Session : pc[s] # "answer" => answer[s] = "none"
    /\ \A s, t \in Session :
          (answer[s] = "applied" /\ answer[t] = "applied" /\ ref[s] = ref[t]) => s = t

\* The inductive invariant of the repository.
WalletInv ==
    /\ WalletTypeOK
    /\ LockInv
    /\ FreshRead
    /\ AnswerInv
    /\ BalanceNeverNegative
    /\ AppliedReturnedOnce

\* Every initial state satisfies the inductive invariant.
LEMMA WalletInitInv == WalletInit => WalletInv
  <1> SUFFICES ASSUME WalletInit PROVE WalletInv
    OBVIOUS
  <1> USE WalletLedgerAssumption DEF WalletInit
  <1>1. WalletTypeOK
    <2>1. (CHOOSE r \in Ref : TRUE) \in Ref
      OBVIOUS
    <2>2. QED
      BY <2>1 DEF WalletTypeOK, Outcomes
  <1>2. LockInv /\ FreshRead /\ AnswerInv /\ BalanceNeverNegative
        /\ AppliedReturnedOnce
    BY DEF LockInv, FreshRead, AnswerInv, BalanceNeverNegative,
           AppliedReturnedOnce
  <1>3. QED
    BY <1>1, <1>2 DEF WalletInv

\* Under the inductive invariant a commit is one step of the abstract ledger:
\* the reference was not posted and the balance stays at or above zero.
LEMMA CommitIsPost ==
  ASSUME WalletInv, NEW s \in Session, CommitRow(s)
  PROVE  /\ rows[ref[s]] = 0
         /\ balance[WalletOf[ref[s]]] + Amount[ref[s]] >= 0
  <1>1. seen[s] = balance[WalletOf[ref[s]]] /\ seen[s] >= 0
    BY WalletLedgerAssumption DEF WalletInv, FreshRead, CommitRow,
       BalanceNeverNegative, WalletTypeOK
  <1>2. ~(Amount[ref[s]] < 0 /\ seen[s] < -Amount[ref[s]]) /\ rows[ref[s]] = 0
    BY DEF CommitRow, Short
  <1>3. Amount[ref[s]] \in Int /\ seen[s] \in Int
    BY WalletLedgerAssumption DEF WalletInv, WalletTypeOK
  <1>4. QED
    BY <1>1, <1>2, <1>3

\* Every step, a stuttering one included, preserves the inductive invariant.
LEMMA WalletStepInv == WalletInv /\ [WalletNext]_walletVars => WalletInv'
  <1> SUFFICES ASSUME WalletInv, [WalletNext]_walletVars PROVE WalletInv'
    OBVIOUS
  <1> USE WalletLedgerAssumption
  <1>t. WalletTypeOK /\ LockInv /\ FreshRead /\ AnswerInv /\ BalanceNeverNegative
        /\ AppliedReturnedOnce
    BY DEF WalletInv
  <1>1. ASSUME NEW s \in Session, NEW r \in Ref, Begin(s, r) PROVE WalletInv'
    <2> USE <1>1, <1>t DEF Begin, WalletTypeOK, Outcomes
    <2>1. WalletTypeOK'
      OBVIOUS
    <2>2. LockInv' /\ FreshRead'
      BY DEF LockInv, FreshRead
    <2>3. AnswerInv' /\ AppliedReturnedOnce'
      BY DEF AnswerInv, AppliedReturnedOnce
    <2>4. BalanceNeverNegative'
      BY DEF BalanceNeverNegative
    <2>5. QED
      BY <2>1, <2>2, <2>3, <2>4 DEF WalletInv
  <1>2. ASSUME NEW s \in Session, LockWallet(s) PROVE WalletInv'
    <2> USE <1>2, <1>t DEF LockWallet, WalletUsed, WalletTypeOK, Outcomes
    <2>1. WalletTypeOK'
      OBVIOUS
    <2>2. LockInv'
      BY DEF LockInv
    <2>3. FreshRead'
      BY DEF LockInv, FreshRead
    <2>4. AnswerInv' /\ AppliedReturnedOnce' /\ BalanceNeverNegative'
      BY DEF AnswerInv, AppliedReturnedOnce, BalanceNeverNegative
    <2>5. QED
      BY <2>1, <2>2, <2>3, <2>4 DEF WalletInv
  <1>3. ASSUME NEW s \in Session,
        RefuseShort(s) \/ RejectDuplicate(s) PROVE WalletInv'
    <2> PICK o \in {"insufficient", "duplicate"} :
          pc[s] = "locked" /\ Finish(s, o) /\ UNCHANGED <<balance, rows>>
      BY <1>3 DEF RefuseShort, RejectDuplicate
    <2> USE <1>t DEF Finish, WalletUsed, WalletTypeOK, Outcomes
    <2>1. WalletTypeOK'
      OBVIOUS
    <2>2. LockInv' /\ FreshRead'
      BY DEF LockInv, FreshRead
    <2>3. AnswerInv' /\ AppliedReturnedOnce' /\ BalanceNeverNegative'
      BY DEF AnswerInv, AppliedReturnedOnce, BalanceNeverNegative
    <2>4. QED
      BY <2>1, <2>2, <2>3 DEF WalletInv
  <1>4. ASSUME NEW s \in Session, CommitRow(s) PROVE WalletInv'
    <2>0. rows[ref[s]] = 0 /\ balance[WalletOf[ref[s]]] + Amount[ref[s]] >= 0
      BY <1>4, CommitIsPost
    <2> USE <1>4, <1>t, <2>0 DEF CommitRow, Finish, WalletUsed, WalletTypeOK,
            Outcomes
    <2>1. WalletTypeOK'
      OBVIOUS
    <2>2. LockInv'
      BY DEF LockInv
    <2>3. FreshRead'
      BY DEF LockInv, FreshRead
    <2>4. AnswerInv'
      BY DEF AnswerInv, AppliedReturnedOnce
    <2>5. AppliedReturnedOnce'
      BY DEF AnswerInv, AppliedReturnedOnce
    <2>6. BalanceNeverNegative'
      BY DEF BalanceNeverNegative
    <2>7. QED
      BY <2>1, <2>2, <2>3, <2>4, <2>5, <2>6 DEF WalletInv
  <1>5. ASSUME NEW s \in Session, Answer(s) PROVE WalletInv'
    <2> USE <1>5, <1>t DEF Answer, WalletTypeOK, Outcomes
    <2>1. WalletTypeOK'
      OBVIOUS
    <2>2. LockInv' /\ FreshRead'
      BY DEF LockInv, FreshRead
    <2>3. AnswerInv' /\ BalanceNeverNegative'
      BY DEF AnswerInv, BalanceNeverNegative
    <2>4. AppliedReturnedOnce'
      BY DEF AnswerInv, AppliedReturnedOnce
    <2>5. QED
      BY <2>1, <2>2, <2>3, <2>4 DEF WalletInv
  <1>6. ASSUME NEW s \in Session, Abort(s) PROVE WalletInv'
    <2> USE <1>6, <1>t DEF Abort, WalletTypeOK, Outcomes
    <2>1. WalletTypeOK'
      OBVIOUS
    <2>2. LockInv' /\ FreshRead'
      BY DEF LockInv, FreshRead
    <2>3. AnswerInv' /\ AppliedReturnedOnce' /\ BalanceNeverNegative'
      BY DEF AnswerInv, AppliedReturnedOnce, BalanceNeverNegative
    <2>4. QED
      BY <2>1, <2>2, <2>3 DEF WalletInv
  <1>7. CASE UNCHANGED walletVars
    BY <1>7, <1>t DEF walletVars, WalletInv, WalletTypeOK, LockInv, FreshRead, AnswerInv,
       BalanceNeverNegative, AppliedReturnedOnce
  <1>8. QED
    BY <1>1, <1>2, <1>3, <1>4, <1>5, <1>6, <1>7 DEF WalletNext, Step

\* The inductive invariant of the repository holds in every behaviour.
THEOREM WalletInvariance == WalletSpec => []WalletInv
  BY WalletInitInv, WalletStepInv, PTL DEF WalletSpec

\* Type correctness, and the unique index's promise that a reference has at
\* most one ledger row.
THEOREM WalletTypeCorrect == WalletSpec => []WalletTypeOK
  BY WalletInvariance, PTL DEF WalletInv

\* No interleaving, crash or retry takes any wallet below zero.
THEOREM NeverNegative == WalletSpec => []BalanceNeverNegative
  BY WalletInvariance, PTL DEF WalletInv

\* A reference's money is announced to the caller at most once.
THEOREM ReturnedOnce == WalletSpec => []AppliedReturnedOnce
  BY WalletInvariance, PTL DEF WalletInv

\* A refusal is true when it is given, not when the balance was last looked at.
THEOREM RefusalCurrent == WalletSpec => RefusalIsCurrent
  <1>1. WalletInv /\ [WalletNext]_walletVars =>
          [\A s \in Session :
             (answer[s] = "none" /\ answer'[s] = "insufficient")
                => balance[WalletUsed(s)] + Amount[ref[s]] < 0]_walletVars
    <2> SUFFICES ASSUME WalletInv, [WalletNext]_walletVars, NEW s \in Session,
                        answer[s] = "none", answer'[s] = "insufficient"
                 PROVE  balance[WalletUsed(s)] + Amount[ref[s]] < 0
      OBVIOUS
    <2>1. RefuseShort(s)
      BY DEF WalletNext, Step, Begin, LockWallet, RefuseShort,
             RejectDuplicate, CommitRow,
             Answer, Abort, Finish, WalletInv, WalletTypeOK, walletVars
    <2>2. seen[s] = balance[WalletOf[ref[s]]] /\ Amount[ref[s]] \in Int /\ seen[s] \in Int
      BY <2>1, WalletLedgerAssumption DEF RefuseShort, WalletInv, FreshRead,
         WalletTypeOK
    <2>3. QED
      BY <2>1, <2>2 DEF RefuseShort, Short, WalletUsed
  <1>2. QED
    BY <1>1, WalletInvariance, PTL DEF WalletSpec, RefusalIsCurrent

\* Initial states are initial states of the abstract ledger.
LEMMA WalletInitRefines == WalletInit => Promise!LedgerInit
  BY DEF WalletInit, Promise!LedgerInit

\* Every step is one abstract post, or leaves balance and postings alone.
LEMMA WalletStepRefines == WalletInv /\ [WalletNext]_walletVars
     => [Promise!LedgerNext]_Promise!ledgerVars
  <1> SUFFICES ASSUME WalletInv, [WalletNext]_walletVars
               PROVE  [Promise!LedgerNext]_Promise!ledgerVars
    OBVIOUS
  <1>1. ASSUME NEW s \in Session, CommitRow(s) PROVE Promise!LedgerNext
    <2>1. ref[s] \in Ref
      BY DEF WalletInv, WalletTypeOK
    <2>2. rows[ref[s]] = 0 /\ balance[WalletOf[ref[s]]] + Amount[ref[s]] >= 0
      BY <1>1, CommitIsPost
    <2>3. {r \in Ref : rows'[r] > 0} = {r \in Ref : rows[r] > 0} \cup {ref[s]}
      BY <1>1, <2>1, <2>2 DEF CommitRow, WalletInv, WalletTypeOK
    <2>4. Promise!Post(ref[s])
      BY <1>1, <2>1, <2>2, <2>3 DEF Promise!Post, CommitRow, WalletUsed
    <2>5. QED
      BY <2>1, <2>4 DEF Promise!LedgerNext, Promise!Post
  <1>2. CASE UNCHANGED <<balance, rows>>
    BY <1>2 DEF Promise!ledgerVars
  <1>3. (\E s \in Session : CommitRow(s)) \/ UNCHANGED <<balance, rows>>
    BY DEF WalletNext, Step, Begin, LockWallet, RefuseShort,
           RejectDuplicate, Answer, Abort,
           Finish, walletVars
  <1>4. QED
    BY <1>1, <1>2, <1>3

\* The repository implements the ledger its port promises.
THEOREM WalletRefinement == WalletSpec => ImplementsLedger
  BY WalletInitRefines, WalletStepRefines, WalletInvariance, PTL
     DEF WalletSpec, ImplementsLedger, Promise!LedgerSpec
=============================================================================
