----------------------- MODULE ConversationTurnProofs -----------------------
(***************************************************************************)
(* For any messages, conversations, number of runs and faults: two turns   *)
(* meet in a conversation only when a lease ran out, a turn starts only    *)
(* with every media part settled, and a message gets one turn and one more *)
(* for each thing that went wrong with it.                                 *)
(*                                                                         *)
(* The last is a count of what may still become a turn: the runs past the  *)
(* tracker, and of the executions of media jobs to come those the tracker  *)
(* does not need.  An execution that settles a new part makes up for it by *)
(* one part missing less; the one that finds no part missing goes on.      *)
(*                                                                         *)
(* The last part is about VendorOnboarding, the workflow that a seller's   *)
(* turns run, for any statements and bounds: a profile is only created     *)
(* from a row that has everything and whose capability discovery has had,  *)
(* a listing is announced once, and no turn takes more than two steps.     *)
(***************************************************************************)
EXTENDS ConversationTurn, VendorOnboarding, FiniteSetTheorems, TLAPS

\* A run holds the lock of its turn until the lease runs out.
LockInv ==
    /\ \A w \in Worker : pc[w] \in InTurn /\ w \notin lapsed => holder[Lock(w)] = w
    /\ \A w \in lapsed : pc[w] \in InTurn

\* Past the tracker, or with no part to wait for.
Past == InTurn \cup {"check", "acquire", "busy", "mark", "clear"}

\* A job's run is on a part of its message, which it has done before it
\* settles it; what is settled is done, and all is done past the tracker.
RunInv ==
    /\ \A w \in Worker :
          /\ pc[w] \in {"media", "settle", "check", "clear"} => part[w] # NoPart
          /\ part[w] # NoPart => part[w] \in Parts[on[w]]
          /\ pc[w] = "settle" => Task(w) \in done
          /\ pc[w] \in Past => \A i \in Parts[on[w]] : <<on[w], i>> \in done
    /\ \A m \in Message : settled[m] \subseteq {i \in Parts[m] : <<m, i>> \in done}

\* Executions to come of the media jobs of m, and the parts the tracker lacks.
Queue(m) == {i \in Parts[m] : job[<<m, i>>] \in {"none", "queued"}}
Runs(m) == {w \in Worker : pc[w] \in {"media", "settle"} /\ on[w] = m}
Missing(m) == Parts[m] \ settled[m]
Pending(m) == Cardinality(Queue(m)) + Cardinality(Runs(m))

\* How often e more executions can find the tracker full when it lacks d parts.
Left(e, d) == IF d = 0 THEN e ELSE IF e >= d THEN e - d + 1 ELSE 0

\* What may yet enter the turn of m, and the runs about to take it.
Spare(m) == IF Parts[m] = {} THEN (IF m \in stored THEN 0 ELSE 1)
            ELSE Left(Pending(m), Cardinality(Missing(m)))
Entrants(m) == {w \in Worker : pc[w] \in {"check", "acquire", "turn"} /\ on[w] = m}

Taken(m) == turns[m] + Cardinality(Entrants(m)) + Spare(m)

CountInv == \A m \in Message : Taken(m) <= 1 + disturbed[m]

\* A message is disturbed no more often than there was trouble.
TroubleInv == \A m \in Message : disturbed[m] <= trouble

IInv == TypeOK /\ TroubleInv /\ LockInv /\ RunInv /\ CountInv

\* The places a run can be at.
Place == InTurn \cup {"idle", "store", "enqueue", "media", "settle",
                      "check", "acquire", "busy", "mark", "clear"}

\* What TypeOK says of the runs.
RunsOK == /\ pc \in [Worker -> Place]
          /\ on \in [Worker -> Message]
          /\ part \in [Worker -> AllParts \cup {NoPart}]

\* A free run is of some message and no part.
LEMMA AnyMessageIs == AnyMessage \in Message
  BY TurnAssumption DEF AnyMessage

\* A part is no zero, belongs to all parts, and makes a job of its message.
LEMMA PartIs ==
  ASSUME NEW m \in Message, NEW i \in Parts[m]
  PROVE  i # NoPart /\ i \in AllParts /\ <<m, i>> \in Jobs /\ i \in Nat
  <1>1. Parts[m] \subseteq Nat \ {0}
    BY TurnAssumption
  <1>2. i \in AllParts
    BY DEF AllParts
  <1>3. <<m, i>> \in Jobs
    BY <1>2 DEF Jobs
  <1>4. QED
    BY <1>1, <1>2, <1>3 DEF NoPart

\* And a job is of a part of its message.
LEMMA JobIs ==
  ASSUME NEW j \in Jobs
  PROVE  j[1] \in Message /\ j[2] \in Parts[j[1]] /\ <<j[1], j[2]>> = j
  BY DEF Jobs

\* Runs keep their types however they move.
LEMMA MoveTypes ==
  ASSUME RunsOK, NEW w \in Worker
  PROVE  /\ \A l \in Place : Goto(w, l) => RunsOK'
         /\ Stop(w) => RunsOK'
         /\ \A m \in Message, i \in AllParts \cup {NoPart}, l \in Place : Start(w, m, i,
            l) => RunsOK'
         /\ Wrap(w) => RunsOK'
  <1>1. \A m \in Message, i \in AllParts \cup {NoPart}, l \in Place : Start(w, m, i, l)
        => RunsOK'
    BY DEF Start, RunsOK
  <1>2. Stop(w) => RunsOK'
    BY <1>1, AnyMessageIs DEF Stop, Place
  <1>3. \A l \in Place : Goto(w, l) => RunsOK'
    BY DEF Goto, RunsOK
  <1>4. QED
    BY <1>1, <1>2, <1>3 DEF Wrap, Place

\* A job's run is on a job.
LEMMA TaskIs ==
  ASSUME TypeOK, RunInv, NEW w \in Worker, part[w] # NoPart
  PROVE  Task(w) \in Jobs /\ part[w] \in Parts[on[w]] /\ on[w] \in Message
  BY PartIs DEF TypeOK, RunInv, Task

\* What TypeOK says of the queue and of the disturbances.
QueueOK == /\ job \in [Jobs -> {"none", "queued", "active", "finished"}]
           /\ tries \in [Jobs -> 0..MaxTries - 1]
TroubleOK == trouble \in 0..MaxTrouble /\ disturbed \in [Message -> 0..MaxTrouble]
   /\ TroubleInv

\* A disturbance is counted within its bound.
LEMMA DisturbTypes == ASSUME TroubleOK, NEW m \in Message, Disturb(m) PROVE TroubleOK'
  <1>1. trouble < MaxTrouble /\ trouble' = trouble + 1
        /\ disturbed' = [disturbed EXCEPT ![m] = @ + 1]
    BY DEF Disturb
  <1>2. trouble' \in 0..MaxTrouble
    BY <1>1, TurnAssumption DEF TroubleOK
  <1>3. \A n \in Message : disturbed'[n] \in 0..MaxTrouble /\ disturbed'[n] <= trouble'
    BY <1>1, TurnAssumption DEF TroubleOK, TroubleInv
  <1>4. disturbed' \in [Message -> 0..MaxTrouble]
    BY <1>1, <1>3 DEF TroubleOK
  <1>5. QED
    BY <1>2, <1>3, <1>4 DEF TroubleOK, TroubleInv

\* What a job's run does to its job keeps the types.
LEMMA QueueTypes ==
  ASSUME QueueOK, NEW w \in Worker, Task(w) \in Jobs
  PROVE  /\ Retry(w) => QueueOK'
         /\ FinishJob(w) /\ tries' = tries => QueueOK'
  <1>1. ASSUME Retry(w) PROVE QueueOK'
    <2>1. tries[Task(w)] + 1 \in 0..MaxTries - 1
      BY <1>1, TurnAssumption DEF Retry, QueueOK
    <2>2. QED
      BY <1>1, <2>1 DEF Retry, QueueOK
  <1>2. ASSUME FinishJob(w), tries' = tries PROVE QueueOK'
    BY <1>2 DEF FinishJob, QueueOK
  <1>3. QED
    BY <1>1, <1>2

\* Types survive every step.
LEMMA TypeStep ==
  ASSUME TypeOK, TroubleInv, RunInv, [Next]_vars PROVE TypeOK' /\ TroubleInv'
  <1> DEFINE RestOK == /\ webhooks \in 0..MaxWebhooks /\ stored \subseteq Message
                       /\ done \subseteq Jobs /\ settled \in [Message -> SUBSET AllParts]
                       /\ holder \in [Conv -> Worker \cup {NoOne, Dead}]
                       /\ processed \subseteq Message /\ lapsed \subseteq Worker
                       /\ turns \in [Message -> Nat] /\ told \subseteq Message
  <1>0. RunsOK /\ QueueOK /\ TroubleOK /\ RestOK
    BY DEF TypeOK, RunsOK, QueueOK, TroubleOK, Place
  <1>1. SUFFICES RunsOK' /\ QueueOK' /\ TroubleOK' /\ RestOK'
    BY DEF TypeOK, RunsOK, QueueOK, TroubleOK, Place
  <1>l. \A w \in Worker : Lock(w) \in Conv /\ on[w] \in Message
    BY <1>0, TurnAssumption DEF RunsOK, Lock
  <1> USE DEF storeVars, queueVars, runVars, lockVars, replyVars, troubleVars
  <1>j. UNCHANGED <<job, tries>> => QueueOK'
    BY <1>0 DEF QueueOK
  <1>t. UNCHANGED troubleVars => TroubleOK'
    BY <1>0 DEF TroubleOK, TroubleInv
  <1>r. UNCHANGED runVars => RunsOK'
    BY <1>0 DEF RunsOK
  <1>2. ASSUME NEW w \in Worker, NEW m \in Message, Receive(w, m)
        PROVE  RunsOK' /\ QueueOK' /\ TroubleOK' /\ RestOK'
    <2>1. RunsOK'
      BY <1>0, <1>2, MoveTypes DEF Receive, Place
    <2>2. RestOK'
      BY <1>0, <1>2, TurnAssumption DEF Receive
    <2>3. QED
      BY <1>2, <1>j, <1>t, <2>1, <2>2 DEF Receive
  <1>3. ASSUME NEW w \in Worker, NEW j \in Jobs, StartJob(w, j[1], j[2])
        PROVE  RunsOK' /\ QueueOK' /\ TroubleOK' /\ RestOK'
    <2>1. j[1] \in Message /\ j[2] \in AllParts \cup {NoPart} /\ <<j[1], j[2]>> \in Jobs
      BY PartIs, JobIs
    <2>2. RunsOK'
      BY <1>0, <1>3, <2>1, MoveTypes DEF StartJob, Place
    <2>3. QueueOK'
      BY <1>0, <1>3, <2>1 DEF StartJob, QueueOK
    <2>4. RestOK' /\ TroubleOK'
      BY <1>0, <1>3, <1>t DEF StartJob
    <2>5. QED
      BY <2>2, <2>3, <2>4
  <1>4. ASSUME NEW w \in Worker, Store(w)
        PROVE  RunsOK' /\ QueueOK' /\ TroubleOK' /\ RestOK'
    <2>1. RunsOK'
      BY <1>0, <1>4, MoveTypes DEF Store, Place
    <2>2. RestOK'
      BY <1>0, <1>4, <1>l DEF Store
    <2>3. QED
      BY <1>4, <1>j, <1>t, <2>1, <2>2 DEF Store
  <1>5. ASSUME NEW w \in Worker, Enqueue(w)
        PROVE  RunsOK' /\ QueueOK' /\ TroubleOK' /\ RestOK'
    <2>1. RunsOK'
      BY <1>0, <1>5, <1>r, MoveTypes DEF Enqueue
    <2>2. QueueOK'
      <3>1. \A i \in Parts[on[w]] : <<on[w], i>> \in Jobs
        BY <1>l, PartIs
      <3>2. UNCHANGED job \/ \E i \in Parts[on[w]] : job' = [job EXCEPT ![<<on[w],
            i>>] = "queued"]
        BY <1>5 DEF Enqueue
      <3>3. QED
        BY <1>0, <1>5, <3>1, <3>2 DEF Enqueue, QueueOK
    <2>3. RestOK' /\ TroubleOK'
      BY <1>0, <1>5, <1>t DEF Enqueue
    <2>4. QED
      BY <2>1, <2>2, <2>3
  <1>6. ASSUME NEW w \in Worker, Process(w)
        PROVE  RunsOK' /\ QueueOK' /\ TroubleOK' /\ RestOK'
    <2>1. Task(w) \in Jobs
      BY <1>6, TaskIs DEF Process, RunInv
    <2>2. RunsOK'
      BY <1>0, <1>6, MoveTypes DEF Process, Place
    <2>3. QueueOK'
      BY <1>0, <1>6, <1>j, <2>1, QueueTypes DEF Process
    <2>4. RestOK' /\ TroubleOK'
      BY <1>0, <1>6, <1>t, <2>1 DEF Process
    <2>5. QED
      BY <2>2, <2>3, <2>4
  <1>7. ASSUME NEW w \in Worker, MarkSettled(w) \/ Clear(w)
        PROVE  RunsOK' /\ QueueOK' /\ TroubleOK' /\ RestOK'
    <2>1. Task(w) \in Jobs /\ part[w] \in AllParts
      BY <1>7, TaskIs, PartIs DEF MarkSettled, Clear, RunInv
    <2>2. RunsOK'
      BY <1>0, <1>7, MoveTypes DEF MarkSettled, Clear, Place
    <2>3. QueueOK'
      BY <1>0, <1>7, <1>j, <2>1, QueueTypes DEF MarkSettled, Clear
    <2>4. RestOK' /\ TroubleOK'
      BY <1>0, <1>7, <1>l, <1>t, <2>1 DEF MarkSettled, Clear
    <2>5. QED
      BY <2>2, <2>3, <2>4
  <1>8. ASSUME NEW w \in Worker,
               CheckProcessed(w) \/ GiveUp(w) \/ TellBusy(w) \/ MarkProcessed(w)
        PROVE  RunsOK' /\ QueueOK' /\ TroubleOK' /\ RestOK'
    <2>1. RunsOK'
      BY <1>0, <1>8, MoveTypes DEF CheckProcessed, GiveUp, TellBusy, MarkProcessed, Place
    <2>2. RestOK'
      BY <1>0, <1>8, <1>l DEF CheckProcessed, GiveUp, TellBusy, MarkProcessed
    <2>3. QED
      BY <1>8, <1>j, <1>t, <2>1, <2>2 DEF CheckProcessed, GiveUp, TellBusy, MarkProcessed
  <1>9. ASSUME NEW w \in Worker, Acquire(w) \/ Reply(w) \/ Release(w)
        PROVE  RunsOK' /\ QueueOK' /\ TroubleOK' /\ RestOK'
    <2>1. RunsOK'
      BY <1>0, <1>9, MoveTypes DEF Acquire, Reply, Release, Place, InTurn
    <2>2. RestOK'
      BY <1>0, <1>9, <1>l DEF Acquire, Reply, Release, Free
    <2>3. QED
      BY <1>9, <1>j, <1>t, <2>1, <2>2 DEF Acquire, Reply, Release
  <1>10. ASSUME NEW w \in Worker, Lapse(w)
         PROVE  RunsOK' /\ QueueOK' /\ TroubleOK' /\ RestOK'
    BY <1>0, <1>10, <1>l, <1>j, <1>r, DisturbTypes DEF Lapse
  <1>11. ASSUME NEW w \in Worker, Throw(w) \/ SettleThrows(w) \/ Crash(w)
         PROVE  RunsOK' /\ QueueOK' /\ TroubleOK' /\ RestOK'
    <2>1. RunsOK'
      BY <1>0, <1>11, MoveTypes DEF Throw, SettleThrows, Crash
    <2>2. QueueOK'
      <3>1. CASE part[w] = NoPart
        <4>1. UNCHANGED <<job, tries>>
          BY <1>11, <3>1 DEF Throw, SettleThrows, Crash, RunInv
        <4>2. QED
          BY <4>1, <1>j
      <3>2. CASE part[w] # NoPart
        <4>1. Task(w) \in Jobs
          BY <3>2, TaskIs
        <4>2. CASE Retry(w) \/ (FinishJob(w) /\ tries' = tries)
          BY <1>0, <4>1, <4>2, QueueTypes
        <4>3. CASE Crash(w)
          BY <1>0, <3>2, <4>1, <4>3 DEF Crash, QueueOK
        <4>4. QED
          BY <1>11, <3>2, <4>2, <4>3 DEF Throw, SettleThrows
      <3>3. QED
        BY <3>1, <3>2
    <2>3. RestOK'
      BY <1>0, <1>11, <1>l DEF Throw, SettleThrows, Crash, Free
    <2>4. TroubleOK'
      BY <1>0, <1>11, <1>l, DisturbTypes DEF Throw, SettleThrows, Crash
    <2>5. QED
      BY <2>1, <2>2, <2>3, <2>4
  <1>12. ASSUME NEW j \in Jobs, Stall(j[1], j[2])
         PROVE  RunsOK' /\ QueueOK' /\ TroubleOK' /\ RestOK'
    <2>1. j[1] \in Message /\ <<j[1], j[2]>> \in Jobs
      BY JobIs
    <2>2. QueueOK'
      BY <1>0, <1>12, <2>1 DEF Stall, QueueOK
    <2>3. TroubleOK'
      BY <1>0, <1>12, <2>1, DisturbTypes DEF Stall
    <2>4. RunsOK' /\ RestOK'
      BY <1>0, <1>12, <1>r DEF Stall
    <2>5. QED
      BY <2>2, <2>3, <2>4
  <1>13. ASSUME NEW c \in Conv, Expire(c)
         PROVE  RunsOK' /\ QueueOK' /\ TroubleOK' /\ RestOK'
    BY <1>0, <1>13, <1>r, <1>j, <1>t DEF Expire
  <1>14. CASE UNCHANGED vars
    BY <1>0, <1>14, <1>r, <1>j, <1>t DEF vars
  <1>15. QED
    BY <1>2, <1>3, <1>4, <1>5, <1>6, <1>7, <1>8, <1>9, <1>10, <1>11, <1>12, <1>13, <1>14
       DEF Next, Step

\* Only run w moves, to place l, if at all.
MovesTo(w, l) == /\ pc' = [pc EXCEPT ![w] = l]
                 /\ \A v \in Worker \ {w} : on'[v] = on[v] /\ part'[v] = part[v]

\* The ways of moving say where to, and that a run that goes on keeps its task.
LEMMA Moves ==
  ASSUME TypeOK, NEW w \in Worker
  PROVE  /\ \A l : Goto(w, l) => MovesTo(w, l) /\ on'[w] = on[w] /\ part'[w] = part[w]
         /\ \A m, i, l : Start(w, m, i, l) => MovesTo(w, l) /\ on'[w] = m /\ part'[w] = i
         /\ Stop(w) => MovesTo(w, "idle") /\ part'[w] = NoPart
         /\ Wrap(w) => \/ MovesTo(w, "idle") /\ part'[w] = NoPart
                       \/ MovesTo(w, "clear") /\ on'[w] = on[w] /\ part'[w] = part[w]
                                              /\ part[w] # NoPart
  <1>1. \A l : Goto(w, l) => MovesTo(w, l) /\ on'[w] = on[w] /\ part'[w] = part[w]
    BY DEF Goto, MovesTo
  <1>2. \A m, i, l : Start(w, m, i, l) => MovesTo(w, l) /\ on'[w] = m /\ part'[w] = i
    BY DEF Start, MovesTo, TypeOK
  <1>3. Stop(w) => MovesTo(w, "idle") /\ part'[w] = NoPart
    BY <1>2 DEF Stop
  <1>4. QED
    BY <1>1, <1>2, <1>3 DEF Wrap

\* The lock stays with the run of the turn until its lease runs out.
LEMMA LockStep == ASSUME TypeOK, RunInv, LockInv, [Next]_vars PROVE LockInv'
  <1> USE DEF lockVars, runVars
  <1>l. \A v \in Worker : v # NoOne /\ v # Dead /\ Lock(v) \in Conv
    BY TurnAssumption DEF Lock, TypeOK
  <1>a. ASSUME NEW w \in Worker, NEW l, MovesTo(w, l), l \notin InTurn, pc[w] \notin InTurn,
               UNCHANGED lockVars
        PROVE  LockInv'
    BY <1>a DEF LockInv, MovesTo, Lock, TypeOK
  <1>b. ASSUME NEW w \in Worker, NEW l, MovesTo(w, l), l \notin InTurn,
               lapsed' = lapsed \ {w}, \A v \in Worker \ {w} : holder[Lock(v)] = v
                  => holder'[Lock(v)] = v
        PROVE  LockInv'
    BY <1>b DEF LockInv, MovesTo, Lock, TypeOK
  <1>1. ASSUME NEW w \in Worker, NEW m \in Message, Receive(w, m) PROVE LockInv'
    BY <1>1, <1>a, Moves DEF Receive, Vacant, InTurn
  <1>2. ASSUME NEW w \in Worker, NEW m, NEW i, StartJob(w, m, i) PROVE LockInv'
    BY <1>2, <1>a, Moves DEF StartJob, Vacant, InTurn
  <1>3. ASSUME NEW w \in Worker, Store(w) PROVE LockInv'
    BY <1>3, <1>a, Moves DEF Store, InTurn
  <1>4. ASSUME NEW w \in Worker, Enqueue(w) PROVE LockInv'
    <2>1. CASE Stop(w)
      BY <1>4, <2>1, <1>a, Moves DEF Enqueue, InTurn
    <2>2. CASE UNCHANGED runVars
      BY <1>4, <2>2 DEF Enqueue, LockInv, Lock
    <2>3. QED
      BY <1>4, <2>1, <2>2 DEF Enqueue
  <1>5. ASSUME NEW w \in Worker,
               Process(w) \/ MarkSettled(w) \/ CheckProcessed(w) \/ Clear(w) \/ GiveUp(w)
        PROVE  LockInv'
    BY <1>5, <1>a, Moves DEF Process, MarkSettled, CheckProcessed, Clear, GiveUp, InTurn
  <1>6. ASSUME NEW w \in Worker,
        TellBusy(w) \/ MarkProcessed(w) \/ SettleThrows(w) PROVE LockInv'
    BY <1>6, <1>a, Moves DEF TellBusy, MarkProcessed, SettleThrows, InTurn
  <1>7. ASSUME NEW w \in Worker, Acquire(w) PROVE LockInv'
    <2>1. /\ pc[w] = "acquire" /\ holder[Lock(w)] = NoOne
          /\ holder' = [holder EXCEPT ![Lock(w)] = w] /\ lapsed' = lapsed
          /\ MovesTo(w, "turn") /\ on'[w] = on[w]
      BY <1>7, Moves DEF Acquire
    <2>2. \A v \in Worker : Lock(v)' = Lock(v)
      BY <2>1 DEF MovesTo, Lock
    <2>3. \A v \in Worker \ {w} : holder[Lock(v)] = v => holder'[Lock(v)] = v
      BY <2>1, <1>l DEF TypeOK
    <2>4. holder'[Lock(w)] = w
      BY <2>1, <1>l DEF TypeOK
    <2>5. w \notin lapsed
      BY <2>1 DEF LockInv, InTurn
    <2>6. QED
      BY <2>1, <2>2, <2>3, <2>4, <2>5 DEF LockInv, MovesTo, TypeOK, InTurn
  <1>8. ASSUME NEW w \in Worker, Reply(w) PROVE LockInv'
    <2>1. pc[w] = "turn" /\ UNCHANGED lockVars /\ MovesTo(w, "release") /\ on'[w] = on[w]
      BY <1>8, Moves DEF Reply
    <2>2. QED
      BY <2>1 DEF LockInv, MovesTo, Lock, TypeOK, InTurn
  <1>f. ASSUME NEW w \in Worker,
               Free(w) \/ holder' = IF holder[Lock(w)] = w
                                    THEN [holder EXCEPT ![Lock(w)] = Dead] ELSE holder
        PROVE  \A v \in Worker \ {w} : holder[Lock(v)] = v => holder'[Lock(v)] = v
    BY <1>f, <1>l DEF Free, TypeOK
  <1>9. ASSUME NEW w \in Worker, Release(w) \/ Throw(w) \/ Crash(w) PROVE LockInv'
    <2>1. /\ lapsed' = lapsed \ {w}
          /\ MovesTo(w, "mark") \/ MovesTo(w, "idle")
      BY <1>9, Moves DEF Release, Throw, Crash
    <2>2. \A v \in Worker \ {w} : holder[Lock(v)] = v => holder'[Lock(v)] = v
      BY <1>9, <1>f DEF Release, Throw, Crash
    <2>3. QED
      BY <1>b, <2>1, <2>2 DEF InTurn
  <1>10. ASSUME NEW w \in Worker, Lapse(w) PROVE LockInv'
    BY <1>10, <1>l DEF Lapse, LockInv, Lock, TypeOK
  <1>11. ASSUME NEW c \in Conv, Expire(c) PROVE LockInv'
    BY <1>11, <1>l DEF Expire, LockInv, Lock, TypeOK
  <1>12. CASE UNCHANGED <<runVars, lockVars>>
    BY <1>12 DEF LockInv, Lock
  <1>13. QED
    BY <1>1, <1>2, <1>3, <1>4, <1>5, <1>6, <1>7, <1>8, <1>9, <1>10, <1>11, <1>12
       DEF Next, Step, Stall, vars

\* What is done stays done, and a run past the tracker has every part done.
LEMMA RunStep == ASSUME TypeOK, RunInv, [Next]_vars PROVE RunInv'
  <1> USE DEF runVars, storeVars, queueVars
  <1>d. ASSUME done \subseteq done', UNCHANGED <<runVars, settled>> PROVE RunInv'
    BY <1>d DEF RunInv, Task
  <1>s. ASSUME done \subseteq done', NEW w \in Worker, MovesTo(w, "idle"),
        part'[w] = NoPart,
               \A m \in Message : settled'[m] \subseteq {i \in Parts[m] : <<m,
                  i>> \in done'}
        PROVE  RunInv'
    BY <1>s DEF RunInv, MovesTo, Task, TypeOK, Past, InTurn
  <1>g. ASSUME done \subseteq done', NEW w \in Worker, NEW l, MovesTo(w, l),
               on'[w] = on[w], part'[w] = part[w],
               \A m \in Message : settled'[m] \subseteq {i \in Parts[m] : <<m,
                  i>> \in done'},
               l \in {"media", "settle", "check", "clear"} => part[w] # NoPart,
               l = "settle" => Task(w) \in done',
               l \in Past => \A i \in Parts[on[w]] : <<on[w], i>> \in done'
        PROVE  RunInv'
    BY <1>g DEF RunInv, MovesTo, Task, TypeOK
  <1>k. UNCHANGED settled /\ done \subseteq done' =>
           \A m \in Message : settled'[m] \subseteq {i \in Parts[m] : <<m, i>> \in done'}
    BY DEF RunInv
  <1>1. ASSUME NEW w \in Worker, NEW m \in Message, Receive(w, m) PROVE RunInv'
    <2>1. /\ MovesTo(w, "store") /\ part'[w] = NoPart /\ UNCHANGED <<done, settled>>
      BY <1>1, Moves DEF Receive
    <2>2. QED
      BY <2>1 DEF RunInv, MovesTo, Task, TypeOK, Past, InTurn
  <1>2. ASSUME NEW w \in Worker, NEW j \in Jobs, StartJob(w, j[1], j[2]) PROVE RunInv'
    <2>1. /\ MovesTo(w, "media") /\ on'[w] = j[1] /\ part'[w] = j[2]
          /\ UNCHANGED <<done, settled>>
      BY <1>2, Moves DEF StartJob
    <2>2. j[2] \in Parts[j[1]] /\ j[2] # NoPart
      BY JobIs, PartIs
    <2>3. QED
      BY <2>1, <2>2 DEF RunInv, MovesTo, Task, TypeOK, Past, InTurn
  <1>3. ASSUME NEW w \in Worker, Store(w) PROVE RunInv'
    <2>1. CASE Stop(w)
      BY <1>3, <2>1, <1>s, <1>k, Moves DEF Store
    <2>2. CASE Parts[on[w]] = {} /\ Goto(w, "acquire")
      BY <1>3, <2>2, <1>g, <1>k, Moves DEF Store
    <2>3. CASE Goto(w, "enqueue")
      BY <1>3, <2>3, <1>g, <1>k, Moves DEF Store, Past, InTurn
    <2>4. QED
      BY <1>3, <2>1, <2>2, <2>3 DEF Store
  <1>4. ASSUME NEW w \in Worker, Enqueue(w) PROVE RunInv'
    BY <1>4, <1>d, <1>s, <1>k, Moves DEF Enqueue
  <1>5. ASSUME NEW w \in Worker, Process(w) PROVE RunInv'
    <2>1. CASE Stop(w) /\ UNCHANGED done
      BY <1>5, <2>1, <1>s, <1>k, Moves DEF Process
    <2>2. CASE done' = done \cup {Task(w)} /\ Goto(w, "settle")
      <3>1. part[w] # NoPart
        BY <1>5 DEF Process, RunInv
      <3>2. QED
        BY <1>5, <2>2, <3>1, <1>g, <1>k, Moves DEF Process, Past, InTurn
    <2>3. QED
      BY <1>5, <2>1, <2>2 DEF Process
  <1>6. ASSUME NEW w \in Worker, MarkSettled(w) PROVE RunInv'
    <2>1. /\ part[w] # NoPart /\ part[w] \in Parts[on[w]] /\ <<on[w], part[w]>> \in done
          /\ on[w] \in Message
      BY <1>6 DEF MarkSettled, RunInv, Task, TypeOK
    <2>2. /\ settled' = [settled EXCEPT ![on[w]] = @ \cup {part[w]}] /\ UNCHANGED done
      BY <1>6 DEF MarkSettled
    <2>3. \A m \in Message : settled'[m] \subseteq {i \in Parts[m] : <<m, i>> \in done'}
      BY <2>1, <2>2 DEF RunInv, TypeOK
    <2>4. CASE Stop(w)
      BY <2>2, <2>3, <2>4, <1>s, Moves
    <2>5. CASE settled'[on[w]] = Parts[on[w]] /\ Goto(w, "check")
      <3>1. \A i \in Parts[on[w]] : <<on[w], i>> \in done'
        BY <2>1, <2>3, <2>5
      <3>2. QED
        BY <2>1, <2>2, <2>3, <2>5, <3>1, <1>g, Moves
    <2>6. QED
      BY <1>6, <2>4, <2>5 DEF MarkSettled
  <1>7. ASSUME NEW w \in Worker, Clear(w) PROVE RunInv'
    <2>1. \A m \in Message : settled'[m] \subseteq {i \in Parts[m] : <<m, i>> \in done'}
      BY <1>7 DEF Clear, RunInv, TypeOK
    <2>2. QED
      BY <1>7, <2>1, <1>s, Moves DEF Clear
  <1>p. ASSUME NEW w \in Worker, pc[w] \in Past, NEW l, MovesTo(w, l), on'[w] = on[w],
               part'[w] = part[w], l # "settle", UNCHANGED <<done, settled>>,
               l \in {"media", "check", "clear"} => part[w] # NoPart
        PROVE  RunInv'
    <2>1. \A i \in Parts[on[w]] : <<on[w], i>> \in done'
      BY <1>p DEF RunInv
    <2>2. QED
      BY <1>p, <1>g, <1>k, <2>1
  <1>8. ASSUME NEW w \in Worker, CheckProcessed(w) PROVE RunInv'
    <2>1. pc[w] = "check" /\ part[w] # NoPart
      BY <1>8 DEF CheckProcessed, RunInv
    <2>2. QED
      BY <1>8, <2>1, <1>p, Moves DEF CheckProcessed, Past
  <1>9. ASSUME NEW w \in Worker,
        Acquire(w) \/ GiveUp(w) \/ Reply(w) \/ Release(w) PROVE RunInv'
    BY <1>9, <1>p, Moves DEF Acquire, GiveUp, Reply, Release, Past, InTurn
  <1>10. ASSUME NEW w \in Worker, TellBusy(w) \/ MarkProcessed(w) PROVE RunInv'
    <2>1. pc[w] \in Past /\ UNCHANGED <<done, settled>> /\ Wrap(w)
      BY <1>10 DEF TellBusy, MarkProcessed, Past
    <2>2. QED
      BY <2>1, <1>p, <1>s, <1>k, Moves
  <1>11. ASSUME NEW w \in Worker, Throw(w) \/ SettleThrows(w) \/ Crash(w) PROVE RunInv'
    BY <1>11, <1>s, <1>k, Moves DEF Throw, SettleThrows, Crash
  <1>12. QED
    BY <1>1, <1>2, <1>3, <1>4, <1>5, <1>6, <1>7, <1>8, <1>9, <1>10, <1>11, <1>d
       DEF Next, Step, Lapse, Stall, Expire, vars

\* Sizes of sets that differ in one element at most.
LEMMA Sizes ==
  ASSUME NEW A, IsFiniteSet(A), NEW B
  PROVE  /\ Cardinality(A) \in Nat
         /\ B \subseteq A => Cardinality(B) \in Nat /\ Cardinality(B) <= Cardinality(A)
         /\ \A x : B \subseteq A \cup {x} =>
              Cardinality(B) \in Nat /\ Cardinality(B) <= Cardinality(A) + 1
         /\ \A x \in A : B \subseteq A \ {x} =>
              Cardinality(B) \in Nat /\ Cardinality(B) + 1 <= Cardinality(A)
  <1>1. Cardinality(A) \in Nat
    BY FS_CardinalityType
  <1>2. ASSUME NEW C, IsFiniteSet(C), B \subseteq C
        PROVE  Cardinality(B) \in Nat /\ Cardinality(B) <= Cardinality(C)
    BY <1>2, FS_Subset, FS_CardinalityType
  <1>3. ASSUME NEW x, B \subseteq A \cup {x}
        PROVE  Cardinality(B) \in Nat /\ Cardinality(B) <= Cardinality(A) + 1
    <2>1. /\ IsFiniteSet(A \cup {x}) /\ Cardinality(A \cup {x}) \in Nat
          /\ Cardinality(A \cup {x}) <= Cardinality(A) + 1
      BY <1>1, FS_AddElement
    <2>2. QED
      BY <1>1, <1>2, <1>3, <2>1
  <1>4. ASSUME NEW x \in A, B \subseteq A \ {x}
        PROVE  Cardinality(B) \in Nat /\ Cardinality(B) + 1 <= Cardinality(A)
    <2>1. IsFiniteSet(A \ {x}) /\ Cardinality(A \ {x}) = Cardinality(A) - 1
      BY FS_RemoveElement
    <2>2. Cardinality(B) \in Nat /\ Cardinality(B) <= Cardinality(A \ {x})
      BY <1>2, <1>4, <2>1
    <2>3. QED
      BY <1>1, <2>1, <2>2
  <1>5. QED
    BY <1>1, <1>2, <1>3, <1>4

\* How Left moves with its arguments.
LEMMA LeftType == ASSUME NEW e \in Nat, NEW d \in Nat PROVE Left(e, d) \in Nat
  BY DEF Left

\* It grows no faster than the executions, and shrinks as more is missing.
LEMMA LeftGrows ==
  ASSUME NEW e \in Nat, NEW d \in Nat, NEW f \in Nat, NEW c \in Nat, NEW b \in Nat,
         f <= e + b, c >= d
  PROVE  Left(f, c) <= Left(e, d) + b
  BY DEF Left

\* An execution that settles the last part, or one part of several, is made up for.
LEMMA LeftDrops ==
  ASSUME NEW e \in Nat, NEW d \in Nat, NEW f \in Nat, NEW c \in Nat, f + 1 <= e, d <= c + 1
  PROVE  /\ c = 0 => Left(f, c) + 1 <= Left(e, d)
         /\ c > 0 => Left(f, c) <= Left(e, d)
  BY DEF Left

\* The counted sets are finite, before and after any step.
LEMMA Finite ==
  ASSUME NEW m \in Message
  PROVE  /\ IsFiniteSet(Queue(m)) /\ IsFiniteSet(Queue(m)')
         /\ IsFiniteSet(Runs(m)) /\ IsFiniteSet(Runs(m)')
         /\ IsFiniteSet(Missing(m)) /\ IsFiniteSet(Missing(m)')
         /\ IsFiniteSet(Entrants(m)) /\ IsFiniteSet(Entrants(m)')
  <1>1. IsFiniteSet(Parts[m]) /\ IsFiniteSet(Worker)
    BY TurnAssumption, FS_Interval DEF Worker
  <1>2. Queue(m) \subseteq Parts[m] /\ Queue(m)' \subseteq Parts[m]
    BY DEF Queue
  <1>3. Missing(m) \subseteq Parts[m] /\ Missing(m)' \subseteq Parts[m]
    BY DEF Missing
  <1>4. Runs(m) \subseteq Worker /\ Runs(m)' \subseteq Worker
    BY DEF Runs
  <1>5. Entrants(m) \subseteq Worker /\ Entrants(m)' \subseteq Worker
    BY DEF Entrants
  <1>6. QED
    BY <1>1, <1>2, <1>3, <1>4, <1>5, FS_Subset

\* The counts are natural numbers, before and after a step that keeps the types.
LEMMA CountTypes ==
  ASSUME TypeOK, TypeOK', NEW m \in Message
  PROVE  /\ turns[m] \in Nat /\ turns'[m] \in Nat
         /\ disturbed[m] \in Nat /\ disturbed'[m] \in Nat
         /\ Cardinality(Queue(m)) \in Nat /\ Cardinality(Queue(m)') \in Nat
         /\ Cardinality(Runs(m)) \in Nat /\ Cardinality(Runs(m)') \in Nat
         /\ Cardinality(Missing(m)) \in Nat /\ Cardinality(Missing(m)') \in Nat
         /\ Cardinality(Entrants(m)) \in Nat /\ Cardinality(Entrants(m)') \in Nat
         /\ Pending(m) \in Nat /\ Pending(m)' \in Nat
         /\ Spare(m) \in Nat /\ Spare(m)' \in Nat
  <1>1. /\ turns[m] \in Nat /\ turns'[m] \in Nat
        /\ disturbed[m] \in Nat /\ disturbed'[m] \in Nat
    BY TurnAssumption DEF TypeOK
  <1>2. /\ Cardinality(Queue(m)) \in Nat /\ Cardinality(Queue(m)') \in Nat
        /\ Cardinality(Runs(m)) \in Nat /\ Cardinality(Runs(m)') \in Nat
        /\ Cardinality(Missing(m)) \in Nat /\ Cardinality(Missing(m)') \in Nat
        /\ Cardinality(Entrants(m)) \in Nat /\ Cardinality(Entrants(m)') \in Nat
    <2>1. \A A : IsFiniteSet(A) => Cardinality(A) \in Nat
      BY FS_CardinalityType
    <2>2. QED
      BY <2>1, Finite
  <1>3. Pending(m) \in Nat /\ Pending(m)' \in Nat
    BY <1>2 DEF Pending
  <1>4. Spare(m) \in Nat /\ Spare(m)' \in Nat
    BY <1>2, <1>3, LeftType DEF Spare
  <1>5. QED
    BY <1>1, <1>2, <1>3, <1>4

\* The bound on a message survives a step that adds no more to its turns, its
\* entrants and its executions to come than to its disturbances.
LEMMA CountBound ==
  ASSUME TypeOK, TypeOK', CountInv, NEW k \in Message, NEW a \in Nat, NEW b \in Nat,
         turns'[k] + Cardinality(Entrants(k)') <= turns[k] + Cardinality(Entrants(k)) + a,
         Pending(k)' <= Pending(k) + b,
         Cardinality(Missing(k)') >= Cardinality(Missing(k)),
         disturbed'[k] >= disturbed[k] + a + b,
         k \in stored => k \in stored'
  PROVE  Taken(k)' <= 1 + disturbed'[k]
  <1>1. Spare(k)' <= Spare(k) + b
    <2>1. CASE Parts[k] = {}
      BY <2>1 DEF Spare
    <2>2. CASE Parts[k] # {}
      <3>1. Left(Pending(k)', Cardinality(Missing(k)')) <= Left(Pending(k),
            Cardinality(Missing(k))) + b
        BY CountTypes, LeftGrows
      <3>2. QED
        BY <2>2, <3>1 DEF Spare
    <2>3. QED
      BY <2>1, <2>2
  <1>2. Taken(k) <= 1 + disturbed[k]
    BY DEF CountInv
  <1>3. QED
    BY <1>1, <1>2, CountTypes DEF Taken

\* A moving run adds itself to a count at most.
LEMMA MoveCounts ==
  ASSUME TypeOK, NEW w \in Worker, NEW l, MovesTo(w, l), NEW k \in Message
  PROVE  /\ Cardinality(Runs(k)') <= Cardinality(Runs(k)) + 1
         /\ (w \in Runs(k)' => w \in Runs(k))
            => Cardinality(Runs(k)') <= Cardinality(Runs(k))
         /\ w \in Runs(k) /\ w \notin Runs(k)' =>
               Cardinality(Runs(k)') + 1 <= Cardinality(Runs(k))
         /\ Cardinality(Entrants(k)') <= Cardinality(Entrants(k)) + 1
         /\ (w \in Entrants(k)' => w \in Entrants(k)) =>
               Cardinality(Entrants(k)') <= Cardinality(Entrants(k))
         /\ w \in Entrants(k) /\ w \notin Entrants(k)' =>
               Cardinality(Entrants(k)') + 1 <= Cardinality(Entrants(k))
  <1>1. \A v \in Worker \ {w} : pc'[v] = pc[v] /\ on'[v] = on[v]
    BY DEF MovesTo, TypeOK
  <1>2. Runs(k)' \subseteq Runs(k) \cup {w} /\ Entrants(k)' \subseteq Entrants(k) \cup {w}
    BY <1>1 DEF Runs, Entrants
  <1>3. IsFiniteSet(Runs(k)) /\ IsFiniteSet(Entrants(k))
    BY Finite
  <1>4. /\ Cardinality(Runs(k)') <= Cardinality(Runs(k)) + 1
        /\ Cardinality(Entrants(k)') <= Cardinality(Entrants(k)) + 1
    BY <1>2, <1>3, Sizes
  <1>5. ASSUME w \in Runs(k)' => w \in Runs(k)
        PROVE  Cardinality(Runs(k)') <= Cardinality(Runs(k))
    <2>1. Runs(k)' \subseteq Runs(k)
      BY <1>2, <1>5
    <2>2. QED
      BY <1>3, <2>1, Sizes
  <1>6. ASSUME w \in Runs(k), w \notin Runs(k)'
        PROVE  Cardinality(Runs(k)') + 1 <= Cardinality(Runs(k))
    <2>1. Runs(k)' \subseteq Runs(k) \ {w}
      BY <1>2, <1>6
    <2>2. QED
      BY <1>3, <1>6, <2>1, Sizes
  <1>7. ASSUME w \in Entrants(k)' => w \in Entrants(k)
        PROVE  Cardinality(Entrants(k)') <= Cardinality(Entrants(k))
    <2>1. Entrants(k)' \subseteq Entrants(k)
      BY <1>2, <1>7
    <2>2. QED
      BY <1>3, <2>1, Sizes
  <1>8. ASSUME w \in Entrants(k), w \notin Entrants(k)'
        PROVE  Cardinality(Entrants(k)') + 1 <= Cardinality(Entrants(k))
    <2>1. Entrants(k)' \subseteq Entrants(k) \ {w}
      BY <1>2, <1>8
    <2>2. QED
      BY <1>3, <1>8, <2>1, Sizes
  <1>9. QED
    BY <1>4, <1>5, <1>6, <1>7, <1>8

\* A job that changes state adds itself to its message's queue at most.
LEMMA QueueCounts ==
  ASSUME TypeOK, NEW m \in Message, NEW i \in Parts[m], NEW v, NEW k \in Message,
         job' = [job EXCEPT ![<<m, i>>] = v]
  PROVE  /\ Cardinality(Queue(k)') <= Cardinality(Queue(k)) + 1
         /\ k # m \/ v \notin {"none", "queued"} \/ job[<<m, i>>] \in {"none", "queued"} =>
               Cardinality(Queue(k)') <= Cardinality(Queue(k))
         /\ k = m /\ v \notin {"none", "queued"} /\ job[<<m, i>>] \in {"none", "queued"} =>
               Cardinality(Queue(k)') + 1 <= Cardinality(Queue(k))
  <1>1. /\ \A j \in Parts[k] : <<k, j>> # <<m, i>> => job'[<<k, j>>] = job[<<k, j>>]
        /\ job'[<<m, i>>] = v
    BY PartIs DEF TypeOK
  <1>2. Queue(k)' \subseteq Queue(k) \cup {i}
    BY <1>1 DEF Queue
  <1>3. IsFiniteSet(Queue(k))
    BY Finite
  <1>4. Cardinality(Queue(k)') <= Cardinality(Queue(k)) + 1
    BY <1>2, <1>3, Sizes
  <1>5. ASSUME k # m \/ v \notin {"none", "queued"} \/ job[<<m, i>>] \in {"none", "queued"}
        PROVE  Cardinality(Queue(k)') <= Cardinality(Queue(k))
    <2>1. Queue(k)' \subseteq Queue(k)
      BY <1>1, <1>5 DEF Queue
    <2>2. QED
      BY <1>3, <2>1, Sizes
  <1>6. ASSUME k = m, v \notin {"none", "queued"}, job[<<m, i>>] \in {"none", "queued"}
        PROVE  Cardinality(Queue(k)') + 1 <= Cardinality(Queue(k))
    <2>1. Queue(k)' \subseteq Queue(k) \ {i} /\ i \in Queue(k)
      BY <1>1, <1>6 DEF Queue
    <2>2. QED
      BY <1>3, <2>1, Sizes
  <1>7. QED
    BY <1>4, <1>5, <1>6

\* What a job's run does to its job when it is through, or throws.
LEMMA TaskCounts ==
  ASSUME TypeOK, RunInv, NEW w \in Worker, part[w] # NoPart, NEW k \in Message
  PROVE  /\ FinishJob(w) => Cardinality(Queue(k)') <= Cardinality(Queue(k))
         /\ Retry(w) => /\ Cardinality(Queue(k)') <= Cardinality(Queue(k)) + 1
                        /\ k # on[w] => Cardinality(Queue(k)') <= Cardinality(Queue(k))
  <1>1. on[w] \in Message /\ part[w] \in Parts[on[w]]
    BY TaskIs
  <1>2. ASSUME FinishJob(w) PROVE Cardinality(Queue(k)') <= Cardinality(Queue(k))
    <2>1. PICK v : /\ job' = [job EXCEPT ![<<on[w], part[w]>>] = v]
                   /\ v = "finished" \/ v = job[<<on[w], part[w]>>]
      BY <1>2 DEF FinishJob, Task
    <2>2. v \notin {"none", "queued"} \/ job[<<on[w], part[w]>>] \in {"none", "queued"}
      BY <2>1
    <2>3. QED
      BY <1>1, <2>1, <2>2, QueueCounts
  <1>3. ASSUME Retry(w)
        PROVE  /\ Cardinality(Queue(k)') <= Cardinality(Queue(k)) + 1
               /\ k # on[w] => Cardinality(Queue(k)') <= Cardinality(Queue(k))
    BY <1>1, <1>3, QueueCounts DEF Retry, Task
  <1>4. QED
    BY <1>2, <1>3

\* A disturbance of m adds one to those of m and none to others'.
LEMMA DisturbCounts ==
  ASSUME TypeOK, NEW m \in Message, Disturb(m), NEW k \in Message
  PROVE  /\ disturbed'[k] >= disturbed[k]
         /\ k = m => disturbed'[k] = disturbed[k] + 1
  BY TurnAssumption DEF TypeOK, Disturb

\* A run that settles its part leaves the queue of executions; if it finds no
\* part missing it is on its way to the turn, otherwise one execution and at
\* most one missing part are gone.
LEMMA SettleCounts ==
  ASSUME TypeOK, TypeOK', RunInv, CountInv, NEW w \in Worker, MarkSettled(w),
     NEW k \in Message
  PROVE  Taken(k)' <= 1 + disturbed'[k]
  <1> USE DEF storeVars, queueVars, replyVars, troubleVars
  <1>1. /\ pc[w] = "settle" /\ UNCHANGED <<turns, disturbed, stored>>
        /\ settled' = [settled EXCEPT ![on[w]] = @ \cup {part[w]}]
    BY DEF MarkSettled
  <1>2. part[w] # NoPart /\ part[w] \in Parts[on[w]] /\ on[w] \in Message
    BY <1>1 DEF RunInv, TypeOK
  <1>3. Cardinality(Queue(k)') <= Cardinality(Queue(k))
    <2>1. CASE UNCHANGED job
      BY <2>1, CountTypes DEF Queue
    <2>2. CASE FinishJob(w)
      BY <1>2, <2>2, TaskCounts
    <2>3. QED
      BY <2>1, <2>2 DEF MarkSettled
  <1>4. \/ /\ settled'[on[w]] = Parts[on[w]] /\ MovesTo(w, "check") /\ on'[w] = on[w]
        \/ /\ settled'[on[w]] # Parts[on[w]] /\ MovesTo(w, "idle")
    BY Moves DEF MarkSettled
  <1>5. pc'[w] \in {"check", "idle"}
    BY <1>4 DEF MovesTo, TypeOK
  <1>6. w \notin Runs(k)'
    BY <1>5 DEF Runs
  <1>7. CASE k # on[w]
    <2>1. Missing(k)' = Missing(k)
      BY <1>1, <1>7 DEF Missing, TypeOK
    <2>2. w \notin Entrants(k)'
      BY <1>4, <1>7 DEF Entrants, MovesTo, TypeOK
    <2>3. /\ Cardinality(Runs(k)') <= Cardinality(Runs(k))
          /\ Cardinality(Entrants(k)') <= Cardinality(Entrants(k))
      BY <1>4, <1>6, <2>2, MoveCounts
    <2>4. Pending(k)' <= Pending(k) + 0
      BY <1>3, <2>3, CountTypes DEF Pending
    <2>5. QED
      BY <1>1, <2>1, <2>3, <2>4, CountBound, CountTypes
  <1>8. CASE k = on[w]
    <2>1. w \in Runs(k)
      BY <1>1, <1>8 DEF Runs
    <2>2. Cardinality(Runs(k)') + 1 <= Cardinality(Runs(k))
      BY <1>4, <1>6, <2>1, MoveCounts
    <2>3. Pending(k)' + 1 <= Pending(k)
      BY <1>3, <2>2, CountTypes DEF Pending
    <2>4. Parts[k] # {}
      BY <1>2, <1>8
    <2>5. settled'[k] = settled[k] \cup {part[w]}
      BY <1>1, <1>2, <1>8 DEF TypeOK
    <2>6. settled'[k] \subseteq Parts[k]
      BY <1>2, <1>8, <2>5 DEF RunInv
    <2>7. Missing(k) \subseteq Missing(k)' \cup {part[w]}
      BY <2>5 DEF Missing
    <2>8. Cardinality(Missing(k)) <= Cardinality(Missing(k)') + 1
      BY <2>7, Finite, Sizes
    <2>9. Taken(k) <= 1 + disturbed[k]
      BY DEF CountInv
    <2>10. CASE settled'[k] = Parts[k] /\ MovesTo(w, "check")
      <3>1. Cardinality(Missing(k)') = 0
        BY <2>10, FS_EmptySet DEF Missing
      <3>2. Left(Pending(k)', Cardinality(Missing(k)')) + 1
              <= Left(Pending(k), Cardinality(Missing(k)))
        BY <2>3, <2>8, <3>1, CountTypes, LeftDrops
      <3>3. Spare(k)' + 1 <= Spare(k)
        BY <2>4, <3>2 DEF Spare
      <3>4. Cardinality(Entrants(k)') <= Cardinality(Entrants(k)) + 1
        BY <2>10, MoveCounts
      <3>5. QED
        BY <1>1, <2>9, <3>3, <3>4, CountTypes DEF Taken
    <2>11. CASE settled'[k] # Parts[k] /\ MovesTo(w, "idle")
      <3>1. Cardinality(Missing(k)') > 0
        <4>1. Missing(k)' # {}
          BY <2>6, <2>11 DEF Missing
        <4>2. QED
          BY <4>1, Finite, CountTypes, FS_EmptySet
      <3>2. Left(Pending(k)', Cardinality(Missing(k)')) <= Left(Pending(k),
            Cardinality(Missing(k)))
        BY <2>3, <2>8, <3>1, CountTypes, LeftDrops
      <3>3. Spare(k)' <= Spare(k)
        BY <2>4, <3>2 DEF Spare
      <3>4. w \notin Entrants(k)'
        BY <2>11 DEF Entrants, MovesTo, TypeOK
      <3>5. Cardinality(Entrants(k)') <= Cardinality(Entrants(k))
        BY <2>11, <3>4, MoveCounts
      <3>6. QED
        BY <1>1, <2>9, <3>3, <3>5, CountTypes DEF Taken
    <2>12. QED
      BY <1>4, <1>8, <2>10, <2>11
  <1>9. QED
    BY <1>7, <1>8

\* Of what may still become a turn nothing is created but by a disturbance.
LEMMA CountStep ==
  ASSUME TypeOK, TypeOK', RunInv, CountInv, [Next]_vars PROVE CountInv'
  <1> USE DEF storeVars, queueVars, runVars, lockVars, replyVars, troubleVars
  <1> SUFFICES ASSUME NEW k \in Message PROVE Taken(k)' <= 1 + disturbed'[k]
    BY DEF CountInv
  <1>q. UNCHANGED job => Cardinality(Queue(k)') = Cardinality(Queue(k))
    BY DEF Queue
  <1>m. UNCHANGED settled => Cardinality(Missing(k)') = Cardinality(Missing(k))
    BY DEF Missing
  <1>c. ASSUME UNCHANGED <<turns, settled>>, stored \subseteq stored', NEW b \in Nat,
               Cardinality(Queue(k)') + Cardinality(Runs(k)')
                  <= Cardinality(Queue(k)) + Cardinality(Runs(k)) + b,
               Cardinality(Entrants(k)') <= Cardinality(Entrants(k)),
               disturbed'[k] >= disturbed[k] + b
        PROVE  Taken(k)' <= 1 + disturbed'[k]
    <2>1. Pending(k)' <= Pending(k) + b
      BY <1>c DEF Pending
    <2>2. turns'[k] + Cardinality(Entrants(k)') <= turns[k] + Cardinality(Entrants(k)) + 0
      BY <1>c, CountTypes
    <2>3. Cardinality(Missing(k)') >= Cardinality(Missing(k))
          /\ disturbed'[k] >= disturbed[k] + 0 + b
      BY <1>c, <1>m, CountTypes
    <2>4. QED
      BY <1>c, <2>1, <2>2, <2>3, CountBound
  <1>n. ASSUME UNCHANGED <<turns, settled>>, stored \subseteq stored',
               Cardinality(Queue(k)') + Cardinality(Runs(k)')
                  <= Cardinality(Queue(k)) + Cardinality(Runs(k)),
               Cardinality(Entrants(k)') <= Cardinality(Entrants(k)),
               disturbed'[k] >= disturbed[k]
        PROVE  Taken(k)' <= 1 + disturbed'[k]
    <2>1. /\ Cardinality(Queue(k)') + Cardinality(Runs(k)')
               <= Cardinality(Queue(k)) + Cardinality(Runs(k)) + 0
          /\ disturbed'[k] >= disturbed[k] + 0
      BY <1>n, CountTypes
    <2>2. 0 \in Nat
      OBVIOUS
    <2>3. QED
      BY <1>n, <2>1, <2>2, <1>c
  <1>z. ASSUME UNCHANGED <<turns, settled, runVars>>, stored \subseteq stored',
               Cardinality(Queue(k)') <= Cardinality(Queue(k)),
               disturbed'[k] >= disturbed[k]
        PROVE  Taken(k)' <= 1 + disturbed'[k]
    <2>1. Runs(k)' = Runs(k) /\ Entrants(k)' = Entrants(k)
      BY <1>z DEF Runs, Entrants
    <2>2. /\ Cardinality(Queue(k)') + Cardinality(Runs(k)')
               <= Cardinality(Queue(k)) + Cardinality(Runs(k))
          /\ Cardinality(Entrants(k)') <= Cardinality(Entrants(k))
      BY <1>z, <2>1, CountTypes
    <2>3. QED
      BY <1>z, <2>2, <1>n
  <1>a. ASSUME UNCHANGED <<turns, settled>>, stored \subseteq stored',
               NEW w \in Worker, NEW l, MovesTo(w, l),
               Cardinality(Queue(k)') <= Cardinality(Queue(k)),
               w \in Runs(k)' => w \in Runs(k),
               w \in Entrants(k)' => w \in Entrants(k),
               disturbed'[k] >= disturbed[k]
        PROVE  Taken(k)' <= 1 + disturbed'[k]
    <2>1. /\ Cardinality(Runs(k)') <= Cardinality(Runs(k))
          /\ Cardinality(Entrants(k)') <= Cardinality(Entrants(k))
      BY <1>a, MoveCounts
    <2>2. Cardinality(Queue(k)') + Cardinality(Runs(k)') <= Cardinality(Queue(k)) + Cardinality(Runs(k))
      BY <1>a, <2>1, CountTypes
    <2>3. QED
      BY <1>a, <1>n, <2>1, <2>2
  <1>e. \A w \in Worker : \A l : MovesTo(w, l) => pc'[w] = l
    BY DEF MovesTo, TypeOK
  <1>i. \A w \in Worker : \A l : MovesTo(w, l) /\ l \notin {"media", "settle"}
        => w \notin Runs(k)'
    BY <1>e DEF Runs
  <1>o. \A w \in Worker : \A l : MovesTo(w, l) /\ l \notin {"check", "acquire", "turn"} =>
                                 w \notin Entrants(k)'
    BY <1>e DEF Entrants
  <1>d. UNCHANGED disturbed => disturbed'[k] >= disturbed[k]
    BY CountTypes
  <1>1. ASSUME NEW w \in Worker, NEW m \in Message, Receive(w, m)
        PROVE  Taken(k)' <= 1 + disturbed'[k]
    <2>1. MovesTo(w, "store") /\ UNCHANGED <<turns, settled, stored, job, disturbed>>
      BY <1>1, Moves DEF Receive
    <2>2. QED
      BY <2>1, <1>a, <1>i, <1>o, <1>q, <1>d, CountTypes
  <1>2. ASSUME NEW w \in Worker, NEW j \in Jobs, StartJob(w, j[1], j[2])
        PROVE  Taken(k)' <= 1 + disturbed'[k]
    <2>1. /\ MovesTo(w, "media") /\ on'[w] = j[1]
          /\ UNCHANGED <<turns, settled, stored, disturbed>>
          /\ job[<<j[1], j[2]>>] = "queued"
             /\ job' = [job EXCEPT ![<<j[1], j[2]>>] = "active"]
      BY <1>2, Moves DEF StartJob
    <2>2. j[1] \in Message /\ j[2] \in Parts[j[1]]
      BY JobIs
    <2>3. Cardinality(Entrants(k)') <= Cardinality(Entrants(k))
      BY <2>1, <1>o, MoveCounts
    <2>4. Cardinality(Queue(k)') + Cardinality(Runs(k)') <= Cardinality(Queue(k)) + Cardinality(Runs(k))
      <3>1. CASE k = j[1]
        <4>1. Cardinality(Queue(k)') + 1 <= Cardinality(Queue(k))
          <5>1. "active" \notin {"none", "queued"}
                /\ job[<<j[1], j[2]>>] \in {"none", "queued"}
            BY <2>1
          <5>2. QED
            BY <2>1, <2>2, <3>1, <5>1, QueueCounts
        <4>2. Cardinality(Runs(k)') <= Cardinality(Runs(k)) + 1
          BY <2>1, MoveCounts
        <4>3. QED
          BY <4>1, <4>2, CountTypes
      <3>2. CASE k # j[1]
        <4>1. Cardinality(Queue(k)') <= Cardinality(Queue(k))
          BY <2>1, <2>2, <3>2, QueueCounts
        <4>2. w \notin Runs(k)'
          BY <2>1, <3>2 DEF Runs
        <4>3. Cardinality(Runs(k)') <= Cardinality(Runs(k))
          BY <2>1, <4>2, MoveCounts
        <4>4. QED
          BY <4>1, <4>3, CountTypes
      <3>3. QED
        BY <3>1, <3>2
    <2>5. QED
      BY <2>1, <2>3, <2>4, <1>n, <1>d
  <1>3. ASSUME NEW w \in Worker, Store(w) PROVE Taken(k)' <= 1 + disturbed'[k]
    <2>1. /\ UNCHANGED <<turns, settled, job, disturbed>>
          /\ stored' = stored \cup {on[w]} /\ pc[w] = "store"
      BY <1>3 DEF Store
    <2>2. CASE Stop(w)
      BY <2>1, <2>2, Moves, <1>a, <1>i, <1>o, <1>q, <1>d, CountTypes
    <2>3. CASE Goto(w, "enqueue")
      BY <2>1, <2>3, Moves, <1>a, <1>i, <1>o, <1>q, <1>d, CountTypes
    <2>4. CASE on[w] \notin stored /\ Parts[on[w]] = {} /\ Goto(w, "acquire")
      <3>1. MovesTo(w, "acquire") /\ on'[w] = on[w]
        BY <2>4, Moves
      <3>2. CASE k # on[w]
        <4>1. w \notin Entrants(k)'
          BY <3>1, <3>2 DEF Entrants
        <4>2. QED
          BY <2>1, <3>1, <4>1, <1>a, <1>i, <1>q, <1>d, CountTypes
      <3>3. CASE k = on[w]
        <4>1. Spare(k) = 1 /\ Spare(k)' = 0
          BY <2>1, <2>4, <3>3 DEF Spare
        <4>2. Cardinality(Entrants(k)') <= Cardinality(Entrants(k)) + 1
          BY <3>1, MoveCounts
        <4>3. Taken(k) <= 1 + disturbed[k]
          BY DEF CountInv
        <4>4. QED
          BY <2>1, <4>1, <4>2, <4>3, CountTypes DEF Taken
      <3>4. QED
        BY <3>2, <3>3
    <2>5. QED
      BY <1>3, <2>2, <2>3, <2>4 DEF Store
  <1>4. ASSUME NEW w \in Worker, Enqueue(w) PROVE Taken(k)' <= 1 + disturbed'[k]
    <2>1. UNCHANGED <<turns, settled, stored, disturbed>>
      BY <1>4 DEF Enqueue
    <2>2. CASE Stop(w) /\ UNCHANGED job
      BY <2>1, <2>2, Moves, <1>a, <1>i, <1>o, <1>q, <1>d, CountTypes
    <2>3. CASE UNCHANGED runVars /\ \E i \in Parts[on[w]] :
                 job[<<on[w], i>>] = "none"
                    /\ job' = [job EXCEPT ![<<on[w], i>>] = "queued"]
      <3>1. Cardinality(Queue(k)') <= Cardinality(Queue(k))
        BY <2>3, QueueCounts DEF TypeOK
      <3>2. QED
        BY <2>1, <2>3, <3>1, <1>z, <1>d
    <2>4. QED
      BY <1>4, <2>2, <2>3 DEF Enqueue
  <1>5. ASSUME NEW w \in Worker, Process(w) PROVE Taken(k)' <= 1 + disturbed'[k]
    <2>1. pc[w] = "media" /\ UNCHANGED <<turns, settled, stored, disturbed>>
      BY <1>5 DEF Process
    <2>2. part[w] # NoPart
      BY <2>1 DEF RunInv
    <2>3. CASE Goto(w, "settle") /\ UNCHANGED job
      <3>1. MovesTo(w, "settle") /\ on'[w] = on[w]
        BY <2>3, Moves
      <3>2. w \in Runs(k)' => w \in Runs(k)
        BY <2>1, <3>1 DEF Runs
      <3>3. QED
        BY <2>1, <2>3, <3>1, <3>2, <1>a, <1>o, <1>q, <1>d, CountTypes
    <2>4. CASE Retry(w) /\ Stop(w)
      <3>1. MovesTo(w, "idle")
        BY <2>4, Moves
      <3>2. /\ w \notin Runs(k)'
            /\ Cardinality(Entrants(k)') <= Cardinality(Entrants(k))
        BY <3>1, <1>i, <1>o, MoveCounts
      <3>3. Cardinality(Queue(k)') + Cardinality(Runs(k)') <= Cardinality(Queue(k)) + Cardinality(Runs(k))
        <4>1. CASE k = on[w]
          <5>1. w \in Runs(k)
            BY <2>1, <4>1 DEF Runs
          <5>2. Cardinality(Runs(k)') + 1 <= Cardinality(Runs(k))
            BY <3>1, <3>2, <5>1, MoveCounts
          <5>3. Cardinality(Queue(k)') <= Cardinality(Queue(k)) + 1
            BY <2>2, <2>4, TaskCounts
          <5>4. QED
            BY <5>2, <5>3, CountTypes
        <4>2. CASE k # on[w]
          <5>1. Cardinality(Queue(k)') <= Cardinality(Queue(k))
            BY <2>2, <2>4, <4>2, TaskCounts
          <5>2. Cardinality(Runs(k)') <= Cardinality(Runs(k))
            BY <3>1, <3>2, MoveCounts
          <5>3. QED
            BY <5>1, <5>2, CountTypes
        <4>3. QED
          BY <4>1, <4>2
      <3>4. QED
        BY <2>1, <3>2, <3>3, <1>n, <1>d
    <2>5. QED
      BY <1>5, <2>3, <2>4 DEF Process
  <1>6. ASSUME NEW w \in Worker, MarkSettled(w) PROVE Taken(k)' <= 1 + disturbed'[k]
    BY <1>6, SettleCounts
  <1>7. ASSUME NEW w \in Worker, CheckProcessed(w) \/ GiveUp(w) \/ Release(w)
        PROVE  Taken(k)' <= 1 + disturbed'[k]
    <2>1. /\ UNCHANGED <<turns, settled, stored, job, disturbed>>
          /\ \/ pc[w] = "check" /\ MovesTo(w, "acquire") /\ on'[w] = on[w]
             \/ MovesTo(w, "clear") \/ MovesTo(w, "busy") \/ MovesTo(w, "mark")
      BY <1>7, Moves DEF CheckProcessed, GiveUp, Release
    <2>2. w \in Entrants(k)' => w \in Entrants(k)
      BY <2>1, <1>o DEF Entrants
    <2>3. QED
      BY <2>1, <2>2, <1>a, <1>i, <1>q, <1>d, CountTypes
  <1>8. ASSUME NEW w \in Worker, Acquire(w) PROVE Taken(k)' <= 1 + disturbed'[k]
    <2>1. /\ UNCHANGED <<turns, settled, stored, job, disturbed>>
          /\ pc[w] = "acquire" /\ MovesTo(w, "turn") /\ on'[w] = on[w]
      BY <1>8, Moves DEF Acquire
    <2>2. w \in Entrants(k)' => w \in Entrants(k)
      BY <2>1 DEF Entrants
    <2>3. QED
      BY <2>1, <2>2, <1>a, <1>i, <1>q, <1>d, CountTypes
  <1>9. ASSUME NEW w \in Worker, TellBusy(w) \/ MarkProcessed(w)
        PROVE  Taken(k)' <= 1 + disturbed'[k]
    <2>1. /\ UNCHANGED <<turns, settled, stored, job, disturbed>>
          /\ MovesTo(w, "idle") \/ MovesTo(w, "clear")
      BY <1>9, Moves DEF TellBusy, MarkProcessed
    <2>2. QED
      BY <2>1, <1>a, <1>i, <1>o, <1>q, <1>d, CountTypes
  <1>10. ASSUME NEW w \in Worker, Reply(w) PROVE Taken(k)' <= 1 + disturbed'[k]
    <2>1. /\ UNCHANGED <<settled, stored, job, disturbed>>
          /\ pc[w] = "turn" /\ MovesTo(w, "release")
          /\ turns' = [turns EXCEPT ![on[w]] = @ + 1]
      BY <1>10, Moves DEF Reply
    <2>2. w \notin Runs(k)' /\ w \notin Entrants(k)'
      BY <2>1, <1>i, <1>o
    <2>3. Cardinality(Runs(k)') <= Cardinality(Runs(k))
      BY <2>1, <2>2, MoveCounts
    <2>4. turns'[k] + Cardinality(Entrants(k)') <= turns[k] + Cardinality(Entrants(k)) + 0
      <3>1. CASE k = on[w]
        <4>1. turns'[k] = turns[k] + 1
          BY <2>1, <3>1 DEF TypeOK
        <4>2. w \in Entrants(k)
          BY <2>1, <3>1 DEF Entrants
        <4>3. Cardinality(Entrants(k)') + 1 <= Cardinality(Entrants(k))
          BY <2>1, <2>2, <4>2, MoveCounts
        <4>4. QED
          BY <4>1, <4>3, CountTypes
      <3>2. CASE k # on[w]
        <4>1. turns'[k] = turns[k]
          BY <2>1, <3>2 DEF TypeOK
        <4>2. Cardinality(Entrants(k)') <= Cardinality(Entrants(k))
          BY <2>1, <2>2, MoveCounts
        <4>3. QED
          BY <4>1, <4>2, CountTypes
      <3>3. QED
        BY <3>1, <3>2
    <2>5. Pending(k)' <= Pending(k) + 0
      BY <2>1, <2>3, <1>q, CountTypes DEF Pending
    <2>6. QED
      BY <2>1, <2>4, <2>5, <1>m, <1>d, CountTypes, CountBound
  <1>11. ASSUME NEW w \in Worker, Clear(w) PROVE Taken(k)' <= 1 + disturbed'[k]
    <2>1. /\ UNCHANGED <<turns, stored, disturbed>> /\ pc[w] = "clear" /\ FinishJob(w)
          /\ MovesTo(w, "idle") /\ settled' = [settled EXCEPT ![on[w]] = {}]
      BY <1>11, Moves DEF Clear
    <2>2. part[w] # NoPart
      BY <2>1 DEF RunInv
    <2>3. /\ w \notin Runs(k)' /\ w \notin Entrants(k)'
      BY <2>1, <1>i, <1>o
    <2>4. /\ Cardinality(Queue(k)') <= Cardinality(Queue(k))
          /\ Cardinality(Runs(k)') <= Cardinality(Runs(k))
          /\ Cardinality(Entrants(k)') <= Cardinality(Entrants(k))
      BY <2>1, <2>2, <2>3, MoveCounts, TaskCounts
    <2>5. Missing(k) \subseteq Missing(k)'
      BY <2>1 DEF Missing, TypeOK
    <2>6. Cardinality(Missing(k)') >= Cardinality(Missing(k))
      BY <2>5, Finite, Sizes
    <2>7. Pending(k)' <= Pending(k) + 0
      BY <2>4, CountTypes DEF Pending
    <2>8. QED
      BY <2>1, <2>4, <2>6, <2>7, <1>d, CountTypes, CountBound
  <1>12. ASSUME NEW w \in Worker, Lapse(w) PROVE Taken(k)' <= 1 + disturbed'[k]
    <2>1. /\ UNCHANGED <<turns, settled, stored, job, runVars>>
          /\ disturbed'[k] >= disturbed[k]
      BY <1>12, DisturbCounts DEF Lapse, TypeOK
    <2>2. QED
      BY <2>1, <1>q, <1>z, CountTypes
  <1>13. ASSUME NEW j \in Jobs, Stall(j[1], j[2]) PROVE Taken(k)' <= 1 + disturbed'[k]
    <2>1. j[1] \in Message /\ j[2] \in Parts[j[1]]
      BY JobIs
    <2>2. /\ UNCHANGED <<turns, settled, stored, runVars>> /\ Disturb(j[1])
          /\ job' = [job EXCEPT ![<<j[1], j[2]>>] = "queued"]
      BY <1>13 DEF Stall
    <2>3. Runs(k)' = Runs(k) /\ Entrants(k)' = Entrants(k)
      BY <2>2 DEF Runs, Entrants
    <2>4. CASE k = j[1]
      <3>1. Cardinality(Queue(k)') <= Cardinality(Queue(k)) + 1
        BY <2>1, <2>2, QueueCounts
      <3>2. disturbed'[k] = disturbed[k] + 1
        BY <2>1, <2>2, <2>4, DisturbCounts
      <3>3. /\ Cardinality(Queue(k)') + Cardinality(Runs(k)')
                 <= Cardinality(Queue(k)) + Cardinality(Runs(k)) + 1
            /\ Cardinality(Entrants(k)') <= Cardinality(Entrants(k))
            /\ disturbed'[k] >= disturbed[k] + 1
        BY <2>3, <3>1, <3>2, CountTypes
      <3>4. 1 \in Nat
        OBVIOUS
      <3>5. QED
        BY <2>2, <3>3, <3>4, <1>c
    <2>5. CASE k # j[1]
      <3>1. Cardinality(Queue(k)') <= Cardinality(Queue(k))
        BY <2>1, <2>2, <2>5, QueueCounts
      <3>2. disturbed'[k] >= disturbed[k]
        BY <2>1, <2>2, DisturbCounts
      <3>3. QED
        BY <2>2, <3>1, <3>2, <1>z
    <2>6. QED
      BY <2>4, <2>5
  <1>14. ASSUME NEW w \in Worker, Throw(w) PROVE Taken(k)' <= 1 + disturbed'[k]
    <2>1. /\ UNCHANGED <<turns, settled, stored>> /\ MovesTo(w, "idle")
          /\ disturbed'[k] >= disturbed[k]
      BY <1>14, Moves, DisturbCounts DEF Throw, TypeOK
    <2>2. Cardinality(Queue(k)') <= Cardinality(Queue(k))
      BY <1>14, <1>q, TaskCounts, CountTypes DEF Throw
    <2>3. QED
      BY <2>1, <2>2, <1>a, <1>i, <1>o
  <1>15. ASSUME NEW w \in Worker,
         SettleThrows(w) \/ Crash(w) PROVE Taken(k)' <= 1 + disturbed'[k]
    <2>1. /\ UNCHANGED <<turns, settled, stored>> /\ MovesTo(w, "idle")
          /\ Disturb(on[w]) /\ on[w] \in Message
      BY <1>15, Moves DEF SettleThrows, Crash, TypeOK
    <2>2. /\ Cardinality(Queue(k)') <= Cardinality(Queue(k)) + 1
          /\ k # on[w] => Cardinality(Queue(k)') <= Cardinality(Queue(k))
      <3>1. CASE part[w] = NoPart
        <4>1. UNCHANGED job
          BY <1>15, <3>1 DEF SettleThrows, Crash, RunInv
        <4>2. QED
          BY <4>1, <1>q, CountTypes
      <3>2. CASE part[w] # NoPart
        <4>1. CASE SettleThrows(w)
          BY <3>2, <4>1, TaskCounts, CountTypes DEF SettleThrows
        <4>2. CASE Crash(w)
          <5>1. PICK v : job' = [job EXCEPT ![<<on[w], part[w]>>] = v]
            BY <3>2, <4>2 DEF Crash, Task
          <5>2. part[w] \in Parts[on[w]]
            BY <3>2, TaskIs
          <5>3. QED
            BY <2>1, <5>1, <5>2, QueueCounts
        <4>3. QED
          BY <1>15, <4>1, <4>2
      <3>3. QED
        BY <3>1, <3>2
    <2>3. /\ Cardinality(Runs(k)') <= Cardinality(Runs(k))
          /\ Cardinality(Entrants(k)') <= Cardinality(Entrants(k))
      BY <2>1, <1>i, <1>o, MoveCounts
    <2>4. CASE k = on[w]
      <3>1. disturbed'[k] = disturbed[k] + 1
        BY <2>1, <2>4, DisturbCounts
      <3>2. /\ Cardinality(Queue(k)') + Cardinality(Runs(k)')
                 <= Cardinality(Queue(k)) + Cardinality(Runs(k)) + 1
            /\ disturbed'[k] >= disturbed[k] + 1
        BY <2>2, <2>3, <3>1, CountTypes
      <3>3. 1 \in Nat
        OBVIOUS
      <3>4. QED
        BY <2>1, <2>3, <3>2, <3>3, <1>c
    <2>5. CASE k # on[w]
      <3>1. disturbed'[k] >= disturbed[k]
        BY <2>1, DisturbCounts
      <3>2. Cardinality(Queue(k)') + Cardinality(Runs(k)') <= Cardinality(Queue(k)) + Cardinality(Runs(k))
        BY <2>2, <2>3, <2>5, CountTypes
      <3>3. QED
        BY <2>1, <2>3, <3>1, <3>2, <1>n
    <2>6. QED
      BY <2>4, <2>5
  <1>16. CASE UNCHANGED <<turns, settled, stored, job, runVars, disturbed>>
    BY <1>16, <1>z, <1>q, <1>d, CountTypes
  <1>17. QED
    BY <1>1, <1>2, <1>3, <1>4, <1>5, <1>6, <1>7, <1>8, <1>9, <1>10, <1>11, <1>12, <1>13,
       <1>14, <1>15, <1>16 DEF Next, Step, Expire, vars

\* Before anything arrived there is one turn to come for each message: a text
\* not yet stored, or the last of the media parts.
LEMMA InitIInv == Init => IInv
  <1> SUFFICES ASSUME Init PROVE IInv
    OBVIOUS
  <1>1. TypeOK
    BY TurnAssumption, AnyMessageIs DEF Init, TypeOK, NoPart
  <1>2. TroubleInv /\ LockInv /\ RunInv
    BY AnyMessageIs DEF Init, TroubleInv, LockInv, RunInv, Past, InTurn
  <1>3. ASSUME NEW m \in Message PROVE Taken(m) <= 1 + disturbed[m]
    <2>1. Entrants(m) = {} /\ Runs(m) = {}
      BY DEF Init, Entrants, Runs
    <2>2. Queue(m) = Parts[m]
      BY PartIs DEF Init, Queue
    <2>3. Missing(m) = Parts[m]
      BY DEF Init, Missing
    <2>4. Cardinality(Parts[m]) \in Nat
      BY TurnAssumption, FS_CardinalityType
    <2>5. Pending(m) = Cardinality(Parts[m])
      BY <2>1, <2>2, <2>4, FS_EmptySet DEF Pending
    <2>6. Spare(m) = 1
      <3>1. CASE Parts[m] = {}
        BY <3>1 DEF Spare, Init
      <3>2. CASE Parts[m] # {}
        <4>1. Cardinality(Parts[m]) # 0
          BY <3>2, TurnAssumption, FS_EmptySet
        <4>2. QED
          BY <2>3, <2>4, <2>5, <3>2, <4>1 DEF Spare, Left
      <3>3. QED
        BY <3>1, <3>2
    <2>7. turns[m] = 0 /\ disturbed[m] = 0 /\ Cardinality(Entrants(m)) = 0
      BY <2>1, FS_EmptySet DEF Init
    <2>8. QED
      BY <2>6, <2>7 DEF Taken
  <1>4. QED
    BY <1>1, <1>2, <1>3 DEF IInv, CountInv

\* The inductive invariant holds in every reachable state.
THEOREM Invariance == Spec => []IInv
  <1>1. IInv /\ [Next]_vars => IInv'
    <2> SUFFICES ASSUME IInv, [Next]_vars PROVE IInv'
      OBVIOUS
    <2> USE DEF IInv
    <2>1. TypeOK' /\ TroubleInv'
      BY TypeStep
    <2>2. LockInv' /\ RunInv'
      BY LockStep, RunStep
    <2>3. CountInv'
      BY <2>1, CountStep
    <2>4. QED
      BY <2>1, <2>2, <2>3
  <1>2. QED
    BY InitIInv, <1>1, PTL DEF Spec

\* The variables keep their types: attempts of a job and disturbances stay
\* within their bounds.
THEOREM TypeCorrect == Spec => []TypeOK
  BY Invariance, PTL DEF IInv

\* The token compared on release and the lease of a dead holder never let a
\* second turn into a conversation: one of the two has outlived its lease.
THEOREM LockExcludes == Spec => []ExclusiveUnlessLapsed
  <1>1. IInv => ExclusiveUnlessLapsed
    BY DEF IInv, LockInv, ExclusiveUnlessLapsed
  <1>2. QED
    BY Invariance, <1>1, PTL

\* However media jobs run, fail, stall and run again, no turn starts before
\* each part of its message has its artifacts or was given up.
THEOREM TurnAfterAllParts == Spec => []TurnSeesAllParts
  <1>1. IInv => TurnSeesAllParts
    BY DEF IInv, RunInv, TurnSeesAllParts, Past
  <1>2. QED
    BY Invariance, <1>1, PTL

\* With any number of parts and runs, a turn past a message's first is owed to
\* a stall, a throw, a crash or a lapsed lease of one of its runs: neither
\* redelivered webhooks nor parts that settle together repeat it.
THEOREM TurnsAreExplained == Spec => []TurnsExplained
  <1>1. IInv => TurnsExplained
    <2> SUFFICES ASSUME IInv, NEW m \in Message PROVE turns[m] <= 1 + disturbed[m]
      BY DEF TurnsExplained
    <2>1. /\ turns[m] \in Nat /\ disturbed[m] \in Nat
          /\ Cardinality(Queue(m)) \in Nat /\ Cardinality(Runs(m)) \in Nat
          /\ Cardinality(Missing(m)) \in Nat /\ Cardinality(Entrants(m)) \in Nat
      BY TurnAssumption, Finite, FS_CardinalityType DEF IInv, TypeOK
    <2>2. Spare(m) \in Nat
      <3>1. Pending(m) \in Nat
        BY <2>1 DEF Pending
      <3>2. QED
        BY <2>1, <3>1, LeftType DEF Spare
    <2>3. Taken(m) <= 1 + disturbed[m]
      BY DEF IInv, CountInv
    <2>4. QED
      BY <2>1, <2>2, <2>3 DEF Taken
  <1>2. QED
    BY Invariance, <1>1, PTL
-----------------------------------------------------------------------------
(* The onboarding of a seller: VendorOnboarding.                           *)

\* What an instance knows was put before discovery, and what it takes for the
\* capability says more than an intent to sell.
Backed(d, known) ==
    /\ d.statements \subseteq known
    /\ d.capability # None => d.capability \in known \ Generic

\* Nothing is missing for a listing.
Listable(d) == d.capability # None /\ d.details = Detail

\* The profile is created from a row that has everything, and what is listed
\* was created so.
ProfileInv ==
    /\ Backed(data, observed) /\ Backed(result.data, observed)
    /\ state = "CreateProfile" => Listable(data)
    /\ result.to = "CreateProfile" => Listable(result.data)
    /\ vendor = "active" => profile = Detail /\ observed \ Generic # {}

\* Unless cut, a vendor is announced with its listing, and nothing but a
\* CreateProfile that has yet to run, or has run and is yet to be committed,
\* can be about to list it.
AnnouncedInv ==
    /\ vendor # "active" => announced = 0
    /\ ~cut =>
          /\ vendor = "active" => announced = 1
          /\ state = "CreateProfile" /\ phase # "commit" => vendor # "active"
          /\ result.to = "CreateProfile" => vendor # "active"

\* A result fits the state it was produced in.
Fits ==
    IF state = "CreateProfile" THEN result.to = "Complete"
    ELSE state # "Complete" /\ result.to \in Waiting \cup {"CreateProfile", "Complete"}

\* A turn takes two steps at most: to CreateProfile, and from it.
StepInv ==
    /\ state = "Complete" => status \notin Open
    /\ phase # "idle" =>
          /\ status \in Open /\ said = 0
          /\ steps <= IF state = "CreateProfile" THEN 1 ELSE 0
    /\ phase = "commit" =>
          /\ Fits
          /\ result.completes <=> result.to = "Complete"
          /\ result.reply <=> result.to # "CreateProfile"
    /\ phase # "commit" => result = NoResult
    /\ phase = "idle" => steps = 0

\* A cap of more than two steps is never reached.
CapInv ==
    /\ status # "failed" /\ said <= 1
    /\ phase = "idle" /\ status # "none" /\ breaks = 0 => said = 1

OnboardingInv ==
    /\ OnboardingTypeOK /\ ProfileInv /\ AnnouncedInv /\ StepInv
    /\ MaxSteps > 2 => CapInv

\* The states the definition has.
LEMMA StatesAre ==
    /\ State = {"AwaitCapability", "AwaitClarification", "AwaitLocation", "ConfirmState",
                "AwaitBusinessName", "AskCapability", "CreateProfile", "Complete"}
    /\ Waiting \subseteq State /\ "CreateProfile" \notin Waiting
       /\ "Complete" \notin Waiting
BY DEF State, Waiting

\* A row at its beginning knows nothing.
LEMMA InitialDataIs ==
    /\ InitialData \in Data
    /\ \A known : Backed(InitialData, known)
    /\ NoResult \in Result /\ NoResult.data = InitialData /\ NoResult.to = "AskCapability"
BY OnboardingAssumption DEF InitialData, Data, Backed, NoResult, Result, State, Waiting

\* What is merged from a message is backed by what discovery has had with it.
LEMMA PatchedIs ==
    ASSUME data \in Data, Backed(data, observed), NEW x \in Extraction,
           NEW known, known = observed \cup (IF IsNew(x) THEN {x.statement} ELSE {})
    PROVE  /\ Patched(x) \in Data
           /\ Backed(Patched(x), known)
<1>1. /\ x.statement \in Statement \cup {None} /\ x.details \subseteq Detail
      /\ x.inferred \in BOOLEAN
  BY DEF Extraction
<1>2. MergedCapability(x) \in Statement \cup {None}
  BY <1>1 DEF MergedCapability, Data
<1>3. MergedDetails(x) \subseteq Detail /\ ProposedAfter(x) \in BOOLEAN
  BY <1>1 DEF MergedDetails, ProposedAfter, Detail, Data
<1>4. MergedCapability(x) # None => MergedCapability(x) \in known \ Generic
  BY <1>1 DEF MergedCapability, Backed, IsNew
<1> DEFINE stated == data.statements \cup (IF IsNew(x) THEN {x.statement} ELSE {})
<1>5. stated \subseteq Statement /\ stated \subseteq known
  BY <1>1 DEF Backed, IsNew, Data
<1>6. Patched(x) = [capability |-> MergedCapability(x), details |-> MergedDetails(x),
                    clarificationAsked |-> data.clarificationAsked,
                    proposedState |-> ProposedAfter(x), statements |-> stated,
                    returningGreeted |-> data.returningGreeted]
  <2>1. Patched(x) = [data EXCEPT !.capability = MergedCapability(x),
                                  !.details = MergedDetails(x),
                                  !.proposedState = ProposedAfter(x),
                                  !.statements = stated]
    BY DEF Patched
  <2> HIDE DEF stated
  <2> QED
    BY <2>1 DEF Data
<1> HIDE DEF stated
<1>7. data.clarificationAsked \in BOOLEAN /\ data.returningGreeted \in BOOLEAN
  BY DEF Data
<1> QED
  BY <1>2, <1>3, <1>4, <1>5, <1>6, <1>7 DEF Data, Backed

\* The first field still missing decides where to wait; none is missing before
\* the profile is created.
LEMMA NextStateIs ==
    ASSUME NEW d \in Data
    PROVE  /\ NextStateFor(d) \in Waiting \cup {"CreateProfile"}
           /\ NextStateFor(d) = "CreateProfile" => Listable(d)
BY DEF NextStateFor, Waiting, Listable, Detail, Data

\* What handleTurn returns.
LEMMA TurnResultIs ==
    ASSUME data \in Data, Backed(data, observed), NEW x \in Extraction,
           NEW known, known = observed \cup (IF IsNew(x) THEN {x.statement} ELSE {})
    PROVE  /\ TurnResult(x) \in Result
           /\ Backed(TurnResult(x).data, known)
           /\ TurnResult(x).to \in Waiting \cup {"CreateProfile", "Complete"}
           /\ TurnResult(x).to = "CreateProfile" => Listable(TurnResult(x).data)
              /\ vendor # "active"
           /\ TurnResult(x).completes <=> TurnResult(x).to = "Complete"
           /\ TurnResult(x).reply <=> TurnResult(x).to # "CreateProfile"
<1> DEFINE d == Patched(x)
           r == TurnResult(x)
           asked == [d EXCEPT !.clarificationAsked = TRUE]
<1>1. d \in Data /\ Backed(d, known)
  BY PatchedIs
<1>2. asked \in Data /\ Backed(asked, known)
  <2> HIDE DEF d
  <2> QED
    BY <1>1 DEF Data, Backed
<1>3. /\ NextStateFor(d) \in Waiting \cup {"CreateProfile"}
      /\ NextStateFor(d) = "CreateProfile" => Listable(d)
  BY <1>1, NextStateIs
<1>4. /\ r.to = IF ShouldClarify(x) THEN "AwaitClarification"
                ELSE IF IsReturning THEN "Complete" ELSE NextStateFor(d)
      /\ r.data = IF ShouldClarify(x) THEN asked ELSE d
      /\ r = [to |-> r.to, completes |-> r.completes, reply |-> r.reply, data |-> r.data]
      /\ r.completes = (r.to = "Complete") /\ r.reply = (r.to # "CreateProfile")
  BY DEF TurnResult
<1> HIDE DEF d, r, asked
<1>5. r.to \in Waiting \cup {"CreateProfile", "Complete"} /\ r.data \in Data
  BY <1>1, <1>2, <1>3, <1>4 DEF Waiting
<1>6. /\ r \in Result
      /\ r.completes <=> r.to = "Complete"
      /\ r.reply <=> r.to # "CreateProfile"
  <2>1. r.completes \in BOOLEAN /\ r.reply \in BOOLEAN /\ r.to \in State
    BY <1>4, <1>5, StatesAre
  <2> QED
    BY <2>1, <1>4, <1>5 DEF Result
<1>7. r.to = "CreateProfile" => Listable(r.data) /\ vendor # "active"
  BY <1>3, <1>4 DEF IsReturning
<1> QED
  BY <1>1, <1>2, <1>4, <1>5, <1>6, <1>7 DEF r

\* A turn begins on the open row or on a fresh one, and an abandoned row is
\* put back to its beginning.
LEMMA RowStep == ASSUME OnboardingInv, BeginTurn \/ Abandon PROVE OnboardingInv'
<1> USE InitialDataIs, StatesAre DEF OnboardingInv, rowVars, vendorVars, turnVars, ghostVars
<1>1. ASSUME BeginTurn PROVE OnboardingInv'
  <2>1. /\ phase = "idle" /\ phase' = "exec" /\ said' = 0 /\ state' # "Complete"
        /\ status' \in Open /\ (state' = "CreateProfile" => state = "CreateProfile")
        /\ \/ UNCHANGED rowVars
           \/ FreshRow
        /\ UNCHANGED <<vendorVars, result, steps, breaks, cut>>
    BY <1>1 DEF BeginTurn, FreshRow, StepInv, Open
  <2>2. OnboardingTypeOK'
    BY <2>1 DEF OnboardingTypeOK, FreshRow
  <2>3. ProfileInv'
    BY <2>1 DEF ProfileInv, FreshRow
  <2>4. AnnouncedInv'
    BY <2>1 DEF AnnouncedInv
  <2>5. StepInv' /\ (CapInv => CapInv')
    BY <2>1 DEF StepInv, CapInv, Open
  <2> QED
    BY <2>2, <2>3, <2>4, <2>5
<1>2. ASSUME Abandon PROVE OnboardingInv'
  <2>1. OnboardingTypeOK' /\ ProfileInv' /\ AnnouncedInv'
    BY <1>2 DEF Abandon, OnboardingTypeOK, ProfileInv, AnnouncedInv
  <2>2. StepInv' /\ (CapInv => CapInv')
    BY <1>2 DEF Abandon, StepInv, CapInv, Fits, Open
  <2> QED
    BY <2>1, <2>2
<1> QED
  BY <1>1, <1>2

\* A handler returns a result that fits its state.
LEMMA HandlerStep ==
    ASSUME OnboardingInv,
           Greet \/ CreateProfile \/ \E x \in Extraction : HandleTurn(x)
    PROVE  OnboardingInv'
<1> USE StatesAre DEF OnboardingInv, rowVars, vendorVars, turnVars, ghostVars
<1>1. ASSUME Greet PROVE OnboardingInv'
  <2> DEFINE d == [data EXCEPT !.returningGreeted = TRUE]
  <2>1. /\ d \in Data /\ Backed(d, observed)
    BY DEF OnboardingTypeOK, ProfileInv, Data, Backed
  <2>2.
        /\ result' = [to |-> "AwaitCapability", completes |-> FALSE, reply |-> TRUE,
           data |-> d]
        /\ state \in Waiting \cup {"AskCapability"} /\ phase = "exec" /\ phase' = "commit"
        /\ UNCHANGED <<rowVars, vendorVars, steps, said, ghostVars>>
    BY <1>1 DEF Greet, GreetReturning, Handling
  <2> HIDE DEF d
  <2>3. result' \in Result
    BY <2>1, <2>2 DEF Result
  <2>4. OnboardingTypeOK'
    BY <2>2, <2>3 DEF OnboardingTypeOK
  <2>5. ProfileInv' /\ AnnouncedInv'
    BY <2>1, <2>2 DEF ProfileInv, AnnouncedInv
  <2>6. StepInv' /\ (CapInv => CapInv')
    BY <2>2 DEF StepInv, CapInv, Fits, Waiting
  <2> QED
    BY <2>4, <2>5, <2>6
<1>2. ASSUME CreateProfile PROVE OnboardingInv'
  <2>1. /\ result' = [to |-> "Complete", completes |-> TRUE, reply |-> TRUE, data |-> data]
        /\ state = "CreateProfile" /\ phase = "exec" /\ phase' = "commit"
        /\ vendor' = "active" /\ profile' = data.details /\ announced' = announced + 1
        /\ UNCHANGED <<rowVars, observed, steps, said, ghostVars>>
    BY <1>2 DEF CreateProfile, ProfileResult
  <2>2. result' \in Result
    BY <2>1 DEF Result, OnboardingTypeOK
  <2>3. OnboardingTypeOK'
    BY <2>1, <2>2 DEF OnboardingTypeOK, Data
  <2>4. ProfileInv'
    BY <2>1 DEF ProfileInv, Listable, Backed
  <2>5. AnnouncedInv'
    BY <2>1 DEF AnnouncedInv, OnboardingTypeOK
  <2>6. StepInv' /\ (CapInv => CapInv')
    BY <2>1 DEF StepInv, CapInv, Fits
  <2> QED
    BY <2>3, <2>4, <2>5, <2>6
<1>3. ASSUME NEW x \in Extraction, HandleTurn(x) PROVE OnboardingInv'
  <2>1. /\ state \in Waiting \cup {"AskCapability"} /\ phase = "exec" /\ phase' = "commit"
        /\ vendor' = EnsuredVendor /\ result' = TurnResult(x)
        /\ observed' = observed \cup (IF IsNew(x) THEN {x.statement} ELSE {})
        /\ UNCHANGED <<rowVars, profile, announced, steps, said, ghostVars>>
    BY <1>3 DEF HandleTurn, Handling
  <2>2. /\ result' \in Result
        /\ Backed(result'.data, observed')
        /\ result'.to \in Waiting \cup {"CreateProfile", "Complete"}
        /\ result'.to = "CreateProfile" => Listable(result'.data) /\ vendor # "active"
        /\ result'.completes <=> result'.to = "Complete"
        /\ result'.reply <=> result'.to # "CreateProfile"
    BY <2>1, TurnResultIs DEF OnboardingTypeOK, ProfileInv
  <2>3. /\ vendor' = "active" <=> vendor = "active"
        /\ vendor' \in {"none", "onboarding", "active"}
        /\ observed \subseteq observed' /\ observed' \subseteq Statement
    BY <2>1 DEF EnsuredVendor, IsNew, Extraction, OnboardingTypeOK
  <2>4. OnboardingTypeOK'
    BY <2>1, <2>2, <2>3 DEF OnboardingTypeOK
  <2>5. ProfileInv'
    BY <2>1, <2>2, <2>3 DEF ProfileInv, Backed
  <2>6. AnnouncedInv'
    BY <2>1, <2>2, <2>3 DEF AnnouncedInv
  <2>7. StepInv' /\ (CapInv => CapInv')
    BY <2>1, <2>2 DEF StepInv, CapInv, Fits
  <2> QED
    BY <2>4, <2>5, <2>6, <2>7
<1> QED
  BY <1>1, <1>2, <1>3

\* The engine commits what fits the state, so that neither its fallback nor,
\* below three steps, its cap is reached.
LEMMA CommitStep == ASSUME OnboardingInv, Commit PROVE OnboardingInv'
<1> USE StatesAre, InitialDataIs DEF OnboardingInv, vendorVars
<1>1. phase = "commit" /\ Fits /\ result \in Result /\ state \in State
  BY DEF Commit, StepInv, OnboardingTypeOK
<1>2. ~Undeclared(Allowed, state, result)
  BY <1>1 DEF Undeclared, Fits, Allowed, Waiting
<1> DEFINE over == steps + 1 = MaxSteps
<1>3. /\ state' = result.to /\ data' = result.data
      /\ status' = IF over THEN "failed" ELSE StatusAfter(Final, status, result)
      /\ said' = said + (IF result.reply THEN 1 ELSE 0) + (IF over THEN 1 ELSE 0)
      /\ IF over \/ Stops(Final, Waiting, state, result) THEN EndTurn
         ELSE phase' = "exec" /\ result' = NoResult /\ steps' = steps + 1
      /\ UNCHANGED <<vendorVars, breaks, cut>>
  BY <1>2 DEF Commit
<1>4. Stops(Final, Waiting, state, result) <=> result.to # "CreateProfile"
  BY <1>1 DEF Stops, Fits, Final, StepInv, Waiting
<1>5. /\ result.to = "Complete" => StatusAfter(Final, status, result) = "completed"
      /\ result.to # "Complete" => StatusAfter(Final, status, result) = "active"
  BY <1>1 DEF StatusAfter, Final, StepInv, Open
<1>6. /\ result.to = "CreateProfile" => state # "CreateProfile" /\ steps = 0
      /\ steps \in {0, 1} /\ said = 0
  BY <1>1 DEF Fits, StepInv, OnboardingTypeOK
<1>7. MaxSteps > 2 => ~over
  BY <1>6
<1>8. OnboardingTypeOK'
  BY <1>1, <1>3, <1>4, <1>5, <1>6, OnboardingAssumption
  DEF OnboardingTypeOK, EndTurn, Result, Open
<1>9. ProfileInv'
  BY <1>3 DEF ProfileInv, EndTurn
<1>10. AnnouncedInv'
  BY <1>1, <1>3 DEF AnnouncedInv, EndTurn, Fits
<1>11. StepInv'
  BY <1>1, <1>3, <1>4, <1>5, <1>6 DEF StepInv, EndTurn, Open
<1>12. MaxSteps > 2 => CapInv'
  BY <1>1, <1>3, <1>4, <1>5, <1>6, <1>7 DEF CapInv, StepInv
<1> QED
  BY <1>8, <1>9, <1>10, <1>11, <1>12

\* A turn that breaks off leaves the row as it was, and what it left in the
\* database can only add to what is known or set cut.
LEMMA BreakStep == ASSUME OnboardingInv, HandlerThrows \/ TurnDies PROVE OnboardingInv'
<1> USE StatesAre, InitialDataIs DEF OnboardingInv, rowVars, vendorVars, turnVars, ghostVars
<1>1. ASSUME HandlerThrows PROVE OnboardingInv'
  <2>1. /\ phase = "exec" /\ phase' = "idle" /\ result' = NoResult /\ steps' = 0
        /\ breaks < MaxBreaks /\ breaks' = breaks + 1
        /\ status' = "suspended" /\ said' = said + 1 /\ UNCHANGED <<state, data, announced>>
        /\ observed \subseteq observed' /\ observed' \subseteq Statement
        /\ vendor' \in {"none", "onboarding", "active"}
        /\ \/ UNCHANGED <<profile, cut>> /\ (vendor' = "active" <=> vendor = "active")
           \/ /\ state = "CreateProfile" /\ vendor' = "active" /\ profile' = data.details
              /\ cut' = TRUE
    BY <1>1 DEF HandlerThrows, DeadLetter, EndTurn, EnsuredVendor, Extraction, IsNew,
                OnboardingTypeOK
  <2>2. breaks' \in 0..MaxBreaks /\ breaks' # 0 /\ 0 \in 0..MaxSteps
    BY <2>1, OnboardingAssumption DEF OnboardingTypeOK
  <2>3. OnboardingTypeOK'
    <3>1. cut' \in BOOLEAN
      BY <2>1 DEF OnboardingTypeOK
    <3>2. profile' \subseteq Detail /\ said' \in Nat /\ status' \in Open
      BY <2>1 DEF OnboardingTypeOK, Open, Data
    <3> QED
      BY <2>1, <2>2, <3>1, <3>2 DEF OnboardingTypeOK
  <2>4. ProfileInv'
    BY <2>1 DEF ProfileInv, Backed, Listable
  <2>5. AnnouncedInv'
    BY <2>1 DEF AnnouncedInv
  <2>6. StepInv' /\ (CapInv => CapInv')
    BY <2>1, <2>2 DEF StepInv, CapInv, Open
  <2> QED
    BY <2>3, <2>4, <2>5, <2>6
<1>2. ASSUME TurnDies PROVE OnboardingInv'
  <2>1. /\ phase = "commit" /\ phase' = "idle" /\ result' = NoResult /\ steps' = 0
        /\ breaks < MaxBreaks /\ breaks' = breaks + 1
        /\ cut' = (cut \/ state = "CreateProfile")
        /\ said' \in {said, said + 1} /\ UNCHANGED <<rowVars, vendorVars>>
    BY <1>2 DEF TurnDies, EndTurn
  <2>2. /\ breaks' \in 0..MaxBreaks /\ breaks' # 0 /\ 0 \in 0..MaxSteps
        /\ cut' \in BOOLEAN /\ said' \in Nat
    BY <2>1, OnboardingAssumption DEF OnboardingTypeOK
  <2>3. OnboardingTypeOK'
    BY <2>1, <2>2 DEF OnboardingTypeOK
  <2>4. ProfileInv' /\ AnnouncedInv'
    BY <2>1 DEF ProfileInv, AnnouncedInv
  <2>5. StepInv' /\ (CapInv => CapInv')
    BY <2>1, <2>2 DEF StepInv, CapInv
  <2> QED
    BY <2>3, <2>4, <2>5
<1> QED
  BY <1>1, <1>2

\* The inductive invariant of the onboarding holds throughout.
THEOREM OnboardingInvariance == OnboardingSpec => []OnboardingInv
<1>1. OnboardingInit => OnboardingInv
  <2> SUFFICES ASSUME OnboardingInit PROVE OnboardingInv
    OBVIOUS
  <2>1. OnboardingTypeOK
    <3>1. 0 \in 0..MaxSteps /\ 0 \in 0..MaxBreaks
      BY OnboardingAssumption
    <3> QED
      BY <3>1, InitialDataIs, StatesAre DEF OnboardingInit, OnboardingTypeOK
  <2>2. ProfileInv /\ AnnouncedInv /\ StepInv /\ CapInv
    BY InitialDataIs
    DEF OnboardingInit, ProfileInv, AnnouncedInv, StepInv, CapInv, Open
  <2> QED
    BY <2>1, <2>2 DEF OnboardingInv
<1>2. OnboardingInv /\ [OnboardingNext]_onboardingVars => OnboardingInv'
  <2> SUFFICES ASSUME OnboardingInv, [OnboardingNext]_onboardingVars PROVE OnboardingInv'
    OBVIOUS
  <2>1. CASE UNCHANGED onboardingVars
    BY <2>1 DEF onboardingVars, rowVars, vendorVars, turnVars, ghostVars, OnboardingInv,
                OnboardingTypeOK, ProfileInv, AnnouncedInv, StepInv, CapInv, Fits
  <2> QED
    BY <2>1, RowStep, HandlerStep, CommitStep, BreakStep DEF OnboardingNext
<1> QED
  BY <1>1, <1>2, PTL DEF OnboardingSpec

\* Every variable of the onboarding model keeps its type.
THEOREM OnboardingTypeCorrect == OnboardingSpec => []OnboardingTypeOK
BY OnboardingInvariance, PTL DEF OnboardingInv

\* Whoever is searchable can be found: finalizeProfile is only ever reached
\* with a complete profile and a statement that discovery has had.
THEOREM ListedCanBeFound == OnboardingSpec => []ListedHasEvidence
<1>1. OnboardingInv => ListedHasEvidence
  BY DEF OnboardingInv, ProfileInv, ListedHasEvidence
<1> QED
  BY <1>1, OnboardingInvariance, PTL

\* A listing is announced exactly once, unless CreateProfile broke between its
\* effects and its update.
THEOREM AnnouncedWithListing == OnboardingSpec => []AnnouncedOnce
<1>1. OnboardingInv => AnnouncedOnce
  BY DEF OnboardingInv, AnnouncedInv, AnnouncedOnce
<1> QED
  BY <1>1, OnboardingInvariance, PTL

\* With room for three transitions (the code has room for twelve), no turn of
\* the onboarding fails, and each answers once: two is the most a turn takes.
THEOREM OnboardingAnswers == ASSUME MaxSteps > 2 PROVE OnboardingSpec => []AnswersOnce
<1>1. OnboardingInv => AnswersOnce
  <2> SUFFICES ASSUME OnboardingInv PROVE AnswersOnce
    OBVIOUS
  <2>1. CapInv /\ (state = "CreateProfile" => data.details = Detail)
    BY DEF OnboardingInv, ProfileInv, Listable
  <2> QED
    BY <2>1 DEF AnswersOnce, NeverFailed, CapInv, Detail
<1> QED
  BY <1>1, OnboardingInvariance, PTL
=============================================================================
