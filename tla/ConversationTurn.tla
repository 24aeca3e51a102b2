-------------------------- MODULE ConversationTurn --------------------------
(***************************************************************************)
(* From a webhook to one reply: intake, media jobs and the turn under the  *)
(* conversation lock (src/src/application/pipeline/                        *)
(* message-ingestion.service.ts, media-processing.processor.ts,            *)
(* redis-media-batch-tracker.ts, redis-distributed-lock.adapter.ts).       *)
(*                                                                         *)
(* A worker is one asynchronous run on some pod: the detached handling of  *)
(* a webhook, or a BullMQ media job.  TurnProcessor.process is one step    *)
(* here, Reply; WorkflowLifecycle models what it does to the workflows.    *)
(*                                                                         *)
(* BullMQ (external) runs a job at least once: a job whose worker died or  *)
(* stalled is queued again, the stalled run going on.  MaxTrouble bounds   *)
(* crashes, throws, stalls and outlived leases together; MaxWebhooks the   *)
(* webhooks that arrive; MaxTries is the jobs' attempts option.            *)
(***************************************************************************)
EXTENDS Integers, FiniteSets

CONSTANTS Message,
          Conv, ConvOf,
          Parts,     \* media parts of each message: a set, empty for plain text
          Workers,   \* runs at a time; a new run takes the first free slot
          NoOne,     \* the lock is free
          Dead,      \* the lock is held by a run that died
          MaxWebhooks, MaxTries, MaxTrouble

Worker == 1..Workers
AllParts == UNION {Parts[m] : m \in Message}
NoPart == 0

ASSUME TurnAssumption ==
    /\ Message # {}
    /\ ConvOf \in [Message -> Conv]
    /\ Parts \in [Message -> SUBSET (Nat \ {0})]
    /\ \A m \in Message : IsFiniteSet(Parts[m])
    /\ Workers \in Nat
    /\ NoOne \notin Worker /\ Dead \notin Worker /\ NoOne # Dead
    /\ MaxWebhooks \in Nat /\ MaxTries \in Nat \ {0} /\ MaxTrouble \in Nat

Jobs == {j \in Message \X AllParts : j[2] \in Parts[j[1]]}

VARIABLES webhooks,   \* webhooks so far
          stored,     \* messages with an inbound_messages row
          job,        \* BullMQ's view of each media job
          tries,      \* attempts of each job that failed
          done,       \* parts that have artifacts or were given up
          settled,    \* the tracker's Redis set per message
          holder,     \* who holds each conversation lock
          processed,  \* messages with processedAt
          pc,         \* where each worker is
          on,         \* its message
          part,       \* its media part; NoPart for a webhook's run
          lapsed,     \* workers whose lock lease ran out during their turn
          turns,      \* replies of a turn per message
          told,       \* messages answered, by a turn or by "try again shortly"
          trouble,
          disturbed   \* per message: what went wrong in its runs

storeVars == <<webhooks, stored, done, processed>>
queueVars == <<job, tries, settled>>
runVars == <<pc, on, part>>
lockVars == <<holder, lapsed>>
replyVars == <<turns, told>>
troubleVars == <<trouble, disturbed>>
vars == <<storeVars, queueVars, runVars, lockVars, replyVars, troubleVars>>

InTurn == {"turn", "release"}

TypeOK ==
    /\ webhooks \in 0..MaxWebhooks
    /\ stored \subseteq Message
    /\ job \in [Jobs -> {"none", "queued", "active", "finished"}]
    /\ tries \in [Jobs -> 0..MaxTries - 1]
    /\ done \subseteq Jobs
    /\ settled \in [Message -> SUBSET AllParts]
    /\ holder \in [Conv -> Worker \cup {NoOne, Dead}]
    /\ processed \subseteq Message
    /\ pc \in [Worker -> InTurn \cup {"idle", "store", "enqueue", "media", "settle",
                                     "check", "acquire", "busy", "mark", "clear"}]
    /\ on \in [Worker -> Message]
    /\ part \in [Worker -> AllParts \cup {NoPart}]
    /\ lapsed \subseteq Worker
    /\ turns \in [Message -> Nat]
    /\ told \subseteq Message
    /\ trouble \in 0..MaxTrouble
    /\ disturbed \in [Message -> 0..MaxTrouble]

AnyMessage == CHOOSE m \in Message : TRUE

Init ==
    /\ webhooks = 0
    /\ stored = {}
    /\ job = [j \in Jobs |-> "none"]
    /\ tries = [j \in Jobs |-> 0]
    /\ done = {}
    /\ settled = [m \in Message |-> {}]
    /\ holder = [c \in Conv |-> NoOne]
    /\ processed = {}
    /\ pc = [w \in Worker |-> "idle"]
    /\ on = [w \in Worker |-> AnyMessage]
    /\ part = [w \in Worker |-> NoPart]
    /\ lapsed = {}
    /\ turns = [m \in Message |-> 0]
    /\ told = {}
    /\ trouble = 0
    /\ disturbed = [m \in Message |-> 0]

Task(w) == <<on[w], part[w]>>
Lock(w) == ConvOf[on[w]]

Goto(w, l) == pc' = [pc EXCEPT ![w] = l] /\ UNCHANGED <<on, part>>

\* Worker w takes up message m, or its media part i.
Start(w, m, i, l) ==
    /\ pc' = [pc EXCEPT ![w] = l]
    /\ on' = [on EXCEPT ![w] = m]
    /\ part' = [part EXCEPT ![w] = i]

\* The run is over.
Stop(w) == Start(w, AnyMessage, NoPart, "idle")

\* Slot w is free and the first that is.
Vacant(w) ==
    /\ pc[w] = "idle"
    /\ \A v \in Worker : v < w => pc[v] # "idle"

Disturb(m) ==
    /\ trouble < MaxTrouble
    /\ trouble' = trouble + 1
    /\ disturbed' = [disturbed EXCEPT ![m] = @ + 1]
-----------------------------------------------------------------------------
(* Intake: MessageIngestionService.handle. *)

\* The controller answers 200 and hands the message to a detached handler.
Receive(w, m) ==
    /\ Vacant(w)
    /\ webhooks < MaxWebhooks
    /\ webhooks' = webhooks + 1
    /\ Start(w, m, NoPart, "store")
    /\ UNCHANGED <<stored, done, processed, queueVars, lockVars, replyVars, troubleVars>>

\* Mutant: the unique providerMessageId does not stop a second delivery.
StoreAgain(w) ==
    /\ pc[w] = "store"
    /\ stored' = stored \cup {on[w]}
    /\ Goto(w, IF Parts[on[w]] = {} THEN "acquire" ELSE "enqueue")
    /\ UNCHANGED <<webhooks, done, processed, queueVars, lockVars, replyVars, troubleVars>>

\* saveIncoming: a second delivery is a no-op.  Text goes on to its turn,
\* media waits for its jobs.
Store(w) ==
    /\ pc[w] = "store"
    /\ stored' = stored \cup {on[w]}
    /\ \/ on[w] \in stored /\ Stop(w)
       \/ /\ on[w] \notin stored
          /\ Goto(w, IF Parts[on[w]] = {} THEN "acquire" ELSE "enqueue")
    /\ UNCHANGED <<webhooks, done, processed, queueVars, lockVars, replyVars, troubleVars>>

\* One job per media part, in order; then the webhook's run is over.
Enqueue(w) ==
    /\ pc[w] = "enqueue"
    /\ LET left == {i \in Parts[on[w]] : job[<<on[w], i>>] = "none"}
       IN  \/ /\ left = {} /\ Stop(w)
              /\ UNCHANGED job
           \/ \E i \in left :
              /\ \A k \in left : i <= k
              /\ job' = [job EXCEPT ![<<on[w], i>>] = "queued"]
              /\ UNCHANGED runVars
    /\ UNCHANGED <<storeVars, tries, settled, lockVars, replyVars, troubleVars>>
-----------------------------------------------------------------------------
(* Media jobs: MediaProcessingProcessor.process. *)

StartJob(w, m, i) ==
    /\ Vacant(w)
    /\ job[<<m, i>>] = "queued"
    /\ job' = [job EXCEPT ![<<m, i>>] = "active"]
    /\ Start(w, m, i, "media")
    /\ UNCHANGED <<storeVars, tries, settled, lockVars, replyVars, troubleVars>>

\* The job threw: BullMQ queues it again while attempts remain.
Retry(w) ==
    /\ tries[Task(w)] + 1 < MaxTries
    /\ tries' = [tries EXCEPT ![Task(w)] = @ + 1]
    /\ job' = [job EXCEPT ![Task(w)] = "queued"]

\* Download, extraction and appendArtifacts; or a failure, retried by BullMQ
\* while it is retryable and attempts remain, otherwise given up.
Process(w) ==
    /\ pc[w] = "media"
    /\ \/ /\ done' = done \cup {Task(w)}
          /\ Goto(w, "settle")
          /\ UNCHANGED <<job, tries>>
       \/ /\ Retry(w)
          /\ Stop(w)
          /\ UNCHANGED done
    /\ UNCHANGED <<webhooks, stored, processed, settled, lockVars, replyVars, troubleVars>>

\* The job returns; BullMQ takes it off the active list, unless a stall had
\* put it back in the queue.
FinishJob(w) ==
    job' = [job EXCEPT ![Task(w)] = IF @ = "active" THEN "finished" ELSE @]

\* Mutant: the tracker counts settlements instead of the parts settled.
SettleCounting(w) ==
    /\ pc[w] = "settle"
    /\ settled' = [settled EXCEPT ![on[w]] =
                     IF part[w] \in @ THEN Parts[on[w]] ELSE @ \cup {part[w]}]
    /\ \/ /\ settled'[on[w]] = Parts[on[w]]
          /\ Goto(w, "check")
          /\ UNCHANGED job
       \/ /\ settled'[on[w]] # Parts[on[w]]
          /\ FinishJob(w) /\ Stop(w)
    /\ UNCHANGED <<storeVars, tries, lockVars, replyVars, troubleVars>>

\* Mutant: > for >=.
SettlePastTotal(w) ==
    /\ pc[w] = "settle"
    /\ settled' = [settled EXCEPT ![on[w]] = @ \cup {part[w]}]
    /\ \/ /\ Cardinality(settled'[on[w]]) > Cardinality(Parts[on[w]])
          /\ Goto(w, "check")
          /\ UNCHANGED job
       \/ /\ Cardinality(settled'[on[w]]) <= Cardinality(Parts[on[w]])
          /\ FinishJob(w) /\ Stop(w)
    /\ UNCHANGED <<storeVars, tries, lockVars, replyVars, troubleVars>>

\* markSettled: SADD and SCARD in one MULTI; whoever sees all parts resumes.
MarkSettled(w) ==
    /\ pc[w] = "settle"
    /\ settled' = [settled EXCEPT ![on[w]] = @ \cup {part[w]}]
    /\ \/ /\ settled'[on[w]] = Parts[on[w]]
          /\ Goto(w, "check")
          /\ UNCHANGED job
       \/ /\ settled'[on[w]] # Parts[on[w]]
          /\ FinishJob(w) /\ Stop(w)
    /\ UNCHANGED <<storeVars, tries, lockVars, replyVars, troubleVars>>

\* resumeAfterMedia: isProcessed is read outside the lock.
CheckProcessed(w) ==
    /\ pc[w] = "check"
    /\ Goto(w, IF on[w] \in processed THEN "clear" ELSE "acquire")
    /\ UNCHANGED <<storeVars, queueVars, lockVars, replyVars, troubleVars>>

\* The tracker's key is deleted and the job returns.
Clear(w) ==
    /\ pc[w] = "clear"
    /\ settled' = [settled EXCEPT ![on[w]] = {}]
    /\ FinishJob(w)
    /\ Stop(w)
    /\ UNCHANGED <<storeVars, tries, lockVars, replyVars, troubleVars>>

\* After the turn a job still has the tracker to clear.
Wrap(w) == IF part[w] = NoPart THEN Stop(w) ELSE Goto(w, "clear")
-----------------------------------------------------------------------------
(* runTurn: the turn under the conversation lock. *)

\* SET NX PX.
Acquire(w) ==
    /\ pc[w] = "acquire"
    /\ holder[Lock(w)] = NoOne
    /\ holder' = [holder EXCEPT ![Lock(w)] = w]
    /\ Goto(w, "turn")
    /\ UNCHANGED <<storeVars, queueVars, lapsed, replyVars, troubleVars>>

\* lockWaitMs has passed with the lock held by another.
GiveUp(w) ==
    /\ pc[w] = "acquire"
    /\ holder[Lock(w)] # NoOne
    /\ Goto(w, "busy")
    /\ UNCHANGED <<storeVars, queueVars, lockVars, replyVars, troubleVars>>

\* The user is told to try again; the message stays unprocessed.
TellBusy(w) ==
    /\ pc[w] = "busy"
    /\ told' = told \cup {on[w]}
    /\ Wrap(w)
    /\ UNCHANGED <<storeVars, queueVars, lockVars, turns, troubleVars>>

\* TurnProcessor.process has run and sent its reply.
Reply(w) ==
    /\ pc[w] = "turn"
    /\ turns' = [turns EXCEPT ![on[w]] = @ + 1]
    /\ told' = told \cup {on[w]}
    /\ Goto(w, "release")
    /\ UNCHANGED <<storeVars, queueVars, lockVars, troubleVars>>

\* Mutant: DEL without comparing the token.
FreeAny(w) == holder' = [holder EXCEPT ![Lock(w)] = NoOne]

\* The release script deletes the key only if it still holds w's token.
Free(w) ==
    holder' = IF holder[Lock(w)] = w
              THEN [holder EXCEPT ![Lock(w)] = NoOne] ELSE holder

Release(w) ==
    /\ pc[w] = "release"
    /\ Free(w)
    /\ lapsed' = lapsed \ {w}
    /\ Goto(w, "mark")
    /\ UNCHANGED <<storeVars, queueVars, replyVars, troubleVars>>

\* markProcessed comes after the lock was released.
MarkProcessed(w) ==
    /\ pc[w] = "mark"
    /\ processed' = processed \cup {on[w]}
    /\ Wrap(w)
    /\ UNCHANGED <<webhooks, stored, done, queueVars, lockVars, replyVars, troubleVars>>
-----------------------------------------------------------------------------
(* What goes wrong. *)

\* The lease (lockTtlMs, never extended) runs out during a turn.
Lapse(w) ==
    /\ pc[w] \in InTurn
    /\ holder[Lock(w)] = w
    /\ Disturb(on[w])
    /\ holder' = [holder EXCEPT ![Lock(w)] = NoOne]
    /\ lapsed' = lapsed \cup {w}
    /\ UNCHANGED <<storeVars, queueVars, runVars, replyVars>>

\* The lease of a dead holder runs out.
Expire(c) ==
    /\ holder[c] = Dead
    /\ holder' = [holder EXCEPT ![c] = NoOne]
    /\ UNCHANGED <<storeVars, queueVars, runVars, lapsed, replyVars, troubleVars>>

\* BullMQ takes a slow run for stalled and queues its job again.
Stall(m, i) ==
    /\ job[<<m, i>>] = "active"
    /\ Disturb(m)
    /\ job' = [job EXCEPT ![<<m, i>>] = "queued"]
    /\ UNCHANGED <<storeVars, tries, settled, runVars, lockVars, replyVars>>

\* A throw.  The turn frees its lock on the way out; a job logs a failed
\* resume and returns, a webhook's run is lost.
Throw(w) ==
    /\ pc[w] \in {"store", "enqueue", "check", "acquire", "busy", "turn", "mark", "clear"}
    /\ Disturb(on[w])
    /\ Free(w)
    /\ lapsed' = lapsed \ {w}
    /\ IF part[w] = NoPart THEN UNCHANGED job ELSE FinishJob(w)
    /\ Stop(w)
    /\ UNCHANGED <<storeVars, tries, settled, replyVars>>

\* markSettled throws: the whole job is tried again, or failed for good.
SettleThrows(w) ==
    /\ pc[w] = "settle"
    /\ Disturb(on[w])
    /\ \/ Retry(w)
       \/ /\ tries[Task(w)] + 1 = MaxTries
          /\ FinishJob(w)
          /\ UNCHANGED tries
    /\ Stop(w)
    /\ UNCHANGED <<storeVars, settled, lockVars, replyVars>>

\* The pod dies.  A lock it holds waits for its lease; its job is found
\* stalled and queued again.
Crash(w) ==
    /\ pc[w] # "idle"
    /\ Disturb(on[w])
    /\ holder' = IF holder[Lock(w)] = w
                 THEN [holder EXCEPT ![Lock(w)] = Dead] ELSE holder
    /\ lapsed' = lapsed \ {w}
    /\ job' = IF part[w] = NoPart THEN job
              ELSE [job EXCEPT ![Task(w)] = IF @ = "active" THEN "queued" ELSE @]
    /\ Stop(w)
    /\ UNCHANGED <<storeVars, tries, settled, replyVars>>
-----------------------------------------------------------------------------
Step(w) ==
    \/ Store(w)
    \/ Enqueue(w)
    \/ Process(w)
    \/ MarkSettled(w)
    \/ CheckProcessed(w)
    \/ Clear(w)
    \/ Acquire(w)
    \/ GiveUp(w)
    \/ TellBusy(w)
    \/ Reply(w)
    \/ Release(w)
    \/ MarkProcessed(w)

Next ==
    \/ \E w \in Worker :
          \/ \E m \in Message : Receive(w, m)
          \/ \E j \in Jobs : StartJob(w, j[1], j[2])
          \/ Step(w)
          \/ Lapse(w)
          \/ Throw(w)
          \/ SettleThrows(w)
          \/ Crash(w)
    \/ \E j \in Jobs : Stall(j[1], j[2])
    \/ \E c \in Conv : Expire(c)

Spec == Init /\ [][Next]_vars

\* Runs that have begun go on, queued jobs are picked up, leases expire.
\* Nothing obliges Meta to deliver.
Fairness ==
    /\ \A w \in Worker : WF_vars(Step(w))
    /\ \A j \in Jobs : WF_vars(\E w \in Worker : StartJob(w, j[1], j[2]))
    /\ \A c \in Conv : WF_vars(Expire(c))

FairSpec == Spec /\ Fairness
-----------------------------------------------------------------------------
\* Two turns run in one conversation only if the lease of one of them ran out:
\* waiting, releasing and crashing never let a second turn in.
ExclusiveUnlessLapsed ==
    \A v, w \in Worker :
        (v # w /\ pc[v] \in InTurn /\ pc[w] \in InTurn /\ Lock(v) = Lock(w))
            => v \in lapsed \/ w \in lapsed

\* A turn on a media message starts only when every part has its artifacts or
\* was given up, also when jobs run twice.
TurnSeesAllParts ==
    \A w \in Worker :
        pc[w] \in InTurn => \A i \in Parts[on[w]] : <<on[w], i>> \in done

\* A message gets one turn, and one more at most for each thing that went
\* wrong with it: redelivered webhooks and parts that finish together cause
\* none.
TurnsExplained == \A m \in Message : turns[m] <= 1 + disturbed[m]

\* A message that is stored gets an answer, unless one of its own runs broke.
StoredIsTold ==
    \A m \in Message : m \in stored ~> m \in told \/ disturbed[m] > 0
=============================================================================
