---------------------------- MODULE OutboundQueue ----------------------------
(***************************************************************************)
(* The durable outbound queue: a reply is written down, tried inline, and  *)
(* left to an interval sweep when the channel cannot take it               *)
(* (src/src/adapters/outbound/channel/durable-channel-notifier.ts,         *)
(* src/src/application/delivery/outbound-delivery.sweeper.ts,              *)
(* prisma-outbound-message.repository.ts).                                 *)
(*                                                                         *)
(* Messages are numbered by createdAt.  Each is sent by its own caller of  *)
(* DurableChannelNotifier.send; the turn of a conversation, a fan-out and  *)
(* a wallet notice call it concurrently.  Sweeper is the set of pods.      *)
(*                                                                         *)
(* A row is "due" once its nextAttemptAt has passed; lease and backoff are *)
(* the same column, so both end by BecomeDue.  Attempts saturate at        *)
(* MaxAttempts.  MaxTrouble bounds, together, crashes, failed writes and    *)
(* the times nextAttemptAt passes while someone has the row in hand.       *)
(***************************************************************************)
EXTENDS Integers, FiniteSets, FiniteSetsExt

CONSTANTS LastMessage,   \* messages are 1..LastMessage, oldest first
          Conv, ConvOf,
          TextOf,        \* trimmed response text; Blank for an interactive reply
          Sweeper,
          BatchSize,     \* BATCH_SIZE
          MaxAttempts,   \* MAX_OUTBOUND_ATTEMPTS
          MaxTrouble

Message == 1..LastMessage

\* The text of a reply that has none.
Blank == ""

ASSUME OutboundAssumption ==
    /\ LastMessage \in Nat
    /\ ConvOf \in [Message -> Conv]
    /\ TextOf \in [Message -> STRING]
    /\ IsFiniteSet(Sweeper)
    /\ BatchSize \in Nat \ {0}
    /\ MaxAttempts \in Nat \ {0}
    /\ MaxTrouble \in Nat

VARIABLES status,    \* OutboundMessage.status; "absent" before its transaction commits
          attempts,  \* OutboundMessage.attempts
          due,       \* pending rows whose nextAttemptAt has passed
          pc,        \* where the caller of send() is, per message
          act,       \* where each sweeper is
          claim,     \* rest of its batch, less blocked conversations: the attempt
                     \* number each message is on, from the count the claim read
          last,      \* lastSentTextPerConversation of the current drain
          arrivals,  \* how often each message reached the user
          refused,   \* messages some send answered non-retryable
          doubt,     \* per message: answers lost and leases outlived
          trouble

rowVars == <<status, attempts, due>>
sweepVars == <<act, claim, last>>
worldVars == <<arrivals, refused, doubt, trouble>>
vars == <<rowVars, pc, sweepVars, worldVars>>

Outcome == {"sent", "retry", "refused"}
Statuses == {"absent", "pending", "sent", "failed", "purged"}
Text == {Blank} \cup {TextOf[m] : m \in Message}

TypeOK ==
    /\ status \in [Message -> Statuses]
    /\ attempts \in [Message -> 0..MaxAttempts]
    /\ due \subseteq Message
    /\ pc \in [Message -> Outcome \cup
                 {"new", "counting", "clear", "behind", "sending", "direct", "done"}]
    /\ act \in [Sweeper -> Outcome \cup {"idle", "pick", "sending", "purge"}]
    /\ claim \in [Sweeper -> [Message -> 0..MaxAttempts]]
    /\ last \in [Sweeper -> [Conv -> Text]]
    /\ arrivals \in [Message -> Nat]
    /\ refused \subseteq Message
    /\ doubt \in [Message -> 0..MaxTrouble]
    /\ trouble \in 0..MaxTrouble

NoText == [c \in Conv |-> Blank]
NoClaim == [m \in Message |-> 0]

Init ==
    /\ status = [m \in Message |-> "absent"]
    /\ attempts = [m \in Message |-> 0]
    /\ due = {}
    /\ pc = [m \in Message |-> "new"]
    /\ act = [s \in Sweeper |-> "idle"]
    /\ claim = [s \in Sweeper |-> NoClaim]
    /\ last = [s \in Sweeper |-> NoText]
    /\ arrivals = [m \in Message |-> 0]
    /\ refused = {}
    /\ doubt = [m \in Message |-> 0]
    /\ trouble = 0
-----------------------------------------------------------------------------
\* What is left of a sweeper's batch; it is on the oldest.
Todo(s) == {m \in Message : claim[s][m] > 0}
Cur(s) == Min(Todo(s))

Sending == Outcome \cup {"sending"}

\* Somebody is attempting the message, or has it claimed.
InHand(m) == pc[m] \in Sending \/ \E s \in Sweeper : m \in Todo(s)

\* attempts: { increment: 1 }, saturated.
OneMore(n) == IF n < MaxAttempts THEN n + 1 ELSE n

\* One attempt of the channel adapter.  A retryable answer proves nothing was
\* sent; any other failure may have reached the user (a reset, a timeout, a
\* partly delivered reply).
Transmit(m, o) ==
    /\ \/ o \in {"sent", "refused"} /\ arrivals' = [arrivals EXCEPT ![m] = @ + 1]
       \/ o \in {"retry", "refused"} /\ UNCHANGED arrivals
    /\ refused' = IF o = "refused" THEN refused \cup {m} ELSE refused

\* markSent, scheduleRetry and markFailed update by id, whatever the status is.
Settle(m, o) ==
    /\ status' = [status EXCEPT ![m] =
                    CASE o = "sent" -> "sent"
                      [] o = "retry" -> "pending"
                      [] o = "refused" -> "failed"]
    /\ attempts' = [attempts EXCEPT ![m] = OneMore(@)]
    /\ due' = due \ {m}

\* A fault; a message whose commit or final outcome it may lose is in doubt.
Fault(Lost) ==
    /\ trouble < MaxTrouble
    /\ trouble' = trouble + 1
    /\ doubt' = [m \in Message |-> IF m \in Lost THEN doubt[m] + 1 ELSE doubt[m]]
    /\ UNCHANGED <<arrivals, refused>>
-----------------------------------------------------------------------------
(* DurableChannelNotifier.send. *)

\* A reply is composed: createdAt is taken before the transaction begins.
Compose(m) ==
    /\ pc[m] = "new"
    /\ \A n \in Message : n < m => pc[n] # "new"
    /\ pc' = [pc EXCEPT ![m] = "counting"]
    /\ UNCHANGED <<rowVars, sweepVars, worldVars>>

\* enqueue, inside the transaction: the row is written and the older pending
\* rows of the conversation that have committed are counted.
CountBacklog(m) ==
    /\ pc[m] = "counting"
    /\ pc' = [pc EXCEPT ![m] =
                IF \E n \in Message : /\ n < m
                                      /\ ConvOf[n] = ConvOf[m]
                                      /\ status[n] = "pending"
                THEN "behind" ELSE "clear"]
    /\ UNCHANGED <<rowVars, sweepVars, worldVars>>

\* enqueue commits; a reply with a backlog in front of it is left to the sweep.
CommitEnqueue(m) ==
    /\ pc[m] \in {"clear", "behind"}
    /\ status' = [status EXCEPT ![m] = "pending"]
    /\ pc' = [pc EXCEPT ![m] = IF pc[m] = "clear" THEN "sending" ELSE "done"]
    /\ UNCHANGED <<attempts, due, sweepVars, worldVars>>

\* The enqueue throws: the message is sent without being written down, or with
\* its row there all the same, when the commit went through and its answer was
\* lost.
EnqueueFails(m) ==
    /\ \/ /\ pc[m] \in {"counting", "clear", "behind"}
          /\ Fault({})
          /\ UNCHANGED status
       \/ /\ pc[m] \in {"clear", "behind"}
          /\ Fault({m})
          /\ status' = [status EXCEPT ![m] = "pending"]
    /\ pc' = [pc EXCEPT ![m] = "direct"]
    /\ UNCHANGED <<attempts, due, sweepVars>>

SendDirect(m) ==
    /\ pc[m] = "direct"
    /\ \E o \in Outcome : Transmit(m, o)
    /\ pc' = [pc EXCEPT ![m] = "done"]
    /\ UNCHANGED <<rowVars, sweepVars, doubt, trouble>>

SendInline(m) ==
    /\ pc[m] = "sending"
    /\ \E o \in Outcome : Transmit(m, o) /\ pc' = [pc EXCEPT ![m] = o]
    /\ UNCHANGED <<rowVars, sweepVars, doubt, trouble>>

SettleInline(m) ==
    /\ pc[m] \in Outcome
    /\ Settle(m, pc[m])
    /\ pc' = [pc EXCEPT ![m] = "done"]
    /\ UNCHANGED <<sweepVars, worldVars>>

\* settle() swallows a failed write, and a pod may die at any await: either
\* way the outcome of the attempt, if there was one, is not recorded.
AbandonInline(m) ==
    /\ pc[m] \notin {"new", "done"}
    /\ Fault(IF pc[m] \in {"sent", "refused"} THEN {m} ELSE {})
    /\ pc' = [pc EXCEPT ![m] = "done"]
    /\ UNCHANGED <<rowVars, sweepVars>>
-----------------------------------------------------------------------------
(* OutboundDeliverySweeper.sweep. *)

\* nextAttemptAt passes.  Nothing ties it to the attempt in progress: the
\* inline send may last 20 s and the first due time is 2.5 to 7.5 s away; a
\* batch of 50 slow sends outlasts the 60 s lease.
BecomeDue(m) ==
    /\ status[m] = "pending"
    /\ m \notin due
    /\ due' = due \cup {m}
    /\ IF InHand(m)
       THEN /\ trouble < MaxTrouble
            /\ trouble' = trouble + 1
            /\ doubt' = [doubt EXCEPT ![m] = @ + 1]
       ELSE UNCHANGED <<trouble, doubt>>
    /\ UNCHANGED <<status, attempts, pc, sweepVars, arrivals, refused>>

\* Rows whose outcome is being written, which SKIP LOCKED passes over.
BeingWritten ==
    {m \in Message : pc[m] \in Outcome}
      \cup {Cur(s) : s \in {t \in Sweeper : act[t] \in Outcome}}

\* The oldest BatchSize rows of S.
Oldest(S) == {m \in S : Cardinality({n \in S : n < m}) < BatchSize}

\* The sweeper takes the messages of S, each on its next attempt.
Take(s, S) ==
    claim' = [claim EXCEPT ![s] =
                [m \in Message |-> IF m \in S THEN OneMore(attempts[m]) ELSE 0]]

\* What claimDue may select: the oldest due rows that are not locked.
Claimable == {Oldest(due \ L) : L \in SUBSET BeingWritten}

\* Mutant: the claim reads the rows without leasing them.
ClaimWithoutLease(s) ==
    /\ act[s] = "idle"
    /\ \E S \in Claimable : Take(s, S)
    /\ act' = [act EXCEPT ![s] = "pick"]
    /\ UNCHANGED <<rowVars, pc, last, worldVars>>

\* claimDue: due pending rows, oldest first, leased by moving nextAttemptAt.
ClaimDue(s) ==
    /\ act[s] = "idle"
    /\ \E S \in Claimable : Take(s, S) /\ due' = due \ S
    /\ act' = [act EXCEPT ![s] = "pick"]
    /\ UNCHANGED <<status, attempts, pc, last, worldVars>>

\* A consecutive identical text of the same conversation counts as delivered.
Repeats(s, m) == TextOf[m] # Blank /\ last[s][ConvOf[m]] = TextOf[m]

\* Messages S leave the batch.
Drop(s, S) ==
    claim' = [claim EXCEPT ![s] = [m \in Message |-> IF m \in S THEN 0 ELSE @[m]]]

\* The loop over the batch.
Pick(s) ==
    /\ act[s] = "pick"
    /\ \/ /\ Todo(s) = {}
          /\ act' = [act EXCEPT ![s] = "purge"]
          /\ UNCHANGED <<rowVars, claim>>
       \/ /\ Todo(s) # {} /\ Repeats(s, Cur(s))
          /\ Settle(Cur(s), "sent")
          /\ Drop(s, {Cur(s)})
          /\ UNCHANGED act
       \/ /\ Todo(s) # {} /\ ~Repeats(s, Cur(s))
          /\ act' = [act EXCEPT ![s] = "sending"]
          /\ UNCHANGED <<rowVars, claim>>
    /\ UNCHANGED <<pc, last, worldVars>>

\* Mutant: one attempt too few.
ExhaustedEarly(n) == n >= MaxAttempts - 1

\* Mutant: the budget is never enforced.
ExhaustedNever(n) == FALSE

\* isExhausted
Exhausted(n) == n >= MaxAttempts

\* deliver: the budget is judged from the count the claim read.
SendSwept(s) ==
    /\ act[s] = "sending"
    /\ \E o \in Outcome :
          /\ Transmit(Cur(s), o)
          /\ act' = [act EXCEPT ![s] =
                       IF o = "retry" /\ Exhausted(claim[s][Cur(s)])
                       THEN "refused" ELSE o]
    /\ UNCHANGED <<rowVars, pc, claim, last, doubt, trouble>>

\* The outcome is recorded; a conversation whose message was not sent is
\* blocked for the rest of the batch.
SettleSwept(s) ==
    /\ act[s] \in Outcome
    /\ Settle(Cur(s), act[s])
    /\ IF act[s] = "sent"
       THEN /\ Drop(s, {Cur(s)})
            /\ last' = [last EXCEPT ![s][ConvOf[Cur(s)]] = TextOf[Cur(s)]]
       ELSE /\ Drop(s, {m \in Message : ConvOf[m] = ConvOf[Cur(s)]})
            /\ UNCHANGED last
    /\ act' = [act EXCEPT ![s] = "pick"]
    /\ UNCHANGED <<pc, worldVars>>

\* purgeSent, after the drain: rows sent 24 h ago, so none that is in hand.
Purge(s) ==
    /\ act[s] = "purge"
    /\ \E P \in SUBSET {m \in Message : status[m] = "sent" /\ ~InHand(m)} :
          status' = [m \in Message |-> IF m \in P THEN "purged" ELSE status[m]]
    /\ act' = [act EXCEPT ![s] = "idle"]
    /\ last' = [last EXCEPT ![s] = NoText]
    /\ UNCHANGED <<attempts, due, pc, claim, worldVars>>

\* A failed write escapes drain, or the pod dies: the batch is dropped.
AbandonSweep(s) ==
    /\ act[s] # "idle"
    /\ Fault(IF act[s] \in {"sent", "refused"} THEN {Cur(s)} ELSE {})
    /\ act' = [act EXCEPT ![s] = "idle"]
    /\ claim' = [claim EXCEPT ![s] = NoClaim]
    /\ last' = [last EXCEPT ![s] = NoText]
    /\ UNCHANGED <<rowVars, pc>>
-----------------------------------------------------------------------------
SendStep(m) ==
    \/ CountBacklog(m)
    \/ CommitEnqueue(m)
    \/ SendDirect(m)
    \/ SendInline(m)
    \/ SettleInline(m)

SweepStep(s) ==
    \/ ClaimDue(s)
    \/ Pick(s)
    \/ SendSwept(s)
    \/ SettleSwept(s)
    \/ Purge(s)

Next ==
    \/ \E m \in Message :
          \/ Compose(m)
          \/ SendStep(m)
          \/ EnqueueFails(m)
          \/ AbandonInline(m)
          \/ BecomeDue(m)
    \/ \E s \in Sweeper :
          \/ SweepStep(s)
          \/ AbandonSweep(s)

Spec == Init /\ [][Next]_vars

\* Calls and sweeps that have begun go on (every await has a deadline), sweeps
\* come round by @Interval, time passes.
Fairness ==
    /\ \A m \in Message : WF_vars(SendStep(m)) /\ WF_vars(BecomeDue(m))
    /\ \A s \in Sweeper : WF_vars(SweepStep(s))

FairSpec == Spec /\ Fairness
-----------------------------------------------------------------------------
\* A row reads 'sent' only when its text reached the conversation, and is
\* parked 'failed' only after a non-retryable answer or a spent budget:
\* whatever interleaves, no message is settled without a cause.
SettledForCause ==
    \A m \in Message :
        /\ status[m] \in {"sent", "purged"} =>
              \E n \in Message : /\ ConvOf[n] = ConvOf[m]
                                 /\ TextOf[n] = TextOf[m]
                                 /\ arrivals[n] > 0
        /\ status[m] = "failed" => m \in refused \/ attempts[m] = MaxAttempts

\* Each arrival past the first is owed to one lost outcome ("a lost markSent
\* costs at worst one duplicate"), to one lease outlived by its attempt or to an
\* enqueue that committed although it threw.
DuplicatesExplained == \A m \in Message : arrivals[m] <= 1 + doubt[m]

\* Every message written down is eventually settled for good, although a late
\* inline outcome may put a settled row back in the queue.
QueuedIsSettled ==
    \A m \in Message : status[m] = "pending" ~> [](status[m] # "pending")

\* Claimed at drain: a conversation whose oldest pending message failed "must
\* not have its later messages delivered ahead of it".
SweepKeepsOrder ==
    [][\A s \in Sweeper :
          (act[s] = "sending" /\ arrivals'[Cur(s)] > arrivals[Cur(s)]) =>
              ~\E n \in Message : /\ n < Cur(s)
                                  /\ ConvOf[n] = ConvOf[Cur(s)]
                                  /\ status[n] = "pending"
                                  /\ attempts[n] > 0
                                  /\ arrivals[n] = 0]_vars
=============================================================================
