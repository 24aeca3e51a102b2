------------------------- MODULE OutboundQueueProofs -------------------------
(***************************************************************************)
(* For any messages, conversations, pods, batch size, budget and number of *)
(* faults: no message is settled without a cause, and an arrival past the  *)
(* first is owed to a lost outcome or an outlived lease.                   *)
(***************************************************************************)
EXTENDS OutboundQueue, FiniteSetTheorems, WellFoundedInduction, TLAPS

\* A sweeper between batches has none, one on a message has it.
SweepInv ==
    \A s \in Sweeper : /\ act[s] \in {"idle", "purge"} => Todo(s) = {}
                       /\ act[s] \in Sending => Todo(s) # {}

\* Only a row that has been committed is due, claimed or being sent.
RowInv ==
    \A m \in Message :
        /\ m \in due => status[m] = "pending"
        /\ status[m] = "absent" => ~InHand(m)
        /\ pc[m] \in {"new", "counting", "clear", "behind"} => status[m] = "absent"

\* What an outcome rests on before it is written.
OutcomeInv ==
    /\ \A m \in Message : /\ pc[m] = "sent" => arrivals[m] > 0
                          /\ pc[m] = "refused" => m \in refused
    /\ \A s \in Sweeper :
          /\ act[s] = "sent" => arrivals[Cur(s)] > 0
          /\ act[s] = "refused" => Cur(s) \in refused \/ claim[s][Cur(s)] = MaxAttempts

\* Attempts are never lost, so a claim is at most one attempt ahead of its row.
ClaimInv == \A s \in Sweeper, m \in Message : claim[s][m] <= attempts[m] + 1

\* The text a drain compares with has reached the conversation.
LastInv ==
    \A s \in Sweeper, c \in Conv :
        last[s][c] # Blank => \E n \in Message : /\ ConvOf[n] = c
                                              /\ TextOf[n] = last[s][c]
                                              /\ arrivals[n] > 0

TroubleInv == \A m \in Message : doubt[m] <= trouble

\* Who may still make message m arrive: its caller, the sweepers that have it
\* claimed and have not sent it, and a sweeper yet to claim it.
Caller(m) ==
    IF pc[m] \in {"new", "counting", "clear", "behind", "direct", "sending", "retry"} THEN 1 ELSE 0
Ready(s, m) == m \in Todo(s) /\ (act[s] \in {"sent", "refused"} => m # Cur(s))
Senders(m) == {s \in Sweeper : Ready(s, m)}
Waits(m) == IF m \in due \/ (status[m] = "pending" /\ ~InHand(m)) THEN 1 ELSE 0

\* Every one of them beyond the first is owed to a doubt.
Count(m) == arrivals[m] + Caller(m) + Cardinality(Senders(m)) + Waits(m)
CountInv == \A m \in Message : Count(m) <= 1 + doubt[m]

IInv == /\ TypeOK /\ TroubleInv /\ SweepInv /\ RowInv
        /\ OutcomeInv /\ ClaimInv /\ LastInv /\ SettledForCause
        /\ CountInv

\* The order of the naturals, as a set of pairs.
Less == {p \in Nat \X Nat : p[1] < p[2]}

\* That order is well founded, which is the library's theorem.
LEMMA LessIsWellFounded == IsWellFoundedOn(Less, Nat)
  <1>1. OpToRel(<, Nat) = Less
    BY Zenon DEF OpToRel, Less
  <1>2. QED
    BY <1>1, NatLessThanWellFounded

\* A nonempty set of naturals has a least element, which Min is.
LEMMA MinIsIn ==
  ASSUME NEW S, S \subseteq Nat, S # {}
  PROVE  Min(S) \in S
  <1>1. PICK x \in S : \A y \in S : <<y, x>> \notin Less
    BY LessIsWellFounded, WFMin
  <1>2. ASSUME NEW y \in S PROVE x <= y
    <2>1. x \in Nat /\ y \in Nat /\ <<y, x>> \notin Less
      BY <1>1
    <2>2. ~(y < x)
      <3>1. SUFFICES ASSUME y < x PROVE <<y, x>> \in Less
        BY <2>1
      <3>2. <<y, x>> \in Nat \X Nat /\ <<y, x>>[1] = y /\ <<y, x>>[2] = x
        BY <2>1
      <3>3. QED
        BY <3>1, <3>2 DEF Less
    <2>3. QED
      BY <2>1, <2>2
  <1>3. QED
    BY <1>2 DEF Min

\* A sweeper with work left is on one of its messages.
LEMMA CurInTodo ==
  ASSUME NEW s \in Sweeper, Todo(s) # {}
  PROVE  Cur(s) \in Todo(s) /\ Cur(s) \in Message
  <1>1. Todo(s) \subseteq Nat
    BY OutboundAssumption DEF Todo, Message
  <1>2. Cur(s) \in Todo(s)
    BY <1>1, MinIsIn DEF Cur
  <1>3. QED
    BY <1>2 DEF Todo

\* The next attempt is within the budget, at most one more, and not fewer.
LEMMA OneMoreIs ==
  ASSUME NEW n \in 0..MaxAttempts
  PROVE  /\ OneMore(n) \in 1..MaxAttempts /\ n <= OneMore(n) /\ OneMore(n) <= n + 1
         /\ n >= MaxAttempts - 1 => OneMore(n) = MaxAttempts
  BY OutboundAssumption DEF OneMore

\* An exhausted budget is spent exactly.
LEMMA ExhaustedIs ==
  ASSUME NEW n \in 0..MaxAttempts, Exhausted(n)
  PROVE  n = MaxAttempts
  BY OutboundAssumption DEF Exhausted

\* Every initial state satisfies the inductive invariant.
LEMMA InitIInv == Init => IInv
  <1> SUFFICES ASSUME Init PROVE IInv
    OBVIOUS
  <1> USE OutboundAssumption DEF Init, NoClaim, NoText
  <1>1. TypeOK /\ TroubleInv
    BY DEF TypeOK, TroubleInv, Statuses, Outcome, Text
  <1>2. \A s \in Sweeper : Todo(s) = {}
    BY DEF Todo
  <1>3. SweepInv /\ RowInv /\ OutcomeInv /\ ClaimInv /\ LastInv /\ SettledForCause
    BY <1>2 DEF SweepInv, RowInv, OutcomeInv, ClaimInv, LastInv, SettledForCause, InHand,
                Sending, Outcome
  <1>4. CountInv
    <2> SUFFICES ASSUME NEW m \in Message PROVE Count(m) <= 1 + doubt[m]
      BY DEF CountInv
    <2>1. Caller(m) = 1 /\ Waits(m) = 0 /\ Senders(m) = {}
      BY <1>2 DEF Caller, Waits, Senders, Ready
    <2>2. QED
      BY <2>1, FS_EmptySet DEF Count
  <1>5. QED
    BY <1>1, <1>3, <1>4 DEF IInv

\* Types, and the count of troubles, survive every step.
LEMMA TypeStep == ASSUME TypeOK, SweepInv, TroubleInv, [Next]_vars PROVE TypeOK' /\ TroubleInv'
  <1> USE OutboundAssumption DEF TypeOK, TroubleInv, Statuses, Outcome, Text, rowVars, sweepVars,
                                 worldVars
  <1>s. ASSUME NEW m \in Message, NEW o \in Outcome, Settle(m, o)
        PROVE  /\ status' \in [Message -> Statuses]
               /\ attempts' \in [Message -> 0..MaxAttempts]
               /\ due' \subseteq Message
    <2>1. OneMore(attempts[m]) \in 0..MaxAttempts
      BY OneMoreIs
    <2>2. QED
      BY <1>s, <2>1 DEF Settle
  <1>t. ASSUME NEW m \in Message, NEW o \in Outcome, Transmit(m, o)
        PROVE  arrivals' \in [Message -> Nat] /\ refused' \subseteq Message
    BY <1>t DEF Transmit
  <1>d. ASSUME NEW s \in Sweeper, NEW S, Drop(s, S)
        PROVE  claim' \in [Sweeper -> [Message -> 0..MaxAttempts]]
    BY <1>d DEF Drop
  <1>f. ASSUME NEW D, Fault(D)
        PROVE  /\ doubt' \in [Message -> 0..MaxTrouble] /\ trouble' \in 0..MaxTrouble
               /\ TroubleInv' /\ arrivals' = arrivals /\ refused' = refused
    BY <1>f DEF Fault
  <1>1. ASSUME NEW m \in Message, Compose(m) \/ CountBacklog(m) \/ CommitEnqueue(m)
        PROVE  TypeOK' /\ TroubleInv'
    <2>1. CASE Compose(m)
      BY <2>1 DEF Compose
    <2>2. CASE CountBacklog(m)
      BY <2>2 DEF CountBacklog
    <2>3. CASE CommitEnqueue(m)
      BY <2>3 DEF CommitEnqueue
    <2>4. QED
      BY <1>1, <2>1, <2>2, <2>3
  <1>2. ASSUME NEW m \in Message, EnqueueFails(m) \/ AbandonInline(m)
        PROVE  TypeOK' /\ TroubleInv'
    BY <1>2, <1>f DEF EnqueueFails, AbandonInline
  <1>3. ASSUME NEW m \in Message, SendDirect(m) \/ SendInline(m) PROVE TypeOK' /\ TroubleInv'
    BY <1>3, <1>t DEF SendDirect, SendInline
  <1>4. ASSUME NEW m \in Message, SettleInline(m) PROVE TypeOK' /\ TroubleInv'
    BY <1>4, <1>s DEF SettleInline
  <1>5. ASSUME NEW m \in Message, BecomeDue(m) PROVE TypeOK' /\ TroubleInv'
    <2>1. /\ due' \subseteq Message
          /\ UNCHANGED <<status, attempts, pc, act, claim, last, arrivals, refused>>
      BY <1>5 DEF BecomeDue
    <2>2. CASE InHand(m)
      <3>1. trouble < MaxTrouble /\ trouble' = trouble + 1 /\ doubt' = [doubt EXCEPT ![m] = @ + 1]
        BY <1>5, <2>2 DEF BecomeDue
      <3>2. trouble' \in 0..MaxTrouble
        BY <3>1
      <3>3. \A n \in Message : doubt'[n] \in 0..MaxTrouble /\ doubt'[n] <= trouble'
        BY <3>1
      <3>4. doubt' \in [Message -> 0..MaxTrouble]
        BY <3>1, <3>3
      <3>5. QED
        BY <2>1, <3>2, <3>3, <3>4
    <2>3. CASE ~InHand(m)
      BY <1>5, <2>1, <2>3 DEF BecomeDue
    <2>4. QED
      BY <2>2, <2>3
  <1>6. ASSUME NEW s \in Sweeper, ClaimDue(s) PROVE TypeOK' /\ TroubleInv'
    <2>1. claim' \in [Sweeper -> [Message -> 0..MaxAttempts]]
      <3>1. \A m \in Message : OneMore(attempts[m]) \in 0..MaxAttempts
        BY OneMoreIs
      <3>2. QED
        BY <1>6, <3>1 DEF ClaimDue, Take
    <2>2. QED
      BY <1>6, <2>1 DEF ClaimDue
  <1>7. ASSUME NEW s \in Sweeper, Pick(s) PROVE TypeOK' /\ TroubleInv'
    <2>1. CASE Todo(s) # {} /\ Repeats(s, Cur(s))
      <3>1. Settle(Cur(s), "sent") /\ Drop(s, {Cur(s)}) /\ Cur(s) \in Message
        BY <1>7, <2>1, CurInTodo DEF Pick
      <3>2. /\ status' \in [Message -> Statuses]
            /\ attempts' \in [Message -> 0..MaxAttempts]
            /\ due' \subseteq Message
        BY <3>1, <1>s
      <3>3. claim' \in [Sweeper -> [Message -> 0..MaxAttempts]]
        BY <3>1, <1>d
      <3>4. QED
        BY <1>7, <2>1, <3>2, <3>3 DEF Pick
    <2>2. CASE Todo(s) = {} \/ ~Repeats(s, Cur(s))
      BY <1>7, <2>2 DEF Pick
    <2>3. QED
      BY <2>1, <2>2
  <1>8. ASSUME NEW s \in Sweeper, SendSwept(s) PROVE TypeOK' /\ TroubleInv'
    <2>1. Cur(s) \in Message
      BY <1>8, CurInTodo DEF SendSwept, SweepInv, Sending
    <2>2. QED
      BY <1>8, <2>1, <1>t DEF SendSwept
  <1>9. ASSUME NEW s \in Sweeper, SettleSwept(s) PROVE TypeOK' /\ TroubleInv'
    <2>1. Cur(s) \in Message
      BY <1>9, CurInTodo DEF SettleSwept, SweepInv, Sending
    <2>2. /\ status' \in [Message -> Statuses]
          /\ attempts' \in [Message -> 0..MaxAttempts]
          /\ due' \subseteq Message
      BY <1>9, <2>1, <1>s DEF SettleSwept
    <2>3. claim' \in [Sweeper -> [Message -> 0..MaxAttempts]]
      BY <1>9, <1>d DEF SettleSwept
    <2>4. last' \in [Sweeper -> [Conv -> Text]]
      <3>1. TextOf[Cur(s)] \in Text /\ ConvOf[Cur(s)] \in Conv
        BY <2>1
      <3> DEFINE f == [last[s] EXCEPT ![ConvOf[Cur(s)]] = TextOf[Cur(s)]]
      <3>2. f \in [Conv -> Text]
        BY <3>1
      <3>3. last' = last \/ last' = [last EXCEPT ![s] = f]
        BY <1>9 DEF SettleSwept
      <3> HIDE DEF f
      <3>4. QED
        BY <3>2, <3>3
    <2>5. QED
      BY <1>9, <2>2, <2>3, <2>4 DEF SettleSwept
  <1>10. ASSUME NEW s \in Sweeper, Purge(s) PROVE TypeOK' /\ TroubleInv'
    BY <1>10 DEF Purge, NoText
  <1>11. ASSUME NEW s \in Sweeper, AbandonSweep(s) PROVE TypeOK' /\ TroubleInv'
    BY <1>11, <1>f DEF AbandonSweep, NoText, NoClaim
  <1>12. CASE UNCHANGED vars
    BY <1>12 DEF vars
  <1>13. QED
    BY <1>1, <1>2, <1>3, <1>4, <1>5, <1>6, <1>7, <1>8, <1>9, <1>10, <1>11, <1>12
       DEF Next, SendStep, SweepStep

\* While the claims are what they were, so is every batch.
LEMMA TodoSame == ASSUME UNCHANGED claim PROVE \A t : Todo(t)' = Todo(t)
  BY DEF Todo

\* What the ways of writing a claim leave of the batches.
LEMMA TodoAfter ==
  ASSUME TypeOK, NEW s \in Sweeper, NEW S
  PROVE  /\ Drop(s, S) => \A t \in Sweeper : Todo(t)' = IF t = s THEN Todo(t) \ S ELSE Todo(t)
         /\ Take(s, S) /\ S \subseteq Message =>
               \A t \in Sweeper : Todo(t)' = IF t = s THEN S ELSE Todo(t)
         /\ claim' = [claim EXCEPT ![s] = NoClaim] =>
               \A t \in Sweeper : Todo(t)' = IF t = s THEN {} ELSE Todo(t)
  <1> USE OutboundAssumption DEF TypeOK
  <1>2. ASSUME Drop(s, S)
        PROVE  \A t \in Sweeper : Todo(t)' = IF t = s THEN Todo(t) \ S ELSE Todo(t)
    BY <1>2 DEF Todo, Drop
  <1>3. ASSUME Take(s, S), S \subseteq Message
        PROVE  \A t \in Sweeper : Todo(t)' = IF t = s THEN S ELSE Todo(t)
    <2>1. \A m \in Message : OneMore(attempts[m]) > 0
      BY OneMoreIs
    <2>2. QED
      BY <1>3, <2>1 DEF Todo, Take
  <1>4. ASSUME claim' = [claim EXCEPT ![s] = NoClaim]
        PROVE  \A t \in Sweeper : Todo(t)' = IF t = s THEN {} ELSE Todo(t)
    BY <1>4 DEF Todo, NoClaim
  <1>5. QED
    BY <1>2, <1>3, <1>4

\* A sweeper whose batch is what it was is on the message it was on.
LEMMA CurAfter == ASSUME NEW s, Todo(s)' = Todo(s) PROVE Cur(s)' = Cur(s)
  BY DEF Cur

\* A claim takes only due rows.
LEMMA ClaimableIsDue == \A S \in Claimable : S \subseteq due
  BY DEF Claimable, Oldest

\* A sweeper past its pick is on a message of its batch.
LEMMA SweeperIsOn ==
  ASSUME SweepInv, NEW s \in Sweeper, act[s] \in Sending
  PROVE  Cur(s) \in Todo(s) /\ Cur(s) \in Message
  BY CurInTodo DEF SweepInv

\* What has reached the user stays so, and attempts are never lost.
LEMMA OnlyMore ==
  ASSUME TypeOK, SweepInv, [Next]_vars
  PROVE  \A m \in Message : /\ arrivals'[m] >= arrivals[m]
                            /\ m \in refused => m \in refused'
                            /\ attempts'[m] >= attempts[m]
  <1> USE OutboundAssumption DEF TypeOK, rowVars, sweepVars, worldVars
  <1>s. ASSUME NEW m \in Message, NEW o, Settle(m, o)
        PROVE  \A n \in Message : attempts'[n] >= attempts[n]
    <2>1. OneMore(attempts[m]) >= attempts[m]
      BY OneMoreIs
    <2>2. QED
      BY <1>s, <2>1 DEF Settle
  <1>t. ASSUME NEW m \in Message, NEW o, Transmit(m, o)
        PROVE  \A n \in Message : arrivals'[n] >= arrivals[n] /\ (n \in refused => n \in refused')
    BY <1>t DEF Transmit
  <1>0. CASE UNCHANGED <<attempts, arrivals, refused>>
    BY <1>0
  <1>1. ASSUME NEW m \in Message, SendDirect(m) \/ SendInline(m)
        PROVE  \A n \in Message : /\ arrivals'[n] >= arrivals[n]
                                  /\ n \in refused => n \in refused'
                                  /\ attempts'[n] >= attempts[n]
    BY <1>1, <1>t DEF SendDirect, SendInline
  <1>2. ASSUME NEW m \in Message, SettleInline(m)
        PROVE  \A n \in Message : /\ arrivals'[n] >= arrivals[n]
                                  /\ n \in refused => n \in refused'
                                  /\ attempts'[n] >= attempts[n]
    BY <1>2, <1>s DEF SettleInline
  <1>3. ASSUME NEW s \in Sweeper, SendSwept(s)
        PROVE  \A n \in Message : /\ arrivals'[n] >= arrivals[n]
                                  /\ n \in refused => n \in refused'
                                  /\ attempts'[n] >= attempts[n]
    BY <1>3, <1>t, SweeperIsOn DEF SendSwept, Sending
  <1>4. ASSUME NEW s \in Sweeper, Pick(s) \/ SettleSwept(s), UNCHANGED <<arrivals, refused>>
        PROVE  \A n \in Message : /\ arrivals'[n] >= arrivals[n]
                                  /\ n \in refused => n \in refused'
                                  /\ attempts'[n] >= attempts[n]
    BY <1>4, <1>s, SweeperIsOn, CurInTodo DEF Pick, SettleSwept, Sending
  <1>5. QED
    BY <1>0, <1>1, <1>2, <1>3, <1>4
       DEF Next, SendStep, SweepStep, Compose, CountBacklog, CommitEnqueue, EnqueueFails, Fault,
           AbandonInline, BecomeDue, ClaimDue, Pick, SettleSwept, Purge, AbandonSweep, vars

\* Batches and places of the sweepers stay in step.
LEMMA SweepInvStep == ASSUME TypeOK, SweepInv, RowInv, [Next]_vars PROVE SweepInv'
  <1> USE DEF TypeOK, SweepInv, Sending, Outcome
  <1>1. CASE UNCHANGED <<act, claim>>
    BY <1>1, TodoSame
  <1>2. ASSUME NEW s \in Sweeper, ClaimDue(s) PROVE SweepInv'
    <2>1. PICK S \in Claimable : Take(s, S)
      BY <1>2 DEF ClaimDue
    <2>2. S \subseteq Message
      BY <2>1, ClaimableIsDue
    <2>3. \A t \in Sweeper : Todo(t)' = IF t = s THEN S ELSE Todo(t)
      BY <2>1, <2>2, TodoAfter
    <2>4. QED
      BY <1>2, <2>3 DEF ClaimDue
  <1>3. ASSUME NEW s \in Sweeper, Pick(s) PROVE SweepInv'
    <2>1. CASE UNCHANGED claim
      BY <1>3, <2>1, TodoSame DEF Pick
    <2>2. CASE Drop(s, {Cur(s)}) /\ UNCHANGED act
      BY <1>3, <2>2, TodoAfter DEF Pick
    <2>3. QED
      BY <1>3, <2>1, <2>2 DEF Pick
  <1>4. ASSUME NEW s \in Sweeper, SendSwept(s) PROVE SweepInv'
    BY <1>4, TodoSame DEF SendSwept
  <1>5. ASSUME NEW s \in Sweeper, SettleSwept(s) PROVE SweepInv'
    BY <1>5, TodoAfter DEF SettleSwept
  <1>6. ASSUME NEW s \in Sweeper, Purge(s) PROVE SweepInv'
    BY <1>6, TodoSame DEF Purge
  <1>7. ASSUME NEW s \in Sweeper, AbandonSweep(s) PROVE SweepInv'
    BY <1>7, TodoAfter DEF AbandonSweep
  <1>8. QED
    BY <1>1, <1>2, <1>3, <1>4, <1>5, <1>6, <1>7
       DEF Next, SendStep, SweepStep, Compose, CountBacklog, CommitEnqueue, SendDirect, SendInline,
           SettleInline, EnqueueFails, AbandonInline, BecomeDue, vars, sweepVars

\* A row stays committed, and only pending ones are due.
LEMMA RowInvStep == ASSUME TypeOK, SweepInv, RowInv, [Next]_vars PROVE RowInv'
  <1> USE DEF TypeOK, RowInv, InHand, Sending, Outcome, rowVars, sweepVars
  <1>0. CASE UNCHANGED <<rowVars, pc, claim>>
    BY <1>0, TodoSame
  <1>1. ASSUME NEW m \in Message, Compose(m) PROVE RowInv'
    BY <1>1, TodoSame DEF Compose
  <1>2. ASSUME NEW m \in Message, CountBacklog(m) PROVE RowInv'
    <2>1. PICK o \in {"behind", "clear"} : pc' = [pc EXCEPT ![m] = o]
      BY <1>2 DEF CountBacklog
    <2>2. QED
      BY <1>2, <2>1, TodoSame DEF CountBacklog
  <1>3. ASSUME NEW m \in Message, CommitEnqueue(m) PROVE RowInv'
    BY <1>3, TodoSame DEF CommitEnqueue
  <1>4. ASSUME NEW m \in Message, EnqueueFails(m) \/ SendDirect(m) \/ SendInline(m) PROVE RowInv'
    BY <1>4, TodoSame DEF EnqueueFails, SendDirect, SendInline
  <1>5. ASSUME NEW m \in Message, SettleInline(m) PROVE RowInv'
    BY <1>5, TodoSame DEF SettleInline, Settle
  <1>6. ASSUME NEW m \in Message, AbandonInline(m) PROVE RowInv'
    BY <1>6, TodoSame DEF AbandonInline
  <1>7. ASSUME NEW m \in Message, BecomeDue(m) PROVE RowInv'
    BY <1>7, TodoSame DEF BecomeDue
  <1>8. ASSUME NEW s \in Sweeper, ClaimDue(s) PROVE RowInv'
    <2>1. PICK S \in Claimable : Take(s, S) /\ due' = due \ S
      BY <1>8 DEF ClaimDue
    <2>2. S \subseteq due
      BY <2>1, ClaimableIsDue
    <2>3. \A t \in Sweeper : Todo(t)' = IF t = s THEN S ELSE Todo(t)
      BY <2>1, <2>2, TodoAfter
    <2>4. QED
      BY <1>8, <2>1, <2>2, <2>3 DEF ClaimDue
  <1>c. ASSUME NEW s \in Sweeper, NEW o \in Outcome, NEW S, Todo(s) # {}, Settle(Cur(s), o),
               Drop(s, S), UNCHANGED pc
        PROVE  RowInv'
    <2>1. Cur(s) \in Todo(s) /\ Cur(s) \in Message
      BY <1>c, CurInTodo
    <2>2. \A t \in Sweeper : Todo(t)' \subseteq Todo(t)
      BY <1>c, TodoAfter
    <2>3. status[Cur(s)] # "absent" /\ status'[Cur(s)] # "absent"
      BY <1>c, <2>1 DEF Settle
    <2>4. QED
      BY <1>c, <2>1, <2>2, <2>3 DEF Settle
  <1>9. ASSUME NEW s \in Sweeper, Pick(s) PROVE RowInv'
    <2>1. CASE UNCHANGED <<rowVars, claim>>
      BY <1>0, <1>9, <2>1 DEF Pick
    <2>2. CASE Todo(s) # {} /\ Settle(Cur(s), "sent") /\ Drop(s, {Cur(s)})
      BY <1>c, <1>9, <2>2 DEF Pick
    <2>3. QED
      BY <1>9, <2>1, <2>2 DEF Pick
  <1>10. ASSUME NEW s \in Sweeper, SettleSwept(s) PROVE RowInv'
    <2>1. Todo(s) # {}
      BY <1>10 DEF SettleSwept, SweepInv
    <2>2. PICK S : Drop(s, S)
      BY <1>10 DEF SettleSwept
    <2>3. QED
      BY <1>10, <1>c, <2>1, <2>2 DEF SettleSwept
  <1>11. ASSUME NEW s \in Sweeper, Purge(s) PROVE RowInv'
    BY <1>11, TodoSame DEF Purge
  <1>12. ASSUME NEW s \in Sweeper, AbandonSweep(s) PROVE RowInv'
    <2>1. \A t \in Sweeper : Todo(t)' \subseteq Todo(t)
      BY <1>12, TodoAfter DEF AbandonSweep
    <2>2. QED
      BY <1>12, <2>1 DEF AbandonSweep
  <1>13. QED
    BY <1>0, <1>1, <1>2, <1>3, <1>4, <1>5, <1>6, <1>7, <1>8, <1>9, <1>10, <1>11, <1>12
       DEF Next, SendStep, SweepStep, SendSwept, vars

\* An outcome keeps what it rests on until it is written.
LEMMA OutcomeInvStep == ASSUME TypeOK, TroubleInv, SweepInv, OutcomeInv, [Next]_vars PROVE OutcomeInv'
  <1>m. \A m \in Message : /\ arrivals[m] \in Nat /\ arrivals'[m] >= arrivals[m]
                           /\ arrivals[m] > 0 => arrivals'[m] > 0
                           /\ m \in refused => m \in refused'
    <2>1. \A m \in Message : arrivals[m] \in Nat /\ arrivals'[m] \in Nat
      BY TypeStep DEF TypeOK
    <2>2. QED
      BY <2>1, OnlyMore
  <1>q. \A s \in Sweeper : act[s] \in {"sent", "refused"} => Cur(s) \in Message
    BY SweeperIsOn DEF Sending, Outcome
  <1>p. ASSUME \A m \in Message :
                 /\ pc'[m] = "sent" => pc[m] = "sent" \/ arrivals'[m] > 0
                 /\ pc'[m] = "refused" => pc[m] = "refused" \/ m \in refused'
        PROVE  \A m \in Message : /\ pc'[m] = "sent" => arrivals'[m] > 0
                                  /\ pc'[m] = "refused" => m \in refused'
    BY <1>p, <1>m DEF OutcomeInv
  <1>k. ASSUME NEW s \in Sweeper, UNCHANGED <<act, claim>>
        PROVE  /\ act'[s] = "sent" => arrivals'[Cur(s)'] > 0
               /\ act'[s] = "refused" => Cur(s)' \in refused' \/ claim'[s][Cur(s)'] = MaxAttempts
    <2>1. Cur(s)' = Cur(s)
      BY <1>k, TodoSame, CurAfter
    <2>2. CASE act[s] \in {"sent", "refused"}
      BY <1>k, <2>1, <2>2, <1>m, <1>q DEF OutcomeInv
    <2>3. QED
      BY <1>k, <2>2
  <1>o. ASSUME NEW s \in Sweeper,
               \A t \in Sweeper \ {s} : act'[t] = act[t] /\ claim'[t] = claim[t] /\ Todo(t)' = Todo(t),
               act'[s] \notin {"sent", "refused"}, UNCHANGED pc
        PROVE  OutcomeInv'
    <2>1. ASSUME NEW t \in Sweeper, act'[t] \in {"sent", "refused"}
          PROVE  /\ act'[t] = "sent" => arrivals'[Cur(t)'] > 0
                 /\ act'[t] = "refused" =>
                       Cur(t)' \in refused' \/ claim'[t][Cur(t)'] = MaxAttempts
      <3>1. t # s
        BY <1>o, <2>1
      <3>2. act'[t] = act[t] /\ claim'[t] = claim[t] /\ Cur(t)' = Cur(t)
        BY <1>o, <3>1, CurAfter
      <3>3. QED
        BY <2>1, <3>2, <1>m, <1>q DEF OutcomeInv
    <2>2. QED
      BY <1>o, <1>p, <2>1 DEF OutcomeInv
  <1> USE DEF TypeOK, Outcome, rowVars, sweepVars, worldVars
  <1>1. ASSUME NEW m \in Message, UNCHANGED <<act, claim>>,
               \/ UNCHANGED pc
               \/ \E x : pc' = [pc EXCEPT ![m] = x] /\ x \notin {"sent", "refused"}
        PROVE  OutcomeInv'
    BY <1>1, <1>p, <1>k DEF OutcomeInv
  <1>2. ASSUME NEW m \in Message, SendInline(m) PROVE OutcomeInv'
    BY <1>2, <1>p, <1>k DEF OutcomeInv, SendInline, Transmit
  <1>3. ASSUME NEW m \in Message, CountBacklog(m) \/ CommitEnqueue(m) PROVE OutcomeInv'
    BY <1>1, <1>3 DEF CountBacklog, CommitEnqueue
  <1>4. ASSUME NEW m \in Message,
               \/ Compose(m) \/ EnqueueFails(m) \/ SendDirect(m)
               \/ SettleInline(m) \/ AbandonInline(m) \/ BecomeDue(m)
        PROVE  OutcomeInv'
    BY <1>1, <1>4 DEF Compose, EnqueueFails, SendDirect, SettleInline, AbandonInline, BecomeDue
  <1>5. ASSUME NEW s \in Sweeper, ClaimDue(s) PROVE OutcomeInv'
    <2>1. PICK S \in Claimable : Take(s, S)
      BY <1>5 DEF ClaimDue
    <2>2. S \subseteq Message
      BY <2>1, ClaimableIsDue
    <2>3. \A t \in Sweeper : Todo(t)' = IF t = s THEN S ELSE Todo(t)
      BY <2>1, <2>2, TodoAfter
    <2>4. QED
      <3>1. \A t \in Sweeper \ {s} : act'[t] = act[t] /\ claim'[t] = claim[t]
        BY <1>5, <2>1 DEF ClaimDue, Take
      <3>2. act'[s] \notin {"sent", "refused"} /\ UNCHANGED pc
        BY <1>5 DEF ClaimDue
      <3>3. QED
        BY <1>o, <2>3, <3>1, <3>2
  <1>6. ASSUME NEW s \in Sweeper, Pick(s) PROVE OutcomeInv'
    <2>1. CASE UNCHANGED claim
      BY <1>6, <1>o, <2>1, TodoSame DEF Pick
    <2>2. CASE Drop(s, {Cur(s)})
      <3>1. \A t \in Sweeper \ {s} : Todo(t)' = Todo(t) /\ claim'[t] = claim[t]
        <4>1. \A t \in Sweeper \ {s} : Todo(t)' = Todo(t)
          BY <2>2, TodoAfter
        <4>2. QED
          BY <2>2, <4>1 DEF Drop
      <3>2. QED
        BY <1>6, <1>o, <3>1 DEF Pick
    <2>3. QED
      BY <1>6, <2>1, <2>2 DEF Pick
  <1>7. ASSUME NEW s \in Sweeper, SendSwept(s) PROVE OutcomeInv'
    <2>1. Cur(s) \in Todo(s) /\ Cur(s) \in Message /\ claim[s][Cur(s)] \in 0..MaxAttempts
      BY <1>7, SweeperIsOn DEF SendSwept, Sending
    <2>2. \A t \in Sweeper : Cur(t)' = Cur(t) /\ claim'[t] = claim[t]
      BY <1>7, TodoSame, CurAfter DEF SendSwept
    <2>3. /\ act'[s] = "sent" => arrivals'[Cur(s)] > 0
          /\ act'[s] = "refused" => Cur(s) \in refused' \/ claim[s][Cur(s)] = MaxAttempts
      <3>1. PICK o \in Outcome :
                 /\ Transmit(Cur(s), o)
                 /\ act'[s] = IF o = "retry" /\ Exhausted(claim[s][Cur(s)]) THEN "refused" ELSE o
        BY <1>7 DEF SendSwept
      <3>2. CASE o = "sent"
        BY <3>1, <3>2, <2>1 DEF Transmit
      <3>3. CASE o = "refused"
        BY <3>1, <3>3 DEF Transmit
      <3>4. CASE o = "retry"
        <4>1. Exhausted(claim[s][Cur(s)]) => claim[s][Cur(s)] = MaxAttempts
          BY <2>1, ExhaustedIs
        <4>2. QED
          BY <3>1, <3>4, <4>1
      <3>5. QED
        BY <3>2, <3>3, <3>4
    <2>4. ASSUME NEW t \in Sweeper, t # s, act'[t] \in {"sent", "refused"}
          PROVE  /\ act'[t] = "sent" => arrivals'[Cur(t)] > 0
                 /\ act'[t] = "refused" => Cur(t) \in refused' \/ claim[t][Cur(t)] = MaxAttempts
      <3>1. act'[t] = act[t]
        BY <1>7, <2>4 DEF SendSwept
      <3>2. QED
        BY <2>4, <3>1, <1>m, <1>q DEF OutcomeInv
    <2>5. UNCHANGED pc
      BY <1>7 DEF SendSwept
    <2>6. QED
      BY <1>p, <2>2, <2>3, <2>4, <2>5 DEF OutcomeInv
  <1>8. ASSUME NEW s \in Sweeper, SettleSwept(s) PROVE OutcomeInv'
    <2>1. PICK S : Drop(s, S)
      BY <1>8 DEF SettleSwept
    <2>2. \A t \in Sweeper \ {s} : Todo(t)' = Todo(t) /\ claim'[t] = claim[t]
      <3>1. \A t \in Sweeper \ {s} : Todo(t)' = Todo(t)
        BY <2>1, TodoAfter
      <3>2. QED
        BY <2>1, <3>1 DEF Drop
    <2>3. QED
      BY <1>8, <1>o, <2>2 DEF SettleSwept
  <1>9. ASSUME NEW s \in Sweeper, Purge(s) PROVE OutcomeInv'
    BY <1>9, <1>o, TodoSame DEF Purge
  <1>10. ASSUME NEW s \in Sweeper, AbandonSweep(s) PROVE OutcomeInv'
    <2>1. \A t \in Sweeper \ {s} : Todo(t)' = Todo(t) /\ claim'[t] = claim[t]
      BY <1>10, TodoAfter DEF AbandonSweep
    <2>2. QED
      BY <1>10, <1>o, <2>1 DEF AbandonSweep
  <1>11. CASE UNCHANGED vars
    BY <1>11, <1>p, <1>k DEF vars, OutcomeInv
  <1>12. QED
    BY <1>2, <1>3, <1>4, <1>5, <1>6, <1>7, <1>8, <1>9, <1>10, <1>11
       DEF Next, SendStep, SweepStep

\* A claim stays at most one attempt ahead.
LEMMA ClaimInvStep == ASSUME TypeOK, SweepInv, ClaimInv, [Next]_vars PROVE ClaimInv'
  <1> SUFFICES ASSUME NEW t \in Sweeper, NEW m \in Message PROVE claim'[t][m] <= attempts'[m] + 1
    BY DEF ClaimInv
  <1> USE OutboundAssumption DEF TypeOK
  <1>1. claim[t][m] <= attempts[m] + 1 /\ attempts'[m] >= attempts[m]
    BY OnlyMore DEF ClaimInv
  <1>2. attempts'[m] \in Nat /\ attempts[m] \in Nat
    <2>1. ASSUME NEW n \in Message, NEW o, Settle(n, o) PROVE attempts'[m] \in Nat
      BY <2>1, OneMoreIs DEF Settle
    <2>2. CASE UNCHANGED attempts
      BY <2>2
    <2>3. ASSUME NEW s \in Sweeper, Pick(s) \/ SettleSwept(s) PROVE attempts'[m] \in Nat
      <3>1. act[s] \in Outcome => Cur(s) \in Message
        BY SweeperIsOn DEF Sending
      <3>2. Todo(s) # {} => Cur(s) \in Message
        BY CurInTodo
      <3>3. QED
        BY <2>1, <2>2, <2>3, <3>1, <3>2 DEF Pick, SettleSwept, rowVars
    <2>4. ASSUME NEW n \in Message, SettleInline(n) PROVE attempts'[m] \in Nat
      BY <2>1, <2>4 DEF SettleInline
    <2>5. ASSUME NEW n \in Message,
                 \/ Compose(n) \/ CountBacklog(n) \/ CommitEnqueue(n) \/ SendDirect(n)
                 \/ SendInline(n) \/ EnqueueFails(n) \/ AbandonInline(n) \/ BecomeDue(n)
          PROVE  UNCHANGED attempts
      BY <2>5 DEF Compose, CountBacklog, CommitEnqueue, SendDirect, SendInline, EnqueueFails,
                  AbandonInline, BecomeDue, rowVars
    <2>6. ASSUME NEW s \in Sweeper,
                 ClaimDue(s) \/ SendSwept(s) \/ Purge(s) \/ AbandonSweep(s)
          PROVE  UNCHANGED attempts
      BY <2>6 DEF ClaimDue, SendSwept, Purge, AbandonSweep, rowVars
    <2>7. QED
      BY <2>2, <2>3, <2>4, <2>5, <2>6 DEF Next, SendStep, SweepStep, vars, rowVars
  <1>3. CASE claim'[t][m] = 0 \/ claim'[t][m] = claim[t][m]
    BY <1>1, <1>2, <1>3
  <1>4. ASSUME NEW s \in Sweeper, NEW S, Drop(s, S)
        PROVE  claim'[t][m] = 0 \/ claim'[t][m] = claim[t][m]
    BY <1>4 DEF Drop
  <1>5. ASSUME NEW s \in Sweeper, NEW S, Take(s, S), UNCHANGED attempts
        PROVE  claim'[t][m] <= attempts'[m] + 1
    <2>1. OneMore(attempts[m]) <= attempts[m] + 1
      BY OneMoreIs
    <2>2. QED
      BY <1>1, <1>2, <1>5, <2>1 DEF Take
  <1>6. ASSUME NEW s \in Sweeper, AbandonSweep(s)
        PROVE  claim'[t][m] = 0 \/ claim'[t][m] = claim[t][m]
    BY <1>6 DEF AbandonSweep, NoClaim
  <1>7. QED
    BY <1>3, <1>4, <1>5, <1>6
       DEF Next, SendStep, SweepStep, Compose, CountBacklog, CommitEnqueue, SendDirect, SendInline,
           SettleInline, EnqueueFails, AbandonInline, BecomeDue, ClaimDue, Pick, SendSwept,
           SettleSwept, Purge, vars, rowVars, sweepVars

\* The text a drain remembers has reached the user.
LEMMA LastInvStep ==
  ASSUME TypeOK, TroubleInv, SweepInv, OutcomeInv, LastInv, [Next]_vars PROVE LastInv'
  <1>m. \A m \in Message : arrivals[m] > 0 => arrivals'[m] > 0
    <2>1. \A m \in Message : arrivals[m] \in Nat /\ arrivals'[m] \in Nat
      BY TypeStep DEF TypeOK
    <2>2. QED
      BY <2>1, OnlyMore
  <1> SUFFICES ASSUME NEW t \in Sweeper, NEW c \in Conv, last'[t][c] # Blank
               PROVE  \E n \in Message : /\ ConvOf[n] = c
                                         /\ TextOf[n] = last'[t][c]
                                         /\ arrivals'[n] > 0
    BY DEF LastInv
  <1>1. CASE last'[t][c] = last[t][c]
    BY <1>m, <1>1 DEF LastInv
  <1>2. ASSUME NEW s \in Sweeper, last' = [last EXCEPT ![s] = NoText]
        PROVE  last'[t][c] = last[t][c]
    BY <1>2 DEF TypeOK, NoText
  <1>3. ASSUME NEW s \in Sweeper, SettleSwept(s), last'[t][c] # last[t][c]
        PROVE  \E n \in Message : ConvOf[n] = c /\ TextOf[n] = last'[t][c] /\ arrivals'[n] > 0
    <2>1. Cur(s) \in Message
      BY <1>3, SweeperIsOn DEF SettleSwept, Sending
    <2>2. /\ act[s] = "sent" /\ t = s
          /\ ConvOf[Cur(s)] = c /\ TextOf[Cur(s)] = last'[t][c]
      BY <1>3 DEF SettleSwept, TypeOK
    <2>3. arrivals'[Cur(s)] > 0
      BY <2>1, <2>2, <1>m DEF OutcomeInv
    <2>4. QED
      BY <2>1, <2>2, <2>3
  <1>4. QED
    BY <1>1, <1>2, <1>3
       DEF Next, SendStep, SweepStep, Compose, CountBacklog, CommitEnqueue, SendDirect, SendInline,
           SettleInline, EnqueueFails, AbandonInline, BecomeDue, ClaimDue, Pick, SendSwept,
           Purge, AbandonSweep, vars, sweepVars

\* Delivered(m): a text equal to m's has reached m's conversation.
Delivered(m) == \E n \in Message : ConvOf[n] = ConvOf[m] /\ TextOf[n] = TextOf[m] /\ arrivals[n] > 0

\* Spent(m): m may be parked.
Spent(m) == m \in refused \/ attempts[m] = MaxAttempts

\* Whatever is settled in this step has its cause: the outcome that is written
\* rests on one, and a text taken as a repetition has been sent.
LEMMA CauseStep ==
  ASSUME TypeOK, TroubleInv, SweepInv, OutcomeInv, ClaimInv, LastInv, SettledForCause, [Next]_vars
  PROVE  SettledForCause'
  <1>m. \A m \in Message : /\ arrivals[m] > 0 => arrivals'[m] > 0
                           /\ m \in refused => m \in refused'
                           /\ attempts[m] = MaxAttempts => attempts'[m] = MaxAttempts
    <2>1. \A m \in Message : /\ arrivals[m] \in Nat /\ arrivals'[m] \in Nat
                             /\ attempts[m] \in Nat /\ attempts'[m] \in 0..MaxAttempts
      BY TypeStep, OutboundAssumption DEF TypeOK
    <2>2. QED
      BY <2>1, OnlyMore, OutboundAssumption
  <1>d. \A m \in Message : Delivered(m) => Delivered(m)'
    BY <1>m DEF Delivered
  <1>e. \A m \in Message : Spent(m) => Spent(m)'
    BY <1>m DEF Spent
  <1>i. \A m \in Message : /\ status[m] \in {"sent", "purged"} => Delivered(m)
                           /\ status[m] = "failed" => Spent(m)
    BY DEF SettledForCause, Delivered, Spent
  <1> SUFFICES ASSUME NEW m \in Message
               PROVE  /\ status'[m] \in {"sent", "purged"} => Delivered(m)'
                      /\ status'[m] = "failed" => Spent(m)'
    BY DEF SettledForCause, Delivered, Spent
  <1>1. CASE status'[m] = status[m] \/ status'[m] = "pending"
    BY <1>1, <1>d, <1>e, <1>i
  <1>2. ASSUME NEW n \in Message, NEW o \in Outcome, Settle(n, o),
               o = "sent" => Delivered(n), o = "refused" => Spent(n)'
        PROVE  /\ status'[m] \in {"sent", "purged"} => Delivered(m)'
               /\ status'[m] = "failed" => Spent(m)'
    <2>1. CASE n = m
      BY <1>2, <1>d, <2>1 DEF Settle, TypeOK, Outcome
    <2>2. CASE n # m
      BY <1>1, <1>2, <2>2 DEF Settle, TypeOK
    <2>3. QED
      BY <2>1, <2>2
  <1>3. ASSUME NEW n \in Message, SettleInline(n)
        PROVE  /\ status'[m] \in {"sent", "purged"} => Delivered(m)'
               /\ status'[m] = "failed" => Spent(m)'
    <2>1. pc[n] = "sent" => Delivered(n)
      BY DEF OutcomeInv, Delivered
    <2>2. pc[n] = "refused" => Spent(n)'
      BY <1>e DEF OutcomeInv, Spent
    <2>3. QED
      BY <1>2, <1>3, <2>1, <2>2 DEF SettleInline
  <1>4. ASSUME NEW s \in Sweeper, Pick(s)
        PROVE  /\ status'[m] \in {"sent", "purged"} => Delivered(m)'
               /\ status'[m] = "failed" => Spent(m)'
    <2>1. CASE UNCHANGED rowVars
      BY <1>1, <2>1 DEF rowVars
    <2>2. CASE Todo(s) # {} /\ Repeats(s, Cur(s)) /\ Settle(Cur(s), "sent")
      <3>1. Cur(s) \in Message /\ ConvOf[Cur(s)] \in Conv
        BY <2>2, CurInTodo, OutboundAssumption
      <3>2. Delivered(Cur(s))
        BY <2>2, <3>1 DEF Repeats, LastInv, Delivered
      <3>3. QED
        BY <1>2, <2>2, <3>1, <3>2 DEF Outcome
    <2>3. QED
      BY <1>4, <2>1, <2>2 DEF Pick
  <1>5. ASSUME NEW s \in Sweeper, SettleSwept(s)
        PROVE  /\ status'[m] \in {"sent", "purged"} => Delivered(m)'
               /\ status'[m] = "failed" => Spent(m)'
    <2>1. PICK c \in Message : c = Cur(s)
      BY <1>5, SweeperIsOn DEF SettleSwept, Sending
    <2>2. act[s] \in Outcome /\ Settle(c, act[s])
      BY <1>5, <2>1 DEF SettleSwept
    <2>3. act[s] = "sent" => Delivered(c)
      BY <2>1 DEF OutcomeInv, Delivered
    <2>4. act[s] = "refused" => Spent(c)'
      <3>1. CASE c \in refused
        BY <1>e, <3>1 DEF Spent
      <3>2. CASE claim[s][c] = MaxAttempts
        <4>1. attempts[c] >= MaxAttempts - 1 /\ attempts[c] \in 0..MaxAttempts
          BY <3>2, OutboundAssumption DEF ClaimInv, TypeOK
        <4>2. attempts'[c] = MaxAttempts
          BY <2>2, <4>1, OneMoreIs DEF Settle, TypeOK
        <4>3. QED
          BY <4>2 DEF Spent
      <3>3. QED
        BY <2>1, <3>1, <3>2 DEF OutcomeInv
    <2>5. QED
      BY <1>2, <2>2, <2>3, <2>4
  <1>6. ASSUME NEW s \in Sweeper, Purge(s)
        PROVE  /\ status'[m] \in {"sent", "purged"} => Delivered(m)'
               /\ status'[m] = "failed" => Spent(m)'
    <2>1. status'[m] = status[m] \/ (status[m] = "sent" /\ status'[m] = "purged")
      BY <1>6 DEF Purge
    <2>2. QED
      BY <1>1, <1>d, <1>i, <2>1
  <1>7. ASSUME NEW n \in Message, CommitEnqueue(n) \/ EnqueueFails(n)
        PROVE  status'[m] = status[m] \/ status'[m] = "pending"
    BY <1>7 DEF CommitEnqueue, EnqueueFails, TypeOK
  <1>8. QED
    BY <1>1, <1>3, <1>4, <1>5, <1>6, <1>7
       DEF Next, SendStep, SweepStep, Compose, CountBacklog, SendDirect, SendInline,
           AbandonInline, BecomeDue, ClaimDue, SendSwept, AbandonSweep, vars, rowVars

\* Two sets of sweepers that agree but for one.
LEMMA MoveOne ==
  ASSUME NEW A, NEW B, A \subseteq Sweeper, B \subseteq Sweeper, NEW s \in Sweeper,
         \A t \in Sweeper \ {s} : t \in A <=> t \in B
  PROVE  /\ Cardinality(A) \in Nat /\ Cardinality(B) \in Nat
         /\ Cardinality(B) <= Cardinality(A) + 1
         /\ (s \in B => s \in A) => Cardinality(B) <= Cardinality(A)
         /\ s \in A /\ s \notin B => Cardinality(B) = Cardinality(A) - 1
  <1>1. IsFiniteSet(A) /\ IsFiniteSet(B)
    BY OutboundAssumption, FS_Subset
  <1>2. Cardinality(A) \in Nat /\ Cardinality(B) \in Nat
    BY <1>1, FS_CardinalityType
  <1>3. CASE s \in A /\ s \notin B
    <2>1. B = A \ {s}
      BY <1>3
    <2>2. Cardinality(B) = Cardinality(A) - 1
      BY <1>1, <1>3, <2>1, FS_RemoveElement
    <2>3. QED
      BY <1>2, <1>3, <2>2
  <1>4. CASE s \notin A /\ s \in B
    <2>1. B = A \cup {s}
      BY <1>4
    <2>2. Cardinality(B) = Cardinality(A) + 1
      BY <1>1, <1>4, <2>1, FS_AddElement
    <2>3. QED
      BY <1>2, <1>4, <2>2
  <1>5. CASE s \in A <=> s \in B
    <2>1. A = B
      BY <1>5
    <2>2. QED
      BY <1>2, <2>1, <1>5
  <1>6. QED
    BY <1>3, <1>4, <1>5

\* The count of a message is one of numbers, before a step and after it.
LEMMA CountTypes ==
  ASSUME TypeOK, TroubleInv, SweepInv, [Next]_vars, NEW k \in Message
  PROVE  /\ Caller(k) \in 0..1 /\ Caller(k)' \in 0..1
         /\ Waits(k) \in 0..1 /\ Waits(k)' \in 0..1
         /\ Cardinality(Senders(k)) \in Nat /\ Cardinality(Senders(k)') \in Nat
         /\ arrivals[k] \in Nat /\ arrivals'[k] \in Nat
         /\ doubt[k] \in Nat /\ doubt'[k] \in Nat
  <1>1. Caller(k) \in 0..1 /\ Caller(k)' \in 0..1 /\ Waits(k) \in 0..1 /\ Waits(k)' \in 0..1
    BY DEF Caller, Waits
  <1>2. IsFiniteSet(Senders(k)) /\ IsFiniteSet(Senders(k)')
    <2>1. Senders(k) \subseteq Sweeper /\ Senders(k)' \subseteq Sweeper
      BY DEF Senders
    <2>2. QED
      BY <2>1, OutboundAssumption, FS_Subset
  <1>3. Cardinality(Senders(k)) \in Nat /\ Cardinality(Senders(k)') \in Nat
    BY <1>2, FS_CardinalityType
  <1>4. /\ arrivals[k] \in Nat /\ arrivals'[k] \in Nat
        /\ doubt[k] \in 0..MaxTrouble /\ doubt'[k] \in 0..MaxTrouble
    BY TypeStep DEF TypeOK
  <1>5. QED
    BY <1>1, <1>3, <1>4, OutboundAssumption

\* A step that adds no more to a message's count than to its doubt keeps the bound.
LEMMA CountKept ==
  ASSUME TypeOK, TroubleInv, SweepInv, CountInv, [Next]_vars, NEW k \in Message,
         arrivals'[k] + Caller(k)' + Cardinality(Senders(k)') + Waits(k)' + doubt[k]
           <= arrivals[k] + Caller(k) + Cardinality(Senders(k)) + Waits(k) + doubt'[k]
  PROVE  Count(k)' <= 1 + doubt'[k]
  <1>1. arrivals[k] + Caller(k) + Cardinality(Senders(k)) + Waits(k) <= 1 + doubt[k]
    BY DEF CountInv, Count
  <1> HIDE DEF Caller, Waits, Senders
  <1>2. arrivals'[k] + Caller(k)' + Cardinality(Senders(k)') + Waits(k)' <= 1 + doubt'[k]
    BY <1>1, CountTypes
  <1>3. QED
    BY <1>2 DEF Count

\* While sweepers stand still, so do the senders among them.
LEMMA SendersSame ==
  ASSUME UNCHANGED <<act, claim>>
  PROVE  \A k : Senders(k)' = Senders(k)
  <1>1. \A t : Todo(t)' = Todo(t) /\ Cur(t)' = Cur(t)
    BY TodoSame, CurAfter
  <1>2. \A k : \A t : Ready(t, k)' <=> Ready(t, k)
    BY <1>1 DEF Ready
  <1>3. QED
    BY <1>2 DEF Senders

\* A step of the caller, or of time, passes the right to send on at most once.
LEMMA CallerKeepsCount ==
  ASSUME TypeOK, TroubleInv, SweepInv, RowInv, CountInv, [Next]_vars, NEW m \in Message,
         Compose(m) \/ SendStep(m) \/ EnqueueFails(m) \/ AbandonInline(m) \/ BecomeDue(m)
  PROVE  CountInv'
  <1>1. UNCHANGED <<act, claim>>
    BY DEF Compose, SendStep, CountBacklog, CommitEnqueue, SendDirect, SendInline, SettleInline,
           EnqueueFails, AbandonInline, BecomeDue, sweepVars
  <1>2. \A t : Todo(t)' = Todo(t)
    BY <1>1, TodoSame
  <1>s. ASSUME NEW k \in Message,
               arrivals'[k] + Caller(k)' + Waits(k)' + doubt[k]
                 <= arrivals[k] + Caller(k) + Waits(k) + doubt'[k]
        PROVE  Count(k)' <= 1 + doubt'[k]
    <2>1. Senders(k)' = Senders(k)
      BY <1>1, SendersSame
    <2>2. arrivals'[k] + Caller(k)' + Cardinality(Senders(k)') + Waits(k)' + doubt[k]
            <= arrivals[k] + Caller(k) + Cardinality(Senders(k)) + Waits(k) + doubt'[k]
      BY <1>s, <2>1, CountTypes
    <2>3. QED
      BY <2>2, CountKept
  <1> SUFFICES ASSUME NEW k \in Message
               PROVE  arrivals'[k] + Caller(k)' + Waits(k)' + doubt[k]
                        <= arrivals[k] + Caller(k) + Waits(k) + doubt'[k]
    BY <1>s DEF CountInv
  <1>t. /\ Caller(k) \in 0..1 /\ Caller(k)' \in 0..1 /\ Waits(k) \in 0..1 /\ Waits(k)' \in 0..1
        /\ arrivals[k] \in Nat /\ arrivals'[k] \in Nat /\ doubt[k] \in Nat /\ doubt'[k] \in Nat
    BY CountTypes
  <1>3. CASE k # m
    <2>1. /\ pc'[k] = pc[k] /\ status'[k] = status[k] /\ (k \in due' <=> k \in due)
          /\ arrivals'[k] = arrivals[k] /\ doubt'[k] = doubt[k]
      BY <1>3 DEF TypeOK, Compose, SendStep, CountBacklog, CommitEnqueue, SendDirect, SendInline,
                  SettleInline, EnqueueFails, AbandonInline, BecomeDue, Settle, Transmit, Fault,
                  rowVars, worldVars
    <2>2. Caller(k)' = Caller(k) /\ Waits(k)' = Waits(k)
      BY <1>2, <2>1 DEF Caller, Waits, InHand
    <2>3. QED
      BY <1>t, <2>1, <2>2
  <1>4. CASE k = m
    <2>1. CASE Compose(m) \/ CountBacklog(m)
      <3>1. Caller(m) = 1 /\ Caller(m)' = 1
        BY <2>1 DEF Compose, CountBacklog, Caller, TypeOK
      <3>2. /\ UNCHANGED <<status, due, arrivals, doubt>>
            /\ pc[m] \notin Sending /\ pc'[m] \notin Sending
        BY <2>1 DEF Compose, CountBacklog, TypeOK, Sending, Outcome, rowVars, worldVars
      <3>3. Waits(m)' = Waits(m)
        BY <1>2, <3>2 DEF Waits, InHand
      <3>4. QED
        BY <1>t, <1>4, <3>1, <3>2, <3>3
    <2>2. CASE CommitEnqueue(m)
      <3>1. /\ UNCHANGED <<due, arrivals, doubt>>
            /\ status[m] = "absent" /\ m \notin due
            /\ Caller(m) = 1
        BY <2>2 DEF CommitEnqueue, RowInv, worldVars, Caller
      <3>2. Waits(m) = 0
        BY <3>1 DEF Waits
      <3>3. CASE pc[m] = "behind"
        <4>1. Caller(m)' = 0
          BY <2>2, <3>3 DEF CommitEnqueue, TypeOK, Caller
        <4>2. QED
          BY <1>t, <1>4, <3>1, <3>2, <4>1
      <3>4. CASE pc[m] = "clear"
        <4>1. Waits(m)' = 0
          BY <2>2, <3>1, <3>4 DEF CommitEnqueue, TypeOK, Waits, InHand, Sending
        <4>2. QED
          BY <1>t, <1>4, <3>1, <3>2, <4>1
      <3>5. QED
        BY <2>2, <3>3, <3>4 DEF CommitEnqueue
    <2>3. CASE EnqueueFails(m)
      <3>1. /\ UNCHANGED <<due, arrivals>>
            /\ status[m] = "absent" /\ m \notin due
            /\ Caller(m) = 1
        BY <2>3 DEF EnqueueFails, Fault, RowInv, Caller
      <3>2. Waits(m) = 0
        BY <3>1 DEF Waits
      <3>3. CASE UNCHANGED status /\ Fault({})
        <4>1. Waits(m)' = 0 /\ doubt'[m] = doubt[m]
          BY <3>1, <3>3 DEF Waits, Fault
        <4>2. QED
          BY <1>t, <1>4, <3>1, <3>2, <4>1
      <3>4. CASE Fault({m})
        <4>1. doubt'[m] = doubt[m] + 1
          BY <3>4 DEF Fault
        <4>2. QED
          BY <1>t, <1>4, <3>1, <3>2, <4>1
      <3>5. QED
        BY <2>3, <3>3, <3>4 DEF EnqueueFails
    <2>4. CASE SendDirect(m)
      <3>1. /\ UNCHANGED <<status, due, doubt>> /\ arrivals'[m] <= arrivals[m] + 1
            /\ pc[m] = "direct" /\ pc'[m] = "done"
        BY <2>4 DEF SendDirect, Transmit, TypeOK, rowVars
      <3>2. Waits(m)' = Waits(m)
        BY <1>2, <3>1 DEF Waits, InHand, Sending, Outcome
      <3>3. Caller(m) = 1 /\ Caller(m)' = 0
        BY <3>1 DEF Caller
      <3>4. QED
        BY <1>t, <1>4, <3>1, <3>2, <3>3
    <2>5. CASE SendInline(m)
      <3>1. /\ UNCHANGED <<status, due, doubt>>
            /\ pc[m] = "sending"
        BY <2>5 DEF SendInline, rowVars
      <3>2. PICK o \in Outcome : Transmit(m, o) /\ pc' = [pc EXCEPT ![m] = o]
        BY <2>5 DEF SendInline
      <3>3. pc'[m] = o
        BY <3>2 DEF TypeOK
      <3>4. Waits(m)' = Waits(m)
        BY <1>2, <3>1, <3>3 DEF Waits, InHand, Sending
      <3>5. Caller(m) = 1
        BY <3>1 DEF Caller
      <3>6. CASE o = "retry"
        <4>1. arrivals'[m] = arrivals[m]
          BY <3>2, <3>6 DEF Transmit
        <4>2. QED
          BY <1>t, <1>4, <3>1, <3>4, <3>5, <4>1
      <3>7. CASE o # "retry"
        <4>1. arrivals'[m] <= arrivals[m] + 1
          BY <3>2 DEF Transmit, TypeOK
        <4>2. Caller(m)' = 0
          BY <3>3, <3>7 DEF Caller, Outcome
        <4>3. QED
          BY <1>t, <1>4, <3>1, <3>4, <3>5, <4>1, <4>2
      <3>8. QED
        BY <3>6, <3>7
    <2>6. CASE SettleInline(m)
      <3>1. /\ UNCHANGED <<arrivals, doubt>> /\ m \notin due' /\ pc'[m] = "done"
        BY <2>6 DEF SettleInline, Settle, TypeOK, worldVars
      <3>2. Caller(m)' = 0
        BY <3>1 DEF Caller
      <3>3. CASE pc[m] = "retry"
        <4>1. Caller(m) = 1
          BY <3>3 DEF Caller
        <4>2. QED
          BY <1>t, <1>4, <3>1, <3>2, <4>1
      <3>4. CASE pc[m] \in {"sent", "refused"}
        <4>1. status'[m] # "pending"
          BY <2>6, <3>4 DEF SettleInline, Settle, TypeOK
        <4>2. Waits(m)' = 0
          BY <3>1, <4>1 DEF Waits
        <4>3. QED
          BY <1>t, <1>4, <3>1, <3>2, <4>2
      <3>5. QED
        BY <2>6, <3>3, <3>4 DEF SettleInline, Outcome
    <2>7. CASE AbandonInline(m)
      <3>1. UNCHANGED <<status, due, arrivals>> /\ pc'[m] = "done" /\ pc[m] \notin {"new", "done"}
        BY <2>7 DEF AbandonInline, Fault, TypeOK, rowVars
      <3>2. Caller(m)' = 0
        BY <3>1 DEF Caller
      <3>3. CASE pc[m] \in {"sent", "refused"}
        <4>1. doubt'[m] = doubt[m] + 1
          BY <2>7, <3>3 DEF AbandonInline, Fault
        <4>2. QED
          BY <1>t, <1>4, <3>1, <3>2, <4>1
      <3>4. CASE pc[m] \notin {"sent", "refused"}
        <4>1. doubt'[m] = doubt[m]
          BY <2>7, <3>4 DEF AbandonInline, Fault
        <4>2. Caller(m) = 1
          BY <3>1, <3>4 DEF Caller, TypeOK, Outcome
        <4>3. QED
          BY <1>t, <1>4, <3>1, <3>2, <4>1, <4>2
      <3>5. QED
        BY <3>3, <3>4
    <2>8. CASE BecomeDue(m)
      <3>1. UNCHANGED <<status, pc, arrivals>> /\ status[m] = "pending"
        BY <2>8 DEF BecomeDue
      <3>2. Caller(m)' = Caller(m)
        BY <3>1 DEF Caller
      <3>3. CASE InHand(m)
        <4>1. doubt'[m] = doubt[m] + 1
          BY <2>8, <3>3 DEF BecomeDue, TypeOK
        <4>2. QED
          BY <1>t, <1>4, <3>1, <3>2, <4>1
      <3>4. CASE ~InHand(m)
        <4>1. UNCHANGED doubt
          BY <2>8, <3>4 DEF BecomeDue
        <4>2. Waits(m) = 1
          BY <3>1, <3>4 DEF Waits
        <4>3. QED
          BY <1>t, <1>4, <3>1, <3>2, <4>1, <4>2
      <3>5. QED
        BY <3>3, <3>4
    <2>9. QED
      BY <2>1, <2>2, <2>3, <2>4, <2>5, <2>6, <2>7, <2>8 DEF SendStep
  <1>5. QED
    BY <1>3, <1>4

\* A step of a sweeper passes the right to send on at most once.
LEMMA SweeperKeepsCount ==
  ASSUME TypeOK, TroubleInv, SweepInv, RowInv, CountInv, [Next]_vars, NEW s \in Sweeper,
         SweepStep(s) \/ AbandonSweep(s)
  PROVE  CountInv'
  <1>1. /\ UNCHANGED pc
        /\ \A t \in Sweeper \ {s} : act'[t] = act[t] /\ claim'[t] = claim[t]
    BY DEF SweepStep, AbandonSweep, ClaimDue, Pick, SendSwept, SettleSwept, Purge, Take, Drop, TypeOK
  <1>2. \A t \in Sweeper \ {s} : Todo(t)' = Todo(t) /\ Cur(t)' = Cur(t)
    <2>1. \A t \in Sweeper \ {s} : Todo(t)' = Todo(t)
      BY <1>1 DEF Todo
    <2>2. QED
      BY <2>1, CurAfter
  <1>3. \A k : \A t \in Sweeper \ {s} : Ready(t, k)' <=> Ready(t, k)
    BY <1>1, <1>2 DEF Ready
  <1>c. \A k : Caller(k)' = Caller(k)
    BY <1>1 DEF Caller
  <1>w. ASSUME NEW k \in Message, k \in Todo(s)' <=> k \in Todo(s), status'[k] = status[k],
               k \in due' <=> k \in due
        PROVE  Waits(k)' = Waits(k)
    <2>1. InHand(k)' <=> InHand(k)
      BY <1>1, <1>2, <1>w DEF InHand
    <2>2. QED
      BY <1>w, <2>1 DEF Waits
  <1>m. ASSUME NEW k \in Message
        PROVE  /\ Cardinality(Senders(k)') <= Cardinality(Senders(k)) + 1
               /\ (Ready(s, k)' => Ready(s, k)) =>
                     Cardinality(Senders(k)') <= Cardinality(Senders(k))
               /\ Ready(s, k) /\ ~Ready(s, k)' =>
                     Cardinality(Senders(k)') = Cardinality(Senders(k)) - 1
    <2>1. Senders(k) \subseteq Sweeper /\ Senders(k)' \subseteq Sweeper
      BY DEF Senders
    <2>2. \A t \in Sweeper \ {s} : t \in Senders(k) <=> t \in Senders(k)'
      BY <1>3 DEF Senders
    <2>3. (s \in Senders(k) <=> Ready(s, k)) /\ (s \in Senders(k)' <=> Ready(s, k)')
      BY DEF Senders
    <2>4. QED
      BY <2>1, <2>2, <2>3, MoveOne
  <1>s. ASSUME NEW k \in Message,
               \/ /\ Ready(s, k)' => Ready(s, k)
                  /\ arrivals'[k] + Waits(k)' + doubt[k] <= arrivals[k] + Waits(k) + doubt'[k]
               \/ /\ Ready(s, k) /\ ~Ready(s, k)'
                  /\ arrivals'[k] + Waits(k)' + doubt[k] <= arrivals[k] + Waits(k) + doubt'[k] + 1
               \/ arrivals'[k] + Waits(k)' + doubt[k] + 1 <= arrivals[k] + Waits(k) + doubt'[k]
        PROVE  Count(k)' <= 1 + doubt'[k]
    <2> HIDE DEF Waits, Senders, Ready
    <2>1. arrivals'[k] + Caller(k)' + Cardinality(Senders(k)') + Waits(k)' + doubt[k]
            <= arrivals[k] + Caller(k) + Cardinality(Senders(k)) + Waits(k) + doubt'[k]
      BY <1>s, <1>c, <1>m, CountTypes
    <2>2. QED
      BY <2>1, CountKept
  <1> SUFFICES ASSUME NEW k \in Message PROVE Count(k)' <= 1 + doubt'[k]
    BY DEF CountInv
  <1>t. /\ Waits(k) \in 0..1 /\ Waits(k)' \in 0..1
        /\ arrivals[k] \in Nat /\ arrivals'[k] \in Nat /\ doubt[k] \in Nat /\ doubt'[k] \in Nat
    BY CountTypes
  <1>4. CASE ClaimDue(s)
    <2>1. PICK S \in Claimable : Take(s, S) /\ due' = due \ S
      BY <1>4 DEF ClaimDue
    <2>2. S \subseteq due
      BY <2>1, ClaimableIsDue
    <2>3. Todo(s)' = S /\ Todo(s) = {}
      <3>1. S \subseteq Message
        BY <2>2 DEF TypeOK
      <3>2. Todo(s)' = S
        BY <2>1, <3>1, TodoAfter
      <3>3. QED
        BY <1>4, <3>2 DEF ClaimDue, SweepInv
    <2>4. UNCHANGED <<status, arrivals, doubt>>
      BY <1>4 DEF ClaimDue, worldVars
    <2>5. CASE k \in S
      <3>1. Waits(k) = 1
        BY <2>2, <2>5 DEF Waits
      <3>2. Waits(k)' = 0
        <4>1. InHand(k)'
          BY <2>3, <2>5 DEF InHand
        <4>2. QED
          BY <2>1, <2>5, <4>1 DEF Waits
      <3>3. QED
        BY <1>s, <1>t, <2>4, <3>1, <3>2
    <2>6. CASE k \notin S
      <3>1. Waits(k)' = Waits(k)
        BY <1>w, <2>1, <2>3, <2>4, <2>6
      <3>2. ~Ready(s, k)'
        BY <2>3, <2>6 DEF Ready
      <3>3. QED
        BY <1>s, <1>t, <2>4, <3>1, <3>2
    <2>7. QED
      BY <2>5, <2>6
  <1>5. CASE Pick(s) /\ UNCHANGED <<rowVars, claim>>
    <2>1. UNCHANGED <<status, due, arrivals, doubt>> /\ act[s] = "pick"
      BY <1>5 DEF Pick, rowVars, worldVars
    <2>2. Todo(s)' = Todo(s)
      BY <1>5, TodoSame
    <2>3. Waits(k)' = Waits(k)
      BY <1>w, <2>1, <2>2
    <2>4. Ready(s, k)' => Ready(s, k)
      BY <2>1, <2>2 DEF Ready
    <2>5. QED
      BY <1>s, <1>t, <2>1, <2>3, <2>4
  <1>6. CASE Pick(s) /\ Todo(s) # {} /\ Settle(Cur(s), "sent") /\ Drop(s, {Cur(s)})
    <2>1. PICK c \in Message : c = Cur(s) /\ c \in Todo(s)
      BY <1>6, CurInTodo
    <2>2. Todo(s)' = Todo(s) \ {c}
      BY <1>6, <2>1, TodoAfter
    <2>3. /\ UNCHANGED <<arrivals, doubt>> /\ act[s] = "pick"
          /\ status' = [status EXCEPT ![c] = "sent"] /\ due' = due \ {c}
      BY <1>6, <2>1 DEF Pick, Settle, worldVars
    <2>4. CASE k = c
      <3>1. Waits(k)' = 0
        BY <2>3, <2>4 DEF Waits, TypeOK
      <3>2. Ready(s, k) /\ ~Ready(s, k)'
        BY <2>1, <2>2, <2>3, <2>4 DEF Ready
      <3>3. QED
        BY <1>s, <1>t, <2>3, <3>1, <3>2
    <2>5. CASE k # c
      <3>1. Waits(k)' = Waits(k)
        BY <1>w, <2>2, <2>3, <2>5 DEF TypeOK
      <3>2. Ready(s, k)' => Ready(s, k)
        BY <2>2, <2>3 DEF Ready
      <3>3. QED
        BY <1>s, <1>t, <2>3, <3>1, <3>2
    <2>6. QED
      BY <2>4, <2>5
  <1>7. CASE SendSwept(s)
    <2>1. PICK c \in Message : c = Cur(s) /\ c \in Todo(s)
      BY <1>7, SweeperIsOn DEF SendSwept, Sending
    <2>2. PICK o \in Outcome :
             /\ Transmit(c, o)
             /\ act' = [act EXCEPT ![s] =
                          IF o = "retry" /\ Exhausted(claim[s][c]) THEN "refused" ELSE o]
      BY <1>7, <2>1 DEF SendSwept
    <2>3. UNCHANGED <<status, due, claim, doubt>> /\ act[s] = "sending"
      BY <1>7 DEF SendSwept, rowVars
    <2>4. Todo(s)' = Todo(s) /\ Cur(s)' = c
      BY <2>1, <2>3, TodoSame, CurAfter
    <2>5. Waits(k)' = Waits(k)
      BY <1>w, <2>3, <2>4
    <2>6. Ready(s, k)' => Ready(s, k)
      BY <2>3, <2>4 DEF Ready
    <2>7. CASE k # c \/ o = "retry"
      <3>1. arrivals'[k] = arrivals[k]
        BY <2>2, <2>7 DEF Transmit, TypeOK
      <3>2. QED
        BY <1>s, <1>t, <2>3, <2>5, <2>6, <3>1
    <2>8. CASE k = c /\ o # "retry"
      <3>1. arrivals'[k] <= arrivals[k] + 1
        BY <2>2, <2>8 DEF Transmit, TypeOK
      <3>2. act'[s] \in {"sent", "refused"}
        BY <2>2, <2>8 DEF Outcome, TypeOK
      <3>3. Ready(s, k) /\ ~Ready(s, k)'
        BY <2>1, <2>3, <2>4, <2>8, <3>2 DEF Ready
      <3>4. QED
        BY <1>s, <1>t, <2>3, <2>5, <3>1, <3>3
    <2>9. QED
      BY <2>7, <2>8
  <1>8. CASE SettleSwept(s)
    <2>1. PICK c \in Message : c = Cur(s) /\ c \in Todo(s)
      BY <1>8, SweeperIsOn DEF SettleSwept, Sending
    <2>2. /\ UNCHANGED <<arrivals, doubt>> /\ act[s] \in Outcome
          /\ Settle(c, act[s])
      BY <1>8, <2>1 DEF SettleSwept, worldVars
    <2>3. PICK S : c \in S /\ Drop(s, S)
      BY <1>8, <2>1 DEF SettleSwept
    <2>4. Todo(s)' = Todo(s) \ S
      BY <2>3, TodoAfter
    <2>5. CASE k = c
      <3>1. ~Ready(s, k)' /\ k \notin due'
        BY <2>2, <2>3, <2>4, <2>5 DEF Ready, Settle
      <3>2. CASE act[s] = "retry"
        <4>1. Ready(s, k)
          BY <2>1, <2>5, <3>2 DEF Ready
        <4>2. QED
          BY <1>s, <1>t, <2>2, <3>1, <4>1
      <3>3. CASE act[s] # "retry"
        <4>1. status'[k] # "pending"
          BY <2>2, <2>5, <3>3 DEF Settle, Outcome, TypeOK
        <4>2. Waits(k)' = 0
          BY <3>1, <4>1 DEF Waits
        <4>3. QED
          BY <1>s, <1>t, <2>2, <3>1, <4>2
      <3>4. QED
        BY <3>2, <3>3
    <2>6. CASE k # c
      <3>1. Ready(s, k) <=> k \in Todo(s)
        BY <2>1, <2>6 DEF Ready
      <3>2. Ready(s, k)' => Ready(s, k)
        BY <2>4, <3>1 DEF Ready
      <3>3. CASE k \in Todo(s) /\ k \in S
        <4>1. Ready(s, k) /\ ~Ready(s, k)'
          BY <2>4, <3>1, <3>3 DEF Ready
        <4>2. QED
          BY <1>s, <1>t, <2>2, <4>1
      <3>4. CASE ~(k \in Todo(s) /\ k \in S)
        <4>1. Waits(k)' = Waits(k)
          BY <1>w, <2>2, <2>4, <2>6, <3>4 DEF Settle, TypeOK
        <4>2. QED
          BY <1>s, <1>t, <2>2, <3>2, <4>1
      <3>5. QED
        BY <3>3, <3>4
    <2>7. QED
      BY <2>5, <2>6
  <1>9. CASE Purge(s)
    <2>1. /\ UNCHANGED <<due, arrivals, doubt>>
          /\ status'[k] = status[k] \/ (status[k] = "sent" /\ status'[k] = "purged")
      BY <1>9 DEF Purge, worldVars
    <2>2. Todo(s)' = {} /\ Todo(s) = {}
      BY <1>9, TodoSame DEF Purge, SweepInv
    <2>3. ~Ready(s, k)'
      BY <2>2 DEF Ready
    <2>4. CASE status'[k] = status[k]
      <3>1. Waits(k)' = Waits(k)
        BY <1>w, <2>1, <2>2, <2>4
      <3>2. QED
        BY <1>s, <1>t, <2>1, <2>3, <3>1
    <2>5. CASE status[k] = "sent" /\ status'[k] = "purged"
      <3>1. Waits(k)' = 0
        BY <2>1, <2>5 DEF Waits, RowInv
      <3>2. QED
        BY <1>s, <1>t, <2>1, <2>3, <3>1
    <2>6. QED
      BY <2>1, <2>4, <2>5
  <1>10. CASE AbandonSweep(s)
    <2>1. UNCHANGED <<status, due, arrivals>> /\ doubt'[k] >= doubt[k]
      BY <1>10, <1>t DEF AbandonSweep, Fault, rowVars
    <2>2. Todo(s)' = {}
      BY <1>10, TodoAfter DEF AbandonSweep
    <2>3. ~Ready(s, k)'
      BY <2>2 DEF Ready
    <2>4. CASE k \notin Todo(s)
      <3>1. Waits(k)' = Waits(k)
        BY <1>w, <2>1, <2>2, <2>4
      <3>2. QED
        BY <1>s, <1>t, <2>1, <2>3, <3>1
    <2>5. CASE Ready(s, k)
      BY <1>s, <1>t, <2>1, <2>3, <2>5
    <2>6. CASE k \in Todo(s) /\ ~Ready(s, k)
      <3>1. doubt'[k] = doubt[k] + 1
        BY <1>10, <2>6 DEF AbandonSweep, Fault, Ready
      <3>2. QED
        BY <1>s, <1>t, <2>1, <2>3, <3>1
    <2>7. QED
      BY <2>4, <2>5, <2>6
  <1>11. QED
    BY <1>4, <1>5, <1>6, <1>7, <1>8, <1>9, <1>10 DEF SweepStep, Pick

\* Every step keeps the bound on what may still arrive.
LEMMA CountInvStep ==
  ASSUME TypeOK, TroubleInv, SweepInv, RowInv, CountInv, [Next]_vars PROVE CountInv'
  <1>1. CASE Next
    BY <1>1, CallerKeepsCount, SweeperKeepsCount DEF Next
  <1>2. CASE UNCHANGED vars
    BY <1>2 DEF vars, rowVars, sweepVars, worldVars, CountInv, Count, Caller, Senders, Ready, Waits,
                InHand, Cur, Todo
  <1>3. QED
    BY <1>1, <1>2

\* The inductive invariant holds in every reachable state.
THEOREM Invariance == Spec => []IInv
  <1>1. IInv /\ [Next]_vars => IInv'
    <2> SUFFICES ASSUME IInv, [Next]_vars PROVE IInv'
      OBVIOUS
    <2> USE DEF IInv
    <2>1. TypeOK' /\ TroubleInv'
      BY TypeStep
    <2>2. SweepInv' /\ RowInv'
      BY SweepInvStep, RowInvStep
    <2>3. OutcomeInv' /\ ClaimInv' /\ LastInv'
      BY OutcomeInvStep, ClaimInvStep, LastInvStep
    <2>4. SettledForCause' /\ CountInv'
      BY CauseStep, CountInvStep
    <2>5. QED
      BY <2>1, <2>2, <2>3, <2>4
  <1>2. QED
    BY InitIInv, <1>1, PTL DEF Spec

\* The variables keep their types: attempts stay within the budget.
THEOREM TypeCorrect == Spec => []TypeOK
  BY Invariance, PTL DEF IInv

\* No row is marked sent whose text did not reach the conversation, and none
\* is parked without a refusal or a spent budget, however callers, sweepers
\* of several pods, lost writes and restarts interleave.
THEOREM NothingSettledWithoutCause == Spec => []SettledForCause
  BY Invariance, PTL DEF IInv

\* However many pods sweep, an arrival past the first is owed to a lost
\* outcome or to a lease that ran out while somebody had the message.
THEOREM DuplicatesAreExplained == Spec => []DuplicatesExplained
  <1>1. IInv => DuplicatesExplained
    <2> SUFFICES ASSUME IInv, NEW m \in Message PROVE arrivals[m] <= 1 + doubt[m]
      BY DEF DuplicatesExplained
    <2>1. arrivals[m] \in Nat /\ doubt[m] \in Nat
      BY OutboundAssumption DEF IInv, TypeOK
    <2>2. Caller(m) \in 0..1 /\ Waits(m) \in 0..1
      BY DEF Caller, Waits
    <2>3. Cardinality(Senders(m)) \in Nat
      <3>1. Senders(m) \subseteq Sweeper
        BY DEF Senders
      <3>2. QED
        BY <3>1, OutboundAssumption, FS_Subset, FS_CardinalityType
    <2>4. arrivals[m] + Caller(m) + Cardinality(Senders(m)) + Waits(m) <= 1 + doubt[m]
      BY DEF IInv, CountInv, Count
    <2> HIDE DEF Caller, Waits, Senders
    <2>5. QED
      BY <2>1, <2>2, <2>3, <2>4
  <1>2. QED
    BY Invariance, <1>1, PTL
=============================================================================
