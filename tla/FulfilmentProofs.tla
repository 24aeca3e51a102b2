-------------------------- MODULE FulfilmentProofs --------------------------
(***************************************************************************)
(* For any vendors, deliveries, turns and sweeps: nobody is shown who was  *)
(* not charged, a charge that is not shown has a disturbed turn behind it, *)
(* and of whatever closes a delivery the Evidence Service hears, and not   *)
(* more than EvidenceIsBounded allows.                                     *)
(***************************************************************************)
EXTENDS Fulfilment, FiniteSetTheorems, TLAPS

\* Delivery d has been answered or timed out, which it stays.
Closed(d) == status[d] \notin {"absent", "pending"}

\* Turns on delivery d, and those of them past the check.
InHand(d) == {t \in Turn : pc[t] # "idle" /\ at[t] = d}
Passed(d) == {t \in Turn : pc[t] \notin {"idle", "check"} /\ at[t] = d}

\* Sweeps that have delivery d in hand.
Finding(d) == {p \in Sweeper : d \in found[p]}

\* A turn that was paid for is about to write the row, and its fee is taken.
PaidInv == \A t \in paid : pc[t] = "update" /\ at[t] \in posted

\* Two turns on one delivery at a time have disturbed it.
OverlapInv ==
    \A t, u \in Turn :
        t # u /\ pc[t] # "idle" /\ pc[u] # "idle" /\ at[t] = at[u] => disturbed[at[t]] > 0

\* What only a closed delivery can have, and what only an open one lacks.
ClosedInv ==
    /\ revealed \subseteq {d \in Delivery : Closed(d)}
    /\ \A t \in Turn : pc[t] # "idle" => status[at[t]] # "absent"
    /\ \A t \in Turn : pc[t] = "publish" => Closed(at[t])
    /\ \A d \in Delivery : answers[d] > 0 \/ silences[d] > 0 => Closed(d)
    /\ \A p \in Sweeper : /\ sweep[p] = "idle" => found[p] = {}
                          /\ sweep[p] = "publish" => \A d \in found[p] : Closed(d)
                          /\ \A d \in found[p] : status[d] # "absent"

\* A turn that answers an undisturbed delivery unpaid answers an uncharged one.
UnpaidInv ==
    \A t \in Turn \ paid :
        pc[t] \in {"bill", "update"} /\ disturbed[at[t]] = 0 => at[t] \notin posted

\* While a delivery is open every turn on it may still answer it; afterwards
\* only those that have seen it open.
AnswerCount ==
    \A d \in Delivery :
        /\ IsFiniteSet(InHand(d))
        /\ IF Closed(d) THEN answers[d] + Cardinality(Passed(d)) <= 1 + disturbed[d]
                        ELSE Cardinality(InHand(d)) <= 1 + disturbed[d]

\* A delivery is found only while open, and every sweep that finds it beside
\* another one is counted.
SilenceCount ==
    \A d \in Delivery : silences[d] + Cardinality(Finding(d)) <= 1 + overlaps[d]

TroubleInv == \A d \in Delivery : disturbed[d] <= trouble

MoneyInv == PaidInv /\ RevealedIsPaid
ShownInv == OverlapInv /\ UnpaidInv /\ ChargedIsShown

IInv == /\ TypeOK /\ TroubleInv
        /\ MoneyInv /\ ClosedInv /\ ShownInv
        /\ AnswerCount /\ SilenceCount
        /\ ClosedIsHeard

\* Turn t takes up a delivery, tapped or meant by a text.
Starts(t) ==
    \E d \in Delivery, accepted \in BOOLEAN : status[d] # "absent" /\ Begin(t, d, accepted)

\* The only two ways for a turn to begin.
LEMMA Starting ==
  ASSUME NEW t,
         \/ \E d \in Delivery, accepted \in BOOLEAN : Tap(t, d, accepted)
         \/ \E v \in Vendor, accepted \in BOOLEAN : Reply(t, v, accepted)
  PROVE  Starts(t)
  BY DEF Starts, Tap, Reply, Open

\* The first delivery is one.
LEMMA OneIsDelivery == 1 \in Delivery
  BY FulfilmentAssumption DEF Delivery

\* Every initial state satisfies the inductive invariant.
LEMMA InitIInv == Init => IInv
  <1> SUFFICES ASSUME Init PROVE IInv
    OBVIOUS
  <1> USE FulfilmentAssumption, OneIsDelivery DEF Init, Ledger!LedgerInit
  <1>1. TypeOK /\ TroubleInv
    BY DEF TypeOK, TroubleInv, Answered
  <1>2. MoneyInv /\ ShownInv
    BY DEF MoneyInv, PaidInv, RevealedIsPaid, ShownInv, OverlapInv, UnpaidInv, ChargedIsShown
  <1>3. ClosedInv
    BY DEF ClosedInv, Closed
  <1>4. AnswerCount
    <2> SUFFICES ASSUME NEW d \in Delivery
                 PROVE  /\ IsFiniteSet(InHand(d))
                        /\ ~Closed(d)
                        /\ Cardinality(InHand(d)) <= 1 + disturbed[d]
      BY DEF AnswerCount
    <2>1. InHand(d) = {} /\ ~Closed(d) /\ disturbed[d] = 0
      BY DEF InHand, Closed
    <2>2. QED
      BY <2>1, FS_EmptySet
  <1>5. SilenceCount
    <2> SUFFICES ASSUME NEW d \in Delivery
                 PROVE  silences[d] + Cardinality(Finding(d)) <= 1 + overlaps[d]
      BY DEF SilenceCount
    <2>1. Finding(d) = {} /\ silences[d] = 0 /\ overlaps[d] = 0
      BY DEF Finding
    <2>2. QED
      BY <2>1, FS_EmptySet
  <1>6. ClosedIsHeard
    BY DEF ClosedIsHeard, Answered
  <1>7. QED
    BY <1>1, <1>2, <1>3, <1>4, <1>5, <1>6 DEF IInv

\* What a debit of the fee leaves behind, and what a credited payment does.
LEMMA PostTypes ==
  ASSUME TypeOK, NEW r \in Delivery \cup Recharge, Ledger!Post(r)
  PROVE  balance' \in [Vendor -> Nat] /\ posted' = posted \cup {r}
  <1> USE FulfilmentAssumption DEF TypeOK, Ledger!Post
  <1>1. CASE r \in Delivery
    <2>1. VendorOf[r] \in Vendor /\ balance[VendorOf[r]] + (-Fee) \in Nat
      BY <1>1
    <2>2. balance' = [balance EXCEPT ![VendorOf[r]] = @ + (-Fee)]
      BY <1>1
    <2>3. QED
      BY <2>1, <2>2
  <1>2. CASE r \in Recharge
    <2>1. RechargeOf[r] \in Vendor /\ RechargeCredits[r] \in Nat /\ r \notin Delivery
      BY <1>2
    <2>2. balance' = [balance EXCEPT ![RechargeOf[r]] = @ + RechargeCredits[r]]
      BY <1>2, <2>1
    <2>3. QED
      BY <2>1, <2>2
  <1>3. QED
    BY <1>1, <1>2

\* Types, and the count of troubles, survive every step.
LEMMA TypeStep == ASSUME TypeOK, TroubleInv, [Next]_vars PROVE TypeOK' /\ TroubleInv'
  <1> USE FulfilmentAssumption, OneIsDelivery
      DEF TypeOK, TroubleInv, Answered, rowVars, ledgerVars, turnVars, sweepVars,
          eventVars, troubleVars, sweepTroubleVars
  <1>1. ASSUME NEW d \in Delivery, Deliver(d) \/ Age(d) PROVE TypeOK' /\ TroubleInv'
    BY <1>1 DEF Deliver, Age
  <1>2. ASSUME NEW r \in Recharge, Credit(r) PROVE TypeOK' /\ TroubleInv'
    BY <1>2, PostTypes DEF Credit
  <1>3. ASSUME NEW t \in Turn, Starts(t) PROVE TypeOK' /\ TroubleInv'
    BY <1>3 DEF Starts, Begin, Disturb
  <1>4. ASSUME NEW t \in Turn, Check(t) PROVE TypeOK' /\ TroubleInv'
    BY <1>4 DEF Check, Leave
  <1>5. ASSUME NEW t \in Turn, Bill(t) PROVE TypeOK' /\ TroubleInv'
    <2>1. balance' \in [Vendor -> Nat] /\ posted' \subseteq Delivery \cup Recharge
      BY <1>5, PostTypes DEF Bill, Debited, Duplicate, Insufficient
    <2>2. QED
      BY <1>5, <2>1 DEF Bill
  <1>6. ASSUME NEW t \in Turn, Update(t) PROVE TypeOK' /\ TroubleInv'
    BY <1>6 DEF Update
  <1>7. ASSUME NEW t \in Turn, Publish(t) PROVE TypeOK' /\ TroubleInv'
    BY <1>7 DEF Publish, Leave
  <1>8. ASSUME NEW t \in Turn, Abandon(t) PROVE TypeOK' /\ TroubleInv'
    BY <1>8 DEF Abandon, Leave, Disturb
  <1>9. ASSUME NEW p \in Sweeper, SweepStep(p) \/ AbandonSweep(p)
        PROVE  TypeOK' /\ TroubleInv'
    BY <1>9 DEF SweepStep, FindStale, Take, MarkTimeout, PublishTimeout, AbandonSweep, Stale,
                Disturb
  <1>10. CASE UNCHANGED vars
    BY <1>10 DEF vars
  <1>11. QED
    BY <1>1, <1>2, <1>3, <1>4, <1>5, <1>6, <1>7, <1>8, <1>9, <1>10, Starting
       DEF Next, TurnStep

\* The money part survives every step: a row shows a vendor, or records a
\* deduction, only for a turn whose debit is in the ledger.
LEMMA MoneyStep == ASSUME TypeOK, MoneyInv, [Next]_vars PROVE MoneyInv'
  <1> USE DEF TypeOK, MoneyInv, PaidInv, RevealedIsPaid, rowVars, ledgerVars, turnVars,
              sweepVars, eventVars, troubleVars, sweepTroubleVars
  <1>1. ASSUME NEW d \in Delivery, Deliver(d) \/ Age(d) PROVE MoneyInv'
    BY <1>1 DEF Deliver, Age
  <1>2. ASSUME NEW r \in Recharge, Credit(r) PROVE MoneyInv'
    BY <1>2, PostTypes DEF Credit
  <1>3. ASSUME NEW t \in Turn, Starts(t) PROVE MoneyInv'
    BY <1>3 DEF Starts, Begin
  <1>4. ASSUME NEW t \in Turn, Check(t) PROVE MoneyInv'
    BY <1>4 DEF Check, Leave
  <1>5. ASSUME NEW t \in Turn, Bill(t) PROVE MoneyInv'
    <2>1. posted \subseteq posted'
      BY <1>5, PostTypes DEF Bill, Debited, Duplicate, Insufficient
    <2>2. t \in paid' => at[t] \in posted'
      BY <1>5, PostTypes DEF Bill, Debited, Duplicate, Insufficient
    <2>3. QED
      BY <1>5, <2>1, <2>2 DEF Bill
  <1>6. ASSUME NEW t \in Turn, Update(t) PROVE MoneyInv'
    BY <1>6 DEF Update
  <1>7. ASSUME NEW t \in Turn, Publish(t) \/ Abandon(t) PROVE MoneyInv'
    BY <1>7 DEF Publish, Abandon, Leave
  <1>8. ASSUME NEW p \in Sweeper, SweepStep(p) \/ AbandonSweep(p) PROVE MoneyInv'
    BY <1>8 DEF SweepStep, FindStale, Take, MarkTimeout, PublishTimeout, AbandonSweep
  <1>9. CASE UNCHANGED vars
    BY <1>9 DEF vars
  <1>10. QED
    BY <1>1, <1>2, <1>3, <1>4, <1>5, <1>6, <1>7, <1>8, <1>9, Starting DEF Next, TurnStep

\* A delivery is never taken back, and a closed one never opens again.
LEMMA StaysClosed ==
  ASSUME TypeOK, ClosedInv, [Next]_vars, NEW d \in Delivery
  PROVE  /\ status[d] # "absent" => status'[d] # "absent"
         /\ Closed(d) => Closed(d)'
  <1> USE DEF TypeOK, Closed, rowVars
  <1>1. ASSUME NEW e \in Delivery, Deliver(e) \/ Age(e)
        PROVE  /\ status[d] # "absent" => status'[d] # "absent"
               /\ Closed(d) => Closed(d)'
    BY <1>1 DEF Deliver, Age
  <1>2. ASSUME NEW t \in Turn, Update(t)
        PROVE  /\ status[d] # "absent" => status'[d] # "absent"
               /\ Closed(d) => Closed(d)'
    BY <1>2 DEF Update
  <1>3. ASSUME NEW p \in Sweeper, MarkTimeout(p)
        PROVE  /\ status[d] # "absent" => status'[d] # "absent"
               /\ Closed(d) => Closed(d)'
    BY <1>3 DEF MarkTimeout
  <1>4. \/ \E e \in Delivery : Deliver(e) \/ Age(e)
        \/ \E t \in Turn : Update(t)
        \/ \E p \in Sweeper : MarkTimeout(p)
        \/ UNCHANGED status
    BY Starting DEF Next, vars, TurnStep, SweepStep, Credit, Starts, Begin, Check, Bill, Publish,
                    Abandon, FindStale, Take, PublishTimeout, AbandonSweep
  <1>5. QED
    BY <1>1, <1>2, <1>3, <1>4

\* What only a closed delivery can have survives every step.
LEMMA ClosedStep == ASSUME TypeOK, ClosedInv, [Next]_vars PROVE ClosedInv'
  <1> USE DEF TypeOK, ClosedInv, rowVars, ledgerVars, turnVars, sweepVars, eventVars, troubleVars, sweepTroubleVars
  <1>k. \A d \in Delivery : /\ status[d] # "absent" => status'[d] # "absent"
                            /\ Closed(d) => Closed(d)'
    BY StaysClosed
  <1>1. ASSUME NEW d \in Delivery, Deliver(d) \/ Age(d) PROVE ClosedInv'
    BY <1>1, <1>k DEF Deliver, Age
  <1>2. ASSUME NEW r \in Recharge, Credit(r) PROVE ClosedInv'
    BY <1>2, <1>k DEF Credit
  <1>3. ASSUME NEW t \in Turn, Starts(t) PROVE ClosedInv'
    BY <1>3, <1>k DEF Starts, Begin
  <1>4. ASSUME NEW t \in Turn, Check(t) PROVE ClosedInv'
    BY <1>4, <1>k DEF Check, Leave
  <1>5. ASSUME NEW t \in Turn, Bill(t) PROVE ClosedInv'
    BY <1>5, <1>k DEF Bill
  <1>6. ASSUME NEW t \in Turn, Update(t) PROVE ClosedInv'
    <2>1. Closed(at[t])' /\ at' = at
      BY <1>6 DEF Update, Closed
    <2>2. QED
      BY <1>6, <1>k, <2>1 DEF Update
  <1>7. ASSUME NEW t \in Turn, Publish(t) PROVE ClosedInv'
    BY <1>7, <1>k DEF Publish, Leave
  <1>8. ASSUME NEW t \in Turn, Abandon(t) PROVE ClosedInv'
    BY <1>8, <1>k DEF Abandon, Leave
  <1>9. ASSUME NEW p \in Sweeper, FindStale(p) PROVE ClosedInv'
    BY <1>9, <1>k DEF FindStale, Take, Stale
  <1>10. ASSUME NEW p \in Sweeper, MarkTimeout(p) PROVE ClosedInv'
    <2>1. \A d \in found[p] : Closed(d)'
      BY <1>10 DEF MarkTimeout, Closed
    <2>2. QED
      BY <1>10, <1>k, <2>1 DEF MarkTimeout
  <1>11. ASSUME NEW p \in Sweeper, PublishTimeout(p) PROVE ClosedInv'
    BY <1>11, <1>k DEF PublishTimeout
  <1>12. ASSUME NEW p \in Sweeper, AbandonSweep(p) PROVE ClosedInv'
    BY <1>12, <1>k DEF AbandonSweep
  <1>13. CASE UNCHANGED vars
    BY <1>13, <1>k DEF vars
  <1>14. QED
    BY <1>1, <1>2, <1>3, <1>4, <1>5, <1>6, <1>7, <1>8, <1>9, <1>10, <1>11, <1>12, <1>13,
       Starting DEF Next, TurnStep, SweepStep

\* A delivery once disturbed stays so.
LEMMA StaysDisturbed ==
  ASSUME TypeOK, [Next]_vars, NEW d \in Delivery
  PROVE  disturbed'[d] = disturbed[d] \/ disturbed'[d] = disturbed[d] + 1
  <1>1. (\E D : Disturb(D)) \/ UNCHANGED disturbed
    BY Starting
       DEF Next, vars, TurnStep, SweepStep, Deliver, Age, Credit, Starts, Begin, Check, Bill,
           Update, Publish, Abandon, FindStale, Take, MarkTimeout, PublishTimeout, AbandonSweep,
           troubleVars
  <1>2. QED
    BY <1>1 DEF Disturb, TypeOK

\* That a charge is shown or explained survives every step.
LEMMA ShownStep ==
  ASSUME TypeOK, MoneyInv, ClosedInv, ShownInv, [Next]_vars
  PROVE  ShownInv'
  <1> USE DEF TypeOK, MoneyInv, PaidInv, ShownInv, OverlapInv, UnpaidInv, ChargedIsShown,
              rowVars, ledgerVars, turnVars, sweepVars, eventVars, troubleVars, sweepTroubleVars
  <1>d. \A d \in Delivery : disturbed[d] > 0 => disturbed'[d] > 0
    BY StaysDisturbed
  <1>1. ASSUME NEW d \in Delivery, Deliver(d) \/ Age(d) PROVE ShownInv'
    BY <1>1 DEF Deliver, Age
  <1>2. ASSUME NEW r \in Recharge, Credit(r) PROVE ShownInv'
    BY <1>2, PostTypes, FulfilmentAssumption DEF Credit
  <1>3. ASSUME NEW t \in Turn, Starts(t) PROVE ShownInv'
    <2>1. PICK d \in Delivery, accepted \in BOOLEAN : Begin(t, d, accepted)
      BY <1>3 DEF Starts
    <2>2. ASSUME NEW u \in Turn \ {t}, pc[u] # "idle", at[u] = d
          PROVE  disturbed'[d] > 0
      <3>1. u \in Concurrent(t, VendorOf[d])
        BY <2>2 DEF Concurrent
      <3>2. QED
        BY <2>1, <3>1 DEF Begin, Disturb
    <2>3. OverlapInv'
      BY <1>d, <2>1, <2>2 DEF Begin
    <2>4. QED
      BY <1>d, <2>1, <2>3 DEF Begin
  <1>4. ASSUME NEW t \in Turn, Check(t) PROVE ShownInv'
    <2>1. CASE Leave(t)
      BY <1>4, <2>1 DEF Check, Leave
    <2>2. CASE ~Leave(t)
      <3>1. status[at[t]] = "pending" /\ at' = at /\ paid' = paid /\ disturbed' = disturbed
        BY <1>4, <2>2 DEF Check, Answerable
      <3>2. disturbed[at[t]] = 0 => at[t] \notin posted
        \* A charge on an open delivery is another turn's, which overlaps.
        BY <1>4, <3>1 DEF Check, ClosedInv, Closed
      <3>3. QED
        BY <1>4, <2>2, <3>1, <3>2 DEF Check
    <2>3. QED
      BY <2>1, <2>2
  <1>5. ASSUME NEW t \in Turn, Bill(t) PROVE ShownInv'
    <2>1. CASE Debited(t) /\ paid' = paid \cup {t}
      BY <1>5, <2>1, PostTypes DEF Bill, Debited
    <2>2. CASE Duplicate(t) /\ paid' = paid \cup {t}
      BY <1>5, <2>2 DEF Bill, Duplicate
    <2>3. CASE Insufficient(t) /\ UNCHANGED paid
      BY <1>5, <2>3 DEF Bill, Insufficient
    <2>4. QED
      BY <1>5, <2>1, <2>2, <2>3 DEF Bill
  <1>6. ASSUME NEW t \in Turn, Update(t) PROVE ShownInv'
    <2>1. /\ posted' = posted /\ at' = at /\ disturbed' = disturbed /\ paid' = paid \ {t}
          /\ \A u \in Turn \ {t} : pc'[u] = pc[u]
          /\ pc'[t] = "publish" /\ pc[t] = "update"
      BY <1>6 DEF Update
    <2>2. OverlapInv' /\ UnpaidInv'
      BY <2>1
    <2>3. ASSUME NEW d \in posted' \ revealed', d \in Delivery
          PROVE  (\E u \in paid' : at'[u] = d /\ pc'[u] = "update") \/ disturbed'[d] > 0
      <3>1. CASE d = at[t]
        BY <1>6, <2>1, <2>3, <3>1 DEF Update
      <3>2. CASE d # at[t]
        <4>1. d \notin revealed
          BY <1>6, <2>3, <3>2 DEF Update
        <4>2. QED
          BY <2>1, <2>3, <3>2, <4>1
      <3>3. QED
        BY <3>1, <3>2
    <2>4. QED
      BY <2>2, <2>3
  <1>7. ASSUME NEW t \in Turn, Publish(t) PROVE ShownInv'
    BY <1>7 DEF Publish, Leave
  <1>8. ASSUME NEW t \in Turn, Abandon(t) PROVE ShownInv'
    <2>1. disturbed'[at[t]] > 0
      BY <1>8 DEF Abandon, Disturb
    <2>2. OverlapInv' /\ UnpaidInv'
      BY <1>8, <1>d DEF Abandon, Leave
    <2>3. QED
      BY <1>8, <1>d, <2>1, <2>2 DEF Abandon, Leave
  <1>9. ASSUME NEW p \in Sweeper, SweepStep(p) \/ AbandonSweep(p) PROVE ShownInv'
    BY <1>9, <1>d DEF SweepStep, FindStale, Take, MarkTimeout, PublishTimeout, AbandonSweep
  <1>10. CASE UNCHANGED vars
    BY <1>10 DEF vars
  <1>11. QED
    BY <1>1, <1>2, <1>3, <1>4, <1>5, <1>6, <1>7, <1>8, <1>9, <1>10, Starting
       DEF Next, TurnStep

\* Open or closed, what was heard of a delivery and what may still be heard.
LEMMA AnswersLeft ==
  ASSUME TypeOK, ClosedInv, AnswerCount, NEW d \in Delivery
  PROVE  /\ IsFiniteSet(InHand(d)) /\ Cardinality(InHand(d)) \in Nat
         /\ IsFiniteSet(Passed(d)) /\ Cardinality(Passed(d)) \in Nat
         /\ answers[d] + Cardinality(Passed(d)) <= 1 + disturbed[d]
  <1>1. IsFiniteSet(InHand(d)) /\ Cardinality(InHand(d)) \in Nat
    BY FS_CardinalityType DEF AnswerCount
  <1>2. Passed(d) \subseteq InHand(d)
    BY DEF Passed, InHand
  <1>3. /\ IsFiniteSet(Passed(d)) /\ Cardinality(Passed(d)) \in Nat
        /\ Cardinality(Passed(d)) <= Cardinality(InHand(d))
    BY <1>1, <1>2, FS_Subset, FS_CardinalityType
  <1>4. CASE Closed(d)
    BY <1>1, <1>3, <1>4 DEF AnswerCount
  <1>5. CASE ~Closed(d)
    <2>1. answers[d] = 0
      BY <1>5 DEF ClosedInv, TypeOK
    <2>2. disturbed[d] \in Nat /\ Cardinality(InHand(d)) <= 1 + disturbed[d]
      BY <1>5, FulfilmentAssumption DEF AnswerCount, TypeOK
    <2>3. QED
      BY <1>1, <1>3, <2>1, <2>2
  <1>6. QED
    BY <1>4, <1>5

\* The count of a delivery, of its open turns and of its disturbances.
CountKept(d) == /\ IsFiniteSet(InHand(d))
                /\ IF Closed(d) THEN answers[d] + Cardinality(Passed(d)) <= 1 + disturbed[d]
                                ELSE Cardinality(InHand(d)) <= 1 + disturbed[d]

\* A step that leaves a delivery's turns and answers alone keeps its count,
\* whether it closes the delivery or not.
LEMMA CountQuiet ==
  ASSUME TypeOK, TypeOK', ClosedInv, AnswerCount, [Next]_vars, NEW d \in Delivery,
         InHand(d)' = InHand(d), Passed(d)' = Passed(d), answers'[d] = answers[d]
  PROVE  CountKept(d)'
  <1>1. Closed(d)' \/ ~Closed(d)
    BY StaysClosed
  <1>2. disturbed[d] \in Nat /\ disturbed'[d] \in Nat /\ disturbed[d] <= disturbed'[d]
        /\ answers[d] \in Nat
    BY StaysDisturbed, FulfilmentAssumption DEF TypeOK
  <1>3. ~Closed(d) => Cardinality(InHand(d)) <= 1 + disturbed[d]
    BY DEF AnswerCount
  <1>4. QED
    BY <1>1, <1>2, <1>3, AnswersLeft DEF CountKept

\* The bound on a delivery's answers survives every step.
LEMMA AnswerStep ==
  ASSUME TypeOK, TypeOK', TroubleInv, ClosedInv, AnswerCount, [Next]_vars
  PROVE  AnswerCount'
  <1> SUFFICES ASSUME NEW d \in Delivery PROVE CountKept(d)'
    BY DEF AnswerCount, CountKept
  <1> DEFINE n == Cardinality(InHand(d))
             m == Cardinality(Passed(d))
  <1>a. /\ IsFiniteSet(InHand(d)) /\ n \in Nat
        /\ IsFiniteSet(Passed(d)) /\ m \in Nat
        /\ answers[d] + m <= 1 + disturbed[d]
    BY AnswersLeft
  <1>b. ~Closed(d) => n <= 1 + disturbed[d]
    BY DEF AnswerCount
  <1>n. disturbed[d] \in Nat /\ answers[d] \in Nat
    BY FulfilmentAssumption DEF TypeOK
  <1> HIDE DEF n, m
  <1> USE DEF TypeOK, rowVars, ledgerVars, turnVars, sweepVars, eventVars, troubleVars, sweepTroubleVars
  <1>1. CASE /\ UNCHANGED <<at, answers>>
             /\ \A t \in Turn : \/ pc'[t] = pc[t]
                                \/ {pc[t], pc'[t]} \subseteq {"bill", "update", "publish"}
    <2>1. InHand(d)' = InHand(d) /\ Passed(d)' = Passed(d)
      BY <1>1 DEF InHand, Passed
    <2>2. QED
      BY <1>1, <2>1, CountQuiet
  <1>2. ASSUME NEW t \in Turn, Starts(t) PROVE CountKept(d)'
    <2>1. PICK e \in Delivery, accepted \in BOOLEAN :
             status[e] # "absent" /\ Begin(t, e, accepted)
      BY <1>2 DEF Starts
    <2>2. /\ pc[t] = "idle" /\ pc'[t] = "check" /\ at'[t] = e
          /\ \A u \in Turn \ {t} : pc'[u] = pc[u] /\ at'[u] = at[u]
          /\ Passed(d)' = Passed(d) /\ answers' = answers /\ status' = status
      BY <2>1 DEF Begin, Passed
    <2>3. CASE e # d
      <3>1. InHand(d)' = InHand(d)
        BY <2>2, <2>3 DEF InHand
      <3>2. QED
        BY <2>2, <3>1, CountQuiet
    <2>4. CASE e = d
      <3>1. InHand(d)' = InHand(d) \cup {t} /\ t \notin InHand(d)
        BY <2>2, <2>4 DEF InHand
      <3>2. IsFiniteSet(InHand(d)') /\ Cardinality(InHand(d)') = n + 1
        BY <1>a, <3>1, FS_AddElement DEF n
      <3>3. n = 0 \/ disturbed'[d] = disturbed[d] + 1
        <4>1. CASE Concurrent(t, VendorOf[d]) = {}
          <5>1. InHand(d) = {}
            BY <2>2, <3>1, <4>1 DEF InHand, Concurrent
          <5>2. QED
            BY <5>1, FS_EmptySet DEF n
        <4>2. CASE Concurrent(t, VendorOf[d]) # {}
          BY <2>1, <2>4, <4>2 DEF Begin, Disturb
        <4>3. QED
          BY <4>1, <4>2
      <3>4. disturbed[d] <= disturbed'[d] /\ disturbed'[d] \in Nat
        BY <1>n, StaysDisturbed
      <3>5. Closed(d)' = Closed(d)
        BY <2>2 DEF Closed
      <3>6. CASE Closed(d)
        <4>1. answers'[d] + Cardinality(Passed(d)') <= 1 + disturbed'[d]
          BY <1>a, <1>n, <2>2, <3>4 DEF m
        <4>2. QED
          BY <3>2, <3>5, <3>6, <4>1 DEF CountKept
      <3>7. CASE ~Closed(d)
        <4>1. Cardinality(InHand(d)') <= 1 + disturbed'[d]
          BY <1>a, <1>b, <1>n, <3>2, <3>3, <3>4, <3>7
        <4>2. QED
          BY <3>2, <3>5, <3>7, <4>1 DEF CountKept
      <3>8. QED
        BY <3>6, <3>7
    <2>5. QED
      BY <2>3, <2>4
  <1>3. ASSUME NEW t \in Turn, Check(t) PROVE CountKept(d)'
    <2>1. /\ pc[t] = "check" /\ answers' = answers /\ disturbed' = disturbed
          /\ status' = status /\ \A u \in Turn \ {t} : pc'[u] = pc[u] /\ at'[u] = at[u]
      BY <1>3 DEF Check, Leave
    <2>2. CASE Leave(t)
      <3>1. InHand(d)' = InHand(d) \ {t} /\ Passed(d)' = Passed(d)
        BY <2>1, <2>2 DEF InHand, Passed, Leave
      <3>2. IsFiniteSet(InHand(d)') /\ Cardinality(InHand(d)') <= n
        BY <1>a, <3>1, FS_Subset DEF n
      <3>3. Cardinality(InHand(d)') \in Nat
        BY <3>2, FS_CardinalityType
      <3>4. QED
        BY <1>a, <1>b, <1>n, <2>1, <3>1, <3>2, <3>3 DEF CountKept, Closed, m
    <2>3. CASE ~Leave(t)
      <3>1. /\ status[at[t]] = "pending" /\ at' = at
            /\ pc'[t] \in {"bill", "update"}
        BY <1>3, <2>3 DEF Check, Answerable
      <3>2. InHand(d)' = InHand(d)
        BY <2>1, <3>1 DEF InHand
      <3>3. Closed(d)' = Closed(d) /\ (Closed(d) => at[t] # d)
        BY <2>1, <3>1 DEF Closed
      <3>4. Closed(d) => Passed(d)' = Passed(d)
        BY <2>1, <3>1, <3>3 DEF Passed
      <3>5. QED
        BY <1>a, <1>b, <1>n, <2>1, <3>2, <3>3, <3>4 DEF CountKept, n, m
    <2>4. QED
      BY <2>2, <2>3
  <1>4. ASSUME NEW t \in Turn, Publish(t) PROVE CountKept(d)'
    <2>1. /\ pc[t] = "publish" /\ pc'[t] = "idle" /\ disturbed' = disturbed
          /\ status' = status /\ \A u \in Turn \ {t} : pc'[u] = pc[u] /\ at'[u] = at[u]
      BY <1>4 DEF Publish, Leave
    <2>2. CASE at[t] # d
      <3>1. InHand(d)' = InHand(d) /\ Passed(d)' = Passed(d)
        BY <2>1, <2>2 DEF InHand, Passed
      <3>2. answers'[d] = answers[d]
        BY <1>4, <2>2 DEF Publish
      <3>3. QED
        BY <3>1, <3>2, CountQuiet
    <2>3. CASE at[t] = d
      <3>1. Closed(d) /\ Closed(d)' = Closed(d)
        BY <2>1, <2>3 DEF ClosedInv, Closed
      <3>2. /\ InHand(d)' = InHand(d) \ {t}
            /\ Passed(d)' = Passed(d) \ {t} /\ t \in Passed(d)
        BY <2>1, <2>3 DEF InHand, Passed
      <3>3. IsFiniteSet(InHand(d)') /\ Cardinality(Passed(d)') = m - 1
        <4>1. IsFiniteSet(InHand(d) \ {t})
          BY <1>a, FS_RemoveElement
        <4>2. Cardinality(Passed(d) \ {t}) = m - 1
          BY <1>a, <3>2, FS_RemoveElement DEF m
        <4>3. QED
          BY <3>2, <4>1, <4>2
      <3>4. answers'[d] = answers[d] + 1
        BY <1>4, <2>3 DEF Publish
      <3>5. answers'[d] + Cardinality(Passed(d)') <= 1 + disturbed'[d]
        BY <1>a, <1>n, <2>1, <3>3, <3>4
      <3>6. QED
        BY <3>1, <3>3, <3>5 DEF CountKept
    <2>4. QED
      BY <2>2, <2>3
  <1>5. ASSUME NEW t \in Turn, Abandon(t) PROVE CountKept(d)'
    <2>1. /\ pc[t] # "idle" /\ pc'[t] = "idle" /\ answers' = answers
          /\ status' = status /\ \A u \in Turn \ {t} : pc'[u] = pc[u] /\ at'[u] = at[u]
      BY <1>5 DEF Abandon, Leave
    <2>2. InHand(d)' = InHand(d) \ {t} /\ Passed(d)' = Passed(d) \ {t}
      BY <2>1 DEF InHand, Passed
    <2>3. /\ IsFiniteSet(InHand(d)') /\ Cardinality(InHand(d)') <= n
          /\ IsFiniteSet(Passed(d)') /\ Cardinality(Passed(d)') <= m
      BY <1>a, <2>2, FS_Subset DEF n, m
    <2>4. Cardinality(InHand(d)') \in Nat /\ Cardinality(Passed(d)') \in Nat
      BY <2>3, FS_CardinalityType
    <2>5. disturbed[d] <= disturbed'[d] /\ disturbed'[d] \in Nat
      BY <1>n, StaysDisturbed
    <2>6. Closed(d)' = Closed(d)
      BY <2>1 DEF Closed
    <2>7. QED
      BY <1>a, <1>b, <1>n, <2>1, <2>3, <2>4, <2>5, <2>6 DEF CountKept
  <1>6. \/ \E t \in Turn : Starts(t) \/ Check(t) \/ Publish(t) \/ Abandon(t)
        \/ /\ UNCHANGED <<at, answers>>
           /\ \A t \in Turn : \/ pc'[t] = pc[t]
                              \/ {pc[t], pc'[t]} \subseteq {"bill", "update", "publish"}
    <2>1. ASSUME NEW t \in Turn, Bill(t) \/ Update(t)
          PROVE  /\ UNCHANGED <<at, answers>>
                 /\ \A u \in Turn : \/ pc'[u] = pc[u]
                                    \/ {pc[u], pc'[u]} \subseteq {"bill", "update", "publish"}
      BY <2>1 DEF Bill, Update
    <2>2. \/ \E t \in Turn : \/ Starts(t) \/ Check(t) \/ Publish(t) \/ Abandon(t)
                             \/ Bill(t) \/ Update(t)
          \/ UNCHANGED <<at, answers, pc>>
      BY Starting
         DEF Next, vars, TurnStep, SweepStep, Deliver, Age, Credit, FindStale, Take, MarkTimeout,
             PublishTimeout, AbandonSweep
    <2>3. QED
      BY <2>1, <2>2
  <1>7. QED
    BY <1>1, <1>2, <1>3, <1>4, <1>5, <1>6

\* The bound on a delivery's silences survives every step.
LEMMA SilenceStep ==
  ASSUME TypeOK, TypeOK', ClosedInv, SilenceCount, [Next]_vars
  PROVE  SilenceCount'
  <1> SUFFICES ASSUME NEW d \in Delivery
               PROVE  silences'[d] + Cardinality(Finding(d)') <= 1 + overlaps'[d]
    BY DEF SilenceCount
  <1> DEFINE k == Cardinality(Finding(d))
  <1>a. /\ IsFiniteSet(Finding(d)) /\ k \in Nat
        /\ overlaps[d] \in Nat /\ silences[d] \in Nat
        /\ silences[d] + k <= 1 + overlaps[d]
    <2>1. Finding(d) \subseteq Sweeper
      BY DEF Finding
    <2>2. QED
      BY <2>1, FulfilmentAssumption, FS_Subset, FS_CardinalityType DEF SilenceCount, TypeOK
  <1> HIDE DEF k
  <1> USE DEF rowVars, ledgerVars, turnVars, sweepVars, eventVars, troubleVars,
              sweepTroubleVars
  <1>1. CASE UNCHANGED <<found, silences, overlaps>>
    <2>1. Finding(d)' = Finding(d)
      BY <1>1 DEF Finding
    <2>2. QED
      BY <1>1, <1>a, <2>1 DEF k
  <1>2. ASSUME NEW p \in Sweeper, FindStale(p)
        PROVE  silences'[d] + Cardinality(Finding(d)') <= 1 + overlaps'[d]
    <2>t. /\ found' = [found EXCEPT ![p] = Stale] /\ silences' = silences /\ found[p] = {}
          /\ found \in [Sweeper -> SUBSET Delivery]
      BY <1>2 DEF FindStale, Take, ClosedInv, TypeOK
    <2>1. CASE d \in Stale
      \* Nobody has reported an open delivery yet; whoever has it in hand is counted.
      <3>1. silences[d] = 0
        BY <1>a, <2>1 DEF Stale, ClosedInv, Closed
      <3>2. Finding(d)' = Finding(d) \cup {p} /\ p \notin Finding(d)
        BY <2>1, <2>t DEF Finding
      <3>3. Cardinality(Finding(d)') = k + 1
        BY <1>a, <3>2, FS_AddElement DEF k
      <3>4. CASE Finding(d) = {}
        <4>1. k = 0 /\ overlaps'[d] \in Nat
          BY <3>4, FS_EmptySet DEF k, TypeOK
        <4>2. QED
          BY <2>t, <3>1, <3>3, <4>1
      <3>5. CASE Finding(d) # {}
        <4>1. overlaps'[d] = overlaps[d] + 1
          BY <1>2, <2>1, <3>5 DEF FindStale, Take, Finding, TypeOK
        <4>2. QED
          BY <1>a, <2>t, <3>3, <4>1
      <3>6. QED
        BY <3>4, <3>5
    <2>2. CASE d \notin Stale
      <3>1. Finding(d)' = Finding(d)
        BY <2>2, <2>t DEF Finding
      <3>2. overlaps'[d] = overlaps[d]
        BY <1>2, <2>2 DEF FindStale, Take
      <3>3. QED
        BY <1>a, <2>t, <3>1, <3>2 DEF k
    <2>3. QED
      BY <2>1, <2>2
  <1>3. ASSUME NEW p \in Sweeper, PublishTimeout(p)
        PROVE  silences'[d] + Cardinality(Finding(d)') <= 1 + overlaps'[d]
    <2>1. Finding(d)' = Finding(d) \ {p} /\ overlaps' = overlaps
      BY <1>3 DEF PublishTimeout, Finding, TypeOK
    <2>2. Cardinality(Finding(d)') = IF p \in Finding(d) THEN k - 1 ELSE k
      BY <1>a, <2>1, FS_RemoveElement DEF k
    <2>3. silences'[d] = IF p \in Finding(d) THEN silences[d] + 1 ELSE silences[d]
      BY <1>3 DEF PublishTimeout, Finding
    <2>4. QED
      BY <1>a, <2>1, <2>2, <2>3
  <1>4. ASSUME NEW p \in Sweeper, AbandonSweep(p)
        PROVE  silences'[d] + Cardinality(Finding(d)') <= 1 + overlaps'[d]
    <2>1. Finding(d)' = Finding(d) \ {p} /\ UNCHANGED <<silences, overlaps>>
      BY <1>4 DEF AbandonSweep, Finding, TypeOK
    <2>2. Cardinality(Finding(d)') = IF p \in Finding(d) THEN k - 1 ELSE k
      BY <1>a, <2>1, FS_RemoveElement DEF k
    <2>3. QED
      BY <1>a, <2>1, <2>2
  <1>5. \/ \E p \in Sweeper : FindStale(p) \/ PublishTimeout(p) \/ AbandonSweep(p)
        \/ UNCHANGED <<found, silences, overlaps>>
    BY Starting
       DEF Next, vars, TurnStep, SweepStep, Deliver, Age, Credit, Starts, Begin, Check, Bill,
           Update, Publish, Abandon, MarkTimeout
  <1>6. QED
    BY <1>1, <1>2, <1>3, <1>4, <1>5

\* That whatever closed a delivery is heard of survives every step: who closes
\* it is at the publish until it has told, or broke off and is counted.
LEMMA HeardStep ==
  ASSUME TypeOK, TypeOK', ClosedInv, ClosedIsHeard, [Next]_vars
  PROVE  ClosedIsHeard'
  <1> USE DEF ClosedIsHeard, Answered, rowVars, ledgerVars, turnVars, sweepVars, eventVars,
              troubleVars, sweepTroubleVars
  <1>d. \A d \in Delivery : disturbed[d] > 0 => disturbed'[d] > 0
    BY StaysDisturbed DEF TypeOK
  <1>1. ASSUME NEW d \in Delivery, Deliver(d) \/ Age(d) PROVE ClosedIsHeard'
    BY <1>1 DEF Deliver, Age, TypeOK
  <1>2. ASSUME NEW r \in Recharge, Credit(r) PROVE ClosedIsHeard'
    BY <1>2 DEF Credit
  <1>3. ASSUME NEW t \in Turn, Starts(t) PROVE ClosedIsHeard'
    <2>1. /\ UNCHANGED <<status, answers, silences, dropped, sweepVars>>
          /\ \A u \in Turn : pc[u] = "publish" => pc'[u] = pc[u] /\ at'[u] = at[u]
      BY <1>3 DEF Starts, Begin, TypeOK
    <2>2. QED
      BY <1>d, <2>1
  <1>4. ASSUME NEW t \in Turn, Check(t) \/ Bill(t) PROVE ClosedIsHeard'
    <2>1. /\ UNCHANGED <<status, answers, silences, dropped, disturbed, sweepVars>>
          /\ \A u \in Turn : pc[u] = "publish" => pc'[u] = pc[u] /\ at'[u] = at[u]
      BY <1>4 DEF Check, Leave, Bill, TypeOK
    <2>2. QED
      BY <2>1
  <1>5. ASSUME NEW t \in Turn, Update(t) PROVE ClosedIsHeard'
    <2>1. /\ UNCHANGED <<at, answers, silences, dropped, disturbed, sweepVars>>
          /\ pc' = [pc EXCEPT ![t] = "publish"] /\ status'[at[t]] \in {"accepted", "rejected"}
          /\ \A d \in Delivery \ {at[t]} : status'[d] = status[d]
      BY <1>5 DEF Update, TypeOK
    <2>2. QED
      BY <2>1 DEF TypeOK
  <1>6. ASSUME NEW t \in Turn, Publish(t) PROVE ClosedIsHeard'
    <2>1. /\ UNCHANGED <<status, silences, dropped, disturbed, sweepVars>>
          /\ \A u \in Turn \ {t} : pc'[u] = pc[u] /\ at'[u] = at[u]
          /\ \A d \in Delivery : answers[d] > 0 \/ d = at[t] => answers'[d] > 0
      BY <1>6 DEF Publish, Leave, TypeOK
    <2>2. QED
      BY <2>1
  <1>7. ASSUME NEW t \in Turn, Abandon(t) PROVE ClosedIsHeard'
    <2>1. /\ UNCHANGED <<status, answers, silences, dropped, sweepVars>>
          /\ \A u \in Turn \ {t} : pc'[u] = pc[u] /\ at'[u] = at[u]
          /\ disturbed'[at[t]] > 0
      BY <1>7 DEF Abandon, Leave, Disturb, TypeOK
    <2>2. QED
      BY <1>d, <2>1
  <1>8. ASSUME NEW p \in Sweeper, FindStale(p) PROVE ClosedIsHeard'
    <2>1. /\ UNCHANGED <<status, answers, silences, dropped, disturbed, turnVars>>
          /\ \A q \in Sweeper : sweep[q] = "publish" =>
                sweep'[q] = sweep[q] /\ found'[q] = found[q]
      BY <1>8 DEF FindStale, Take, TypeOK
    <2>2. QED
      BY <2>1
  <1>9. ASSUME NEW p \in Sweeper, MarkTimeout(p) PROVE ClosedIsHeard'
    <2>1. /\ UNCHANGED <<answers, silences, dropped, disturbed, turnVars, found>>
          /\ sweep' = [sweep EXCEPT ![p] = "publish"]
          /\ \A d \in Delivery : IF d \in found[p] THEN status'[d] = "timeout"
                                                   ELSE status'[d] = status[d]
      BY <1>9 DEF MarkTimeout
    <2>2. QED
      BY <2>1 DEF TypeOK
  <1>10. ASSUME NEW p \in Sweeper, PublishTimeout(p) PROVE ClosedIsHeard'
    <2>1. /\ UNCHANGED <<status, answers, dropped, disturbed, turnVars>>
          /\ \A q \in Sweeper \ {p} : sweep'[q] = sweep[q] /\ found'[q] = found[q]
          /\ \A d \in Delivery : silences[d] > 0 \/ d \in found[p] => silences'[d] > 0
      BY <1>10 DEF PublishTimeout, TypeOK
    <2>2. QED
      BY <2>1
  <1>11. ASSUME NEW p \in Sweeper, AbandonSweep(p) PROVE ClosedIsHeard'
    <2>1. /\ UNCHANGED <<status, answers, silences, turnVars>>
          /\ dropped' = dropped \cup found[p]
          /\ \A q \in Sweeper \ {p} : sweep'[q] = sweep[q] /\ found'[q] = found[q]
      BY <1>11 DEF AbandonSweep, TypeOK
    <2>2. QED
      BY <1>d, <2>1
  <1>12. CASE UNCHANGED vars
    BY <1>12 DEF vars
  <1>13. QED
    BY <1>1, <1>2, <1>3, <1>4, <1>5, <1>6, <1>7, <1>8, <1>9, <1>10, <1>11, <1>12,
       Starting DEF Next, TurnStep, SweepStep

\* The inductive invariant holds of every behaviour: types, who is paid for,
\* what only a closed delivery has, what a charge that is not shown rests on,
\* and the counts of what may still be heard.
THEOREM Invariance == Spec => []IInv
  <1>1. IInv /\ [Next]_vars => IInv'
    <2> SUFFICES ASSUME IInv, [Next]_vars PROVE IInv'
      OBVIOUS
    <2>1. TypeOK' /\ TroubleInv'
      BY TypeStep DEF IInv
    <2>2. MoneyInv'
      BY MoneyStep DEF IInv
    <2>3. ClosedInv' /\ ShownInv'
      BY ClosedStep, ShownStep DEF IInv
    <2>4. AnswerCount' /\ SilenceCount'
      BY <2>1, AnswerStep, SilenceStep DEF IInv
    <2>5. ClosedIsHeard'
      BY <2>1, HeardStep DEF IInv
    <2>6. QED
      BY <2>1, <2>2, <2>3, <2>4, <2>5 DEF IInv
  <1>2. QED
    BY <1>1, InitIInv, PTL DEF Spec

\* Type correctness.
THEOREM TypeCorrect == Spec => []TypeOK
  BY Invariance, PTL DEF IInv

\* "Visible only once they respond and the debit succeeds", for any vendors
\* and deliveries, however turns and sweeps interleave or break off.
THEOREM PaidBeforeShown == Spec => []RevealedIsPaid
  BY Invariance, PTL DEF IInv, MoneyInv

\* A vendor who was charged is shown, is about to be, or had a turn that
\* broke off or overlapped another one on that delivery.
THEOREM ShownOrExplained == Spec => []ChargedIsShown
  BY Invariance, PTL DEF IInv, ShownInv

\* The Evidence Service hears a second answer only of turns that were disturbed,
\* a second silence only of sweeps that had the delivery in hand together, for
\* any number of turns and of overlapping sweeps.
THEOREM EvidenceBounded == Spec => []EvidenceIsBounded
  <1>1. IInv => EvidenceIsBounded
    <2> SUFFICES ASSUME IInv, NEW d \in Delivery
                 PROVE  answers[d] <= 1 + disturbed[d] /\ silences[d] <= 1 + overlaps[d]
      BY DEF EvidenceIsBounded
    <2>1. answers[d] \in Nat /\ disturbed[d] \in Nat /\ silences[d] \in Nat
          /\ overlaps[d] \in Nat
      BY FulfilmentAssumption DEF IInv, TypeOK
    <2>2. answers[d] <= 1 + disturbed[d]
      BY <2>1, AnswersLeft DEF IInv
    <2>3. Cardinality(Finding(d)) \in Nat
      <3>1. Finding(d) \subseteq Sweeper
        BY DEF Finding
      <3>2. QED
        BY <3>1, FulfilmentAssumption, FS_Subset, FS_CardinalityType
    <2>4. silences[d] <= 1 + overlaps[d]
      BY <2>1, <2>3 DEF IInv, SilenceCount
    <2>5. QED
      BY <2>2, <2>4
  <1>2. QED
    BY <1>1, Invariance, PTL

\* Whatever closed a delivery is told, about to be told, or its teller broke.
THEOREM HeardOrBroken == Spec => []ClosedIsHeard
  BY Invariance, PTL DEF IInv
=============================================================================
