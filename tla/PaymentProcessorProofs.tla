----------------------- MODULE PaymentProcessorProofs -----------------------
(***************************************************************************)
(* For any payments, workers, batch size, attempt cap and number of        *)
(* faults: a credit is announced at most once and only if made, a          *)
(* 'credited' notification has its ledger row, a settled notification      *)
(* never returns to the queue, and one that can be credited is parked only *)
(* after its last attempt.                                                 *)
(***************************************************************************)
EXTENDS PaymentProcessor, TLAPS

\* A worker past picking a notification has one.
CurInv ==
    \A w \in Worker : pc[w] \notin {"idle", "claim", "next"} => cur[w] \in Payment

\* What a worker may still announce: the money is in the ledger, nobody has
\* announced it yet, and no other worker is about to.
AnnounceInv ==
    /\ \A w \in Worker : pc[w] \in {"settle", "publish", "notify"} => cur[w] \in posted
    /\ \A w \in Worker : pc[w] = "publish" =>
          published[cur[w]] = 0 /\ told[cur[w]] = 0
    /\ \A w \in Worker : pc[w] = "notify" =>
          published[cur[w]] = 1 /\ told[cur[w]] = 0
    /\ \A v, w \in Worker :
          (pc[v] \in {"publish", "notify"} /\ pc[w] \in {"publish", "notify"}
             /\ cur[v] = cur[w]) => v = w
    /\ \A p \in Payment : p \notin posted => published[p] = 0

\* Why a notification may be parked.
Excused(p) == p \in Unmatched \/ Credits(p) = 0 \/ attempts[p] = MaxAttempts

\* What a worker parks on: a count read when it claimed, which is behind the
\* row's by now, or a payment that cannot be credited.
ParkInv ==
    /\ \A w \in Worker : \A p \in Payment : claim[w][p] <= attempts[p]
    /\ \A w \in Worker : pc[w] \in {"markFailed", "publishFailed"} => Excused(cur[w])
    /\ \A p \in Payment : (status[p] = "failed" \/ p \in failEvents) => Excused(p)

IInv ==
    /\ TypeOK
    /\ CurInv
    /\ AnnounceInv
    /\ CreditedIsPosted
    /\ AnnouncedOnce
    /\ ParkInv

\* The conversion yields whole, non-negative credits.
LEMMA CreditsNat == \A p \in Payment : Credits(p) \in Nat
  <1>1. \A k \in Nat : \A d \in Nat \ {0} : k \div d \in Nat
    OBVIOUS
  <1>2. QED
    BY <1>1, PaymentAssumption DEF Credits

\* Every initial state satisfies the inductive invariant.
LEMMA InitIInv == Init => IInv
  <1> SUFFICES ASSUME Init PROVE IInv
    OBVIOUS
  <1> USE PaymentAssumption DEF Init, Ledger!LedgerInit, NoClaim
  <1>1. TypeOK
    BY DEF TypeOK, Statuses, InTry, Uncaught
  <1>2. CurInv /\ AnnounceInv /\ CreditedIsPosted /\ AnnouncedOnce
    BY DEF CurInv, AnnounceInv, CreditedIsPosted, AnnouncedOnce
  <1>3. ParkInv
    BY DEF ParkInv
  <1>4. QED
    BY <1>1, <1>2, <1>3 DEF IInv

\* Leaving a notification, and leaving a whole batch, keeps the worker typed.
LEMMA LeaveTypes ==
  ASSUME TypeOK, NEW w \in Worker, (Done(w) /\ cur[w] \in Payment) \/ Abandon(w)
  PROVE  /\ pc' \in [Worker -> InTry \cup Uncaught \cup {"idle", "next", "notify", "catch"}]
         /\ cur' \in [Worker -> Payment \cup {None}]
         /\ claim' \in [Worker -> [Payment -> 0..MaxAttempts]]
  <1>1. CASE Done(w) /\ cur[w] \in Payment
    BY <1>1, PaymentAssumption DEF Done, TypeOK
  <1>2. CASE Abandon(w)
    <2>1. NoClaim \in [Payment -> 0..MaxAttempts]
      BY PaymentAssumption DEF NoClaim
    <2>2. QED
      BY <1>2, <2>1 DEF Abandon, TypeOK, Uncaught
  <1>3. QED
    BY <1>1, <1>2

\* Types survive every step.
LEMMA NextTypeOK == ASSUME IInv, Next PROVE TypeOK'
  <1> USE PaymentAssumption
      DEF rowVars, ledgerVars, workerVars, reportVars, Statuses, InTry, Uncaught
  <1>t. TypeOK /\ CurInv
    BY DEF IInv
  <1>1. ASSUME NEW p \in Payment, Age(p) PROVE TypeOK'
    BY <1>1, <1>t DEF Age, TypeOK
  <1>2. ASSUME NEW w \in Worker, NEW p \in Payment, Deliver(w, p) PROVE TypeOK'
    BY <1>2, <1>t DEF Deliver, TypeOK
  <1>3. ASSUME NEW w \in Worker, Sweep(w) PROVE TypeOK'
    <2>1. status' \in [Payment -> Statuses]
      BY <1>3, <1>t DEF Sweep, TypeOK
    <2>2. QED
      BY <1>3, <1>t, <2>1 DEF Sweep, TypeOK
  <1>4. ASSUME NEW w \in Worker, Record(w) PROVE TypeOK'
    BY <1>4, <1>t DEF Record, TypeOK
  <1>5. ASSUME NEW w \in Worker, ClaimNext(w) PROVE TypeOK'
    <2>1. \A n \in 0..MaxAttempts : OneMore(n) \in 0..MaxAttempts
      BY DEF OneMore
    <2>2. /\ status' \in [Payment -> Statuses]
          /\ attempts' \in [Payment -> 0..MaxAttempts]
          /\ claim' \in [Worker -> [Payment -> 0..MaxAttempts]]
      <3>1. CASE UNCHANGED <<status, attempts, claim>>
        BY <3>1, <1>t DEF TypeOK
      <3>2. CASE \E S \in SUBSET {p \in Payment : status[p] = "received"} :
              /\ status' = [p \in Payment |-> IF p \in S THEN "processing" ELSE status[p]]
              /\ attempts' = [p \in Payment |->
                                IF p \in S THEN OneMore(attempts[p]) ELSE attempts[p]]
              /\ claim' = [claim EXCEPT ![w] =
                                [p \in Payment |-> IF p \in S THEN attempts'[p] ELSE 0]]
        <4>1. attempts' \in [Payment -> 0..MaxAttempts]
          BY <3>2, <1>t, <2>1 DEF TypeOK
        <4>2. QED
          BY <3>2, <1>t, <4>1 DEF TypeOK
      <3>3. QED
        BY <3>1, <3>2, <1>5 DEF ClaimNext
    <2>3. QED
      BY <1>5, <1>t, <2>2 DEF ClaimNext, TypeOK
  <1>6. ASSUME NEW w \in Worker, NextNotification(w) PROVE TypeOK'
    BY <1>6, <1>t DEF NextNotification, TypeOK
  <1>7. ASSUME NEW w \in Worker, Resolve(w) PROVE TypeOK'
    BY <1>7, <1>t DEF Resolve, TypeOK
  <1>8. ASSUME NEW w \in Worker, CreditAtomically(w) PROVE TypeOK'
    <2>1. cur[w] \in Payment
      BY <1>8, <1>t DEF CreditAtomically, CurInv
    <2>2. balance' \in [Wallet -> Nat] /\ posted' \subseteq Payment
      BY <1>8, <1>t, <2>1, CreditsNat DEF CreditAtomically, Ledger!Post, TypeOK
    <2>3. pc' \in {[pc EXCEPT ![w] = "publish"], [pc EXCEPT ![w] = "settle"]}
          /\ status' \in {[status EXCEPT ![cur[w]] = "credited"], status}
      BY <1>8 DEF CreditAtomically
    <2>4. status' \in [Payment -> Statuses]
          /\ pc' \in [Worker -> InTry \cup Uncaught \cup {"idle", "next", "notify",
             "catch"}]
      BY <1>t, <2>3, <2>1 DEF TypeOK
    <2>5. QED
      BY <1>8, <1>t, <2>2, <2>4 DEF CreditAtomically, TypeOK
  <1>9. ASSUME NEW w \in Worker, SettleDuplicate(w) PROVE TypeOK'
    BY <1>9, <1>t, LeaveTypes DEF SettleDuplicate, TypeOK, CurInv
  <1>10. ASSUME NEW w \in Worker, PublishCredited(w) PROVE TypeOK'
    BY <1>10, <1>t DEF PublishCredited, TypeOK, CurInv
  <1>11. ASSUME NEW w \in Worker, NotifyCredited(w) PROVE TypeOK'
    BY <1>11, <1>t, LeaveTypes DEF NotifyCredited, TypeOK, CurInv
  <1>12. ASSUME NEW w \in Worker, Catch(w) PROVE TypeOK'
    <2>1. CASE pc' = [pc EXCEPT ![w] = "markFailed"] /\ UNCHANGED <<cur, claim>>
      BY <1>12, <2>1, <1>t DEF Catch, TypeOK
    <2>2. CASE Done(w)
      BY <1>12, <2>2, <1>t, LeaveTypes DEF Catch, TypeOK, CurInv
    <2>3. QED
      BY <1>12, <2>1, <2>2 DEF Catch
  <1>13. ASSUME NEW w \in Worker, MarkFailed(w) PROVE TypeOK'
    BY <1>13, <1>t DEF MarkFailed, TypeOK, CurInv
  <1>14. ASSUME NEW w \in Worker, PublishFailed(w) PROVE TypeOK'
    BY <1>14, <1>t, LeaveTypes DEF PublishFailed, TypeOK, CurInv
  <1>15. ASSUME NEW w \in Worker, Throw(w) PROVE TypeOK'
    <2>1. CASE pc' = [pc EXCEPT ![w] = "catch"] /\ UNCHANGED <<cur, claim>>
      BY <1>15, <2>1, <1>t DEF Throw, TypeOK
    <2>2. CASE Abandon(w)
      BY <1>15, <2>2, <1>t, LeaveTypes DEF Throw, TypeOK
    <2>3. QED
      BY <1>15, <2>1, <2>2 DEF Throw
  <1>16. ASSUME NEW w \in Worker, Crash(w) PROVE TypeOK'
    BY <1>16, <1>t, LeaveTypes DEF Crash, TypeOK
  <1>17. QED
    BY <1>1, <1>2, <1>3, <1>4, <1>5, <1>6, <1>7, <1>8, <1>9, <1>10, <1>11, <1>12,
       <1>13, <1>14, <1>15, <1>16 DEF Next, Run

\* The rest of the inductive invariant survives every step.
LEMMA NextRest ==
  ASSUME IInv, Next
  PROVE  CurInv' /\ AnnounceInv' /\ CreditedIsPosted' /\ AnnouncedOnce'
  <1> DEFINE Rest == CurInv /\ AnnounceInv /\ CreditedIsPosted /\ AnnouncedOnce
  <1> USE DEF rowVars, ledgerVars, workerVars, reportVars, InTry, Uncaught
  <1>t. TypeOK /\ Rest
    BY DEF IInv
  <1> SUFFICES Rest'
    OBVIOUS
  <1> USE <1>t DEF TypeOK, CurInv, AnnounceInv, CreditedIsPosted, AnnouncedOnce
  <1>1. ASSUME NEW p \in Payment, Age(p) PROVE Rest'
    BY <1>1 DEF Age
  <1>2. ASSUME NEW w \in Worker, NEW p \in Payment, Deliver(w, p) PROVE Rest'
    BY <1>2 DEF Deliver
  <1>3. ASSUME NEW w \in Worker, Sweep(w) PROVE Rest'
    BY <1>3 DEF Sweep
  <1>4. ASSUME NEW w \in Worker, Record(w) PROVE Rest'
    BY <1>4 DEF Record
  <1>5. ASSUME NEW w \in Worker, ClaimNext(w) PROVE Rest'
    <2>1. \A p \in Payment : status'[p] = "credited" => status[p] = "credited"
      BY <1>5 DEF ClaimNext
    <2>2. UNCHANGED <<cur, posted, published, told>>
      BY <1>5 DEF ClaimNext
    <2>3. CASE pc' = [pc EXCEPT ![w] = "idle"]
      BY <1>5, <2>1, <2>2, <2>3 DEF ClaimNext
    <2>4. CASE pc' = [pc EXCEPT ![w] = "next"]
      BY <1>5, <2>1, <2>2, <2>4 DEF ClaimNext
    <2>5. QED
      BY <1>5, <2>3, <2>4 DEF ClaimNext
  <1>6. ASSUME NEW w \in Worker, NextNotification(w) PROVE Rest'
    <2>1. UNCHANGED <<status, posted, published, told>>
      BY <1>6 DEF NextNotification
    <2>2. CASE pc' = [pc EXCEPT ![w] = "idle"] /\ UNCHANGED cur
      BY <2>1, <2>2
    <2>3. CASE \E p \in Payment : /\ cur' = [cur EXCEPT ![w] = p]
                                   /\ pc' = [pc EXCEPT ![w] = "resolve"]
      <3> PICK p \in Payment : /\ cur' = [cur EXCEPT ![w] = p]
                               /\ pc' = [pc EXCEPT ![w] = "resolve"]
        BY <2>3
      <3>1. CurInv' /\ CreditedIsPosted' /\ AnnouncedOnce'
        BY <2>1
      <3>2. AnnounceInv'
        BY <2>1
      <3>3. QED
        BY <3>1, <3>2
    <2>4. QED
      BY <1>6, <2>2, <2>3 DEF NextNotification
  <1>7. ASSUME NEW w \in Worker, Resolve(w) PROVE Rest'
    BY <1>7 DEF Resolve
  <1>8. ASSUME NEW w \in Worker, CreditAtomically(w) PROVE Rest'
    <2>1. CASE cur[w] \in posted /\ pc' = [pc EXCEPT ![w] = "settle"]
               /\ UNCHANGED <<status, ledgerVars>>
      BY <1>8, <2>1 DEF CreditAtomically
    <2>2. CASE /\ cur[w] \notin posted
               /\ posted' = posted \cup {cur[w]}
               /\ status' = [status EXCEPT ![cur[w]] = "credited"]
               /\ pc' = [pc EXCEPT ![w] = "publish"]
      BY <1>8, <2>2 DEF CreditAtomically
    <2>3. QED
      BY <1>8, <2>1, <2>2 DEF CreditAtomically, Ledger!Post
  <1>9. ASSUME NEW w \in Worker, SettleDuplicate(w) PROVE Rest'
    BY <1>9 DEF SettleDuplicate, Done
  <1>10. ASSUME NEW w \in Worker, PublishCredited(w) PROVE Rest'
    BY <1>10 DEF PublishCredited
  <1>11. ASSUME NEW w \in Worker, NotifyCredited(w) PROVE Rest'
    BY <1>11 DEF NotifyCredited, Done
  <1>12. ASSUME NEW w \in Worker, Catch(w) PROVE Rest'
    <2>1. UNCHANGED <<status, posted, published, told>>
      BY <1>12 DEF Catch
    <2>2. CASE pc' = [pc EXCEPT ![w] = "markFailed"] /\ UNCHANGED cur
      BY <1>12, <2>1, <2>2 DEF Catch
    <2>3. CASE Done(w)
      BY <2>1, <2>3 DEF Done
    <2>4. QED
      BY <1>12, <2>2, <2>3 DEF Catch
  <1>13. ASSUME NEW w \in Worker, MarkFailed(w) PROVE Rest'
    BY <1>13 DEF MarkFailed
  <1>14. ASSUME NEW w \in Worker, PublishFailed(w) PROVE Rest'
    BY <1>14 DEF PublishFailed, Done
  <1>15. ASSUME NEW w \in Worker, Throw(w) PROVE Rest'
    <2>1. UNCHANGED <<status, posted, published, told>>
      BY <1>15 DEF Throw
    <2>2. CASE pc[w] \in InTry /\ pc' = [pc EXCEPT ![w] = "catch"] /\ UNCHANGED cur
      BY <2>1, <2>2
    <2>3. CASE Abandon(w)
      BY <2>1, <2>3 DEF Abandon
    <2>4. QED
      BY <1>15, <2>2, <2>3 DEF Throw
  <1>16. ASSUME NEW w \in Worker, Crash(w) PROVE Rest'
    BY <1>16 DEF Crash, Abandon
  <1>17. QED
    BY <1>1, <1>2, <1>3, <1>4, <1>5, <1>6, <1>7, <1>8, <1>9, <1>10, <1>11, <1>12,
       <1>13, <1>14, <1>15, <1>16 DEF Next, Run

\* Attempts only grow, so what excuses a parking once excuses it for good.
LEMMA AttemptsGrow ==
  ASSUME IInv, Next
  PROVE  \A p \in Payment : attempts[p] <= attempts'[p] /\ (Excused(p) => Excused(p)')
  <1>t. TypeOK /\ TypeOK'
    BY NextTypeOK DEF IInv
  <1>1. \A p \in Payment : attempts[p] <= attempts'[p]
    <2>1. CASE \E w \in Worker : ClaimNext(w)
      <3>1. \A n \in 0..MaxAttempts : n <= OneMore(n)
        BY PaymentAssumption DEF OneMore
      <3>2. \A p \in Payment : attempts'[p] = attempts[p] \/ attempts'[p] = OneMore(attempts[p])
        BY <2>1, <1>t DEF ClaimNext, TypeOK
      <3>3. QED
        <4> SUFFICES ASSUME NEW p \in Payment PROVE attempts[p] <= attempts'[p]
          OBVIOUS
        <4>1. attempts[p] \in 0..MaxAttempts
          BY <1>t DEF TypeOK
        <4>2. QED
          BY <3>1, <3>2, <4>1, PaymentAssumption
    <2>2. CASE UNCHANGED attempts
      BY <2>2, <1>t DEF TypeOK
    <2>3. QED
      BY <2>1, <2>2 DEF Next, Run, Age, Deliver, Sweep, Record, NextNotification, Resolve,
         CreditAtomically, SettleDuplicate, PublishCredited, NotifyCredited, Catch,
         MarkFailed, PublishFailed, Throw, Crash, rowVars
  <1>2. QED
    BY <1>1, <1>t, PaymentAssumption DEF Excused, TypeOK

\* A worker's counts stay behind the rows'.
LEMMA ClaimsBehind ==
  ASSUME IInv, Next
  PROVE  \A w \in Worker : \A p \in Payment : claim'[w][p] <= attempts'[p]
  <1>t. TypeOK /\ TypeOK' /\ ParkInv
    BY NextTypeOK DEF IInv
  <1>1. \A v \in Worker : \A p \in Payment :
          claim'[v][p] = claim[v][p] \/ claim'[v][p] = 0 \/ claim'[v][p] = attempts'[p]
    <2>1. CASE \E w \in Worker : ClaimNext(w)
      <3> PICK w \in Worker : ClaimNext(w)
        BY <2>1
      <3>1. CASE UNCHANGED claim
        BY <3>1
      <3>2. CASE \E S \in SUBSET Payment : claim' = [claim EXCEPT ![w] =
                      [p \in Payment |-> IF p \in S THEN attempts'[p] ELSE 0]]
        BY <3>2, <1>t DEF TypeOK
      <3>3. QED
        BY <3>1, <3>2 DEF ClaimNext
    <2>2. CASE \E w \in Worker : Done(w) /\ cur[w] \in Payment
      BY <2>2, <1>t DEF Done, TypeOK
    <2>3. CASE \E w \in Worker : Abandon(w)
      BY <2>3, <1>t DEF Abandon, NoClaim, TypeOK
    <2>4. CASE UNCHANGED claim
      BY <2>4
    <2>5. QED
      BY <2>1, <2>2, <2>3, <2>4 DEF Next, Run, Age, Deliver, Sweep, Record,
         NextNotification, Resolve, CreditAtomically, SettleDuplicate, PublishCredited,
         NotifyCredited, Catch, MarkFailed, PublishFailed, Throw, Crash, IInv, CurInv,
         workerVars
  <1>2. QED
    <2>1. \A p \in Payment : attempts[p] <= attempts'[p]
      BY AttemptsGrow
    <2>2. QED
      <3> SUFFICES ASSUME NEW v \in Worker, NEW p \in Payment
                   PROVE  claim'[v][p] <= attempts'[p]
        OBVIOUS
      <3>1. /\ attempts[p] \in 0..MaxAttempts /\ attempts'[p] \in 0..MaxAttempts
            /\ claim[v][p] \in 0..MaxAttempts /\ claim'[v][p] \in 0..MaxAttempts
        BY <1>t DEF TypeOK
      <3>2. claim[v][p] <= attempts[p]
        BY <1>t DEF ParkInv
      <3>3. QED
        BY <1>1, <2>1, <3>1, <3>2, PaymentAssumption

\* Whoever parks, or has parked, has a reason.
LEMMA NextPark == ASSUME IInv, Next PROVE ParkInv'
  <1>t. TypeOK /\ CurInv /\ ParkInv
    BY DEF IInv
  <1> USE DEF TypeOK, CurInv, ParkInv, InTry, Uncaught, rowVars, reportVars, workerVars
  <1>1. \A v \in Worker :
          pc'[v] \in {"markFailed", "publishFailed"} => Excused(cur[v])'
    <2>1. ASSUME NEW w \in Worker, Resolve(w), NEW v \in Worker,
                 pc'[v] \in {"markFailed", "publishFailed"}
          PROVE  Excused(cur[v])'
      BY <2>1, <1>t DEF Resolve, Excused
    <2>2. ASSUME NEW w \in Worker, Catch(w), NEW v \in Worker,
                 pc'[v] \in {"markFailed", "publishFailed"}
          PROVE  Excused(cur[v])'
      <3>1. cur'[v] = cur[v] /\ cur[v] \in Payment
        BY <2>2, <1>t DEF Catch, Done
      <3>2. Excused(cur[v])
        <4>1. CASE v = w
          <5>1. claim[w][cur[w]] >= MaxAttempts
            BY <2>2, <4>1, <1>t DEF Catch, Done
          <5>2. claim[w][cur[w]] <= attempts[cur[w]] /\ attempts[cur[w]] \in 0..MaxAttempts
                /\ claim[w][cur[w]] \in 0..MaxAttempts
            BY <3>1, <4>1, <1>t
          <5>3. QED
            BY <5>1, <5>2, <4>1, PaymentAssumption DEF Excused
        <4>2. CASE v # w
          BY <2>2, <4>2, <1>t DEF Catch, Done
        <4>3. QED
          BY <4>1, <4>2
      <3>3. QED
        BY <3>1, <3>2, AttemptsGrow
    <2>3. CASE \A v \in Worker : pc'[v] \in {"markFailed", "publishFailed"} =>
                 pc[v] \in {"markFailed", "publishFailed"} /\ cur'[v] = cur[v]
      BY <2>3, <1>t, AttemptsGrow
    <2>4. QED
      BY <2>1, <2>2, <2>3, <1>t DEF Next, Run, Age, Deliver, Sweep, Record, ClaimNext,
         NextNotification, CreditAtomically, SettleDuplicate, PublishCredited,
         NotifyCredited, MarkFailed, PublishFailed, Throw, Crash, Done, Abandon
  <1>2. \A p \in Payment : (status'[p] = "failed" \/ p \in failEvents') => Excused(p)'
    <2>1. \A p \in Payment : (status'[p] = "failed" \/ p \in failEvents') => Excused(p)
      <3>1. ASSUME NEW w \in Worker, MarkFailed(w) \/ PublishFailed(w)
            PROVE  \A p \in Payment :
                     (status'[p] = "failed" \/ p \in failEvents') => Excused(p)
        BY <3>1, <1>t DEF MarkFailed, PublishFailed
      <3>2. CASE /\ failEvents' = failEvents
                 /\ \A p \in Payment : status'[p] = "failed" => status[p] = "failed"
        BY <3>2, <1>t
      <3>3. QED
        BY <3>1, <3>2, <1>t DEF Next, Run, Age, Deliver, Sweep, Record, ClaimNext,
           NextNotification, Resolve, CreditAtomically, SettleDuplicate,
           PublishCredited, NotifyCredited, Catch, Throw, Crash
    <2>2. QED
      BY <2>1, AttemptsGrow
  <1>3. QED
    BY <1>1, <1>2, ClaimsBehind

\* Every step, a stuttering one included, preserves the inductive invariant.
LEMMA NextIInv == IInv /\ [Next]_vars => IInv'
  <1>1. ASSUME IInv, Next PROVE IInv'
    BY <1>1, NextTypeOK, NextRest, NextPark DEF IInv
  <1>2. ASSUME IInv, UNCHANGED vars PROVE IInv'
    BY <1>2 DEF IInv, vars, rowVars, ledgerVars, workerVars, reportVars, TypeOK, CurInv,
       AnnounceInv, CreditedIsPosted, AnnouncedOnce, ParkInv, Excused
  <1>3. QED
    BY <1>1, <1>2

\* The inductive invariant holds throughout.
THEOREM Invariance == Spec => []IInv
  BY InitIInv, NextIInv, PTL DEF Spec

\* Type correctness; in particular no wallet balance is ever negative.
THEOREM TypeCorrect == Spec => []TypeOK
  BY Invariance, PTL DEF IInv

\* A notification that says 'credited' has its ledger row.
THEOREM CreditedHonest == Spec => []CreditedIsPosted
  BY Invariance, PTL DEF IInv

\* One event and one confirmation at most, and only for credited money.
THEOREM AnnouncedAtMostOnce == Spec => []AnnouncedOnce
  BY Invariance, PTL DEF IInv

\* A settled notification never goes back to the queue.
THEOREM NeverRequeued == Spec => TerminalNeverRequeued
  <1>1. IInv /\ [Next]_vars =>
          [\A p \in Payment : status[p] \in Terminal => status'[p] \in Terminal]_vars
    <2> SUFFICES ASSUME IInv, Next, NEW p \in Payment, status[p] \in Terminal
                 PROVE  status'[p] \in Terminal
      BY DEF vars
    <2>t. TypeOK /\ CurInv
      BY DEF IInv
    <2> USE DEF Terminal, TypeOK, rowVars
    <2>1. CASE UNCHANGED status
      BY <2>1
    <2>2. CASE \E w \in Worker : Record(w)
      BY <2>2, <2>t DEF Record, CurInv
    <2>3. CASE \E w \in Worker : Sweep(w)
      BY <2>3, <2>t DEF Sweep, Stales, Stale
    <2>4. CASE \E w \in Worker : ClaimNext(w)
      BY <2>4, <2>t DEF ClaimNext
    <2>5. CASE \E w \in Worker : CreditAtomically(w) \/ SettleDuplicate(w) \/ MarkFailed(w)
      BY <2>5, <2>t DEF CreditAtomically, SettleDuplicate, MarkFailed, CurInv
    <2>6. QED
      BY <2>1, <2>2, <2>3, <2>4, <2>5 DEF Next, Run, Age, Deliver, NextNotification,
         Resolve, PublishCredited, NotifyCredited, Catch, PublishFailed, Throw, Crash
  <1>2. QED
    BY <1>1, Invariance, PTL DEF Spec, TerminalNeverRequeued

\* A payment that can be credited is parked only after its last attempt.
THEOREM ParkedSpent == Spec => []ParkedForCause
  <1>1. IInv => ParkedForCause
    BY DEF IInv, ParkInv, ParkedForCause, Excused
  <1>2. QED
    BY <1>1, Invariance, PTL
=============================================================================
