-------------------------- MODULE PaymentProcessor --------------------------
(***************************************************************************)
(* From a provider's webhook to credits in a wallet                        *)
(* (src/src/application/wallet/payment-processor.service.ts over           *)
(* prisma-payment-notification.repository.ts).                             *)
(*                                                                         *)
(* A worker is one run of processPending on some pod, started by a webhook *)
(* or by the sweep.  It runs credit() over the notifications it claimed,   *)
(* one await at a time.  The wallet transaction itself is one step here:   *)
(* WalletLedger shows that the repository implements CreditLedger's Post.  *)
(*                                                                         *)
(* Faults: any awaited call may throw, any worker's pod may die.           *)
(* MaxFaults bounds how many of these happen; MaxDeliveries how often the  *)
(* provider sends one payment.  Time appears only as "received more than   *)
(* STALE_CLAIM_MS ago" (aged).  The attempt counter saturates at           *)
(* MaxAttempts, the only value it is compared with.                        *)
(***************************************************************************)
EXTENDS Integers, FiniteSets

CONSTANTS Payment,        \* provider references
          Wallet,
          WalletOf,       \* wallet behind the account each payment arrived on
          Unmatched,      \* payments to an account nobody knows, or without a wallet
          Kobo,           \* amount of each payment in minor units
          KoboPerCredit,
          Worker,
          None,           \* no current notification
          BatchSize,      \* BATCH_SIZE
          MaxAttempts,    \* MAX_NOTIFICATION_ATTEMPTS
          MaxDeliveries,
          MaxFaults

ASSUME PaymentAssumption ==
    /\ WalletOf \in [Payment -> Wallet]
    /\ Unmatched \subseteq Payment
    /\ Kobo \in [Payment -> Nat]
    /\ KoboPerCredit \in Nat \ {0}
    /\ None \notin Payment
    /\ BatchSize \in Nat \ {0}
    /\ MaxAttempts \in Nat \ {0}
    /\ MaxDeliveries \in Nat
    /\ MaxFaults \in Nat

VARIABLES deliveries,  \* webhooks acknowledged per payment
          status,      \* PaymentNotification.status, "absent" before intake
          attempts,    \* PaymentNotification.attempts
          aged,        \* notifications received more than STALE_CLAIM_MS ago
          balance,     \* wallet balances
          posted,      \* payments with a ledger row
          pc,          \* where each worker is
          cur,         \* the notification a worker is crediting
          claim,       \* attempts read at claim time; 0: not in the worker's batch
          published,   \* wallet.credited events recorded per payment
          told,        \* confirmations handed to the notifier per payment
          failEvents,  \* payments with a recorded wallet.credit.failed event
          faults

rowVars == <<deliveries, status, attempts, aged>>
ledgerVars == <<balance, posted>>
workerVars == <<pc, cur, claim>>
reportVars == <<published, told, failEvents>>
vars == <<rowVars, ledgerVars, workerVars, reportVars, faults>>

\* toCredits: whole credits only, the remnant is recorded and not converted.
Credits(p) == Kobo[p] \div KoboPerCredit

Ledger == INSTANCE CreditLedger
            WITH Ref <- Payment, Amount <- [p \in Payment |-> Credits(p)]

Statuses == {"absent", "received", "processing", "credited", "failed"}
Terminal == {"credited", "failed"}

\* Awaits inside credit()'s try block.
InTry == {"resolve", "commit", "settle", "publish"}
\* Awaits whose rejection nothing in credit() catches: fail() is returned
\* without await inside the try, and awaited in the catch block.
Uncaught == {"record", "claim", "markFailed", "publishFailed"}

TypeOK ==
    /\ deliveries \in [Payment -> 0..MaxDeliveries]
    /\ status \in [Payment -> Statuses]
    /\ attempts \in [Payment -> 0..MaxAttempts]
    /\ aged \subseteq Payment
    /\ balance \in [Wallet -> Nat]
    /\ posted \subseteq Payment
    /\ pc \in [Worker -> InTry \cup Uncaught \cup {"idle", "next", "notify", "catch"}]
    /\ cur \in [Worker -> Payment \cup {None}]
    /\ claim \in [Worker -> [Payment -> 0..MaxAttempts]]
    /\ published \in [Payment -> Nat]
    /\ told \in [Payment -> Nat]
    /\ failEvents \subseteq Payment
    /\ faults \in 0..MaxFaults

NoClaim == [p \in Payment |-> 0]

Init ==
    /\ deliveries = [p \in Payment |-> 0]
    /\ status = [p \in Payment |-> "absent"]
    /\ attempts = [p \in Payment |-> 0]
    /\ aged = {}
    /\ Ledger!LedgerInit
    /\ pc = [w \in Worker |-> "idle"]
    /\ cur = [w \in Worker |-> None]
    /\ claim = [w \in Worker |-> NoClaim]
    /\ published = [p \in Payment |-> 0]
    /\ told = [p \in Payment |-> 0]
    /\ failEvents = {}
    /\ faults = 0
-----------------------------------------------------------------------------
(* Intake. *)

\* The controller answers 200 and hands the payload to a detached handler.
Deliver(w, p) ==
    /\ pc[w] = "idle"
    /\ deliveries[p] < MaxDeliveries
    /\ deliveries' = [deliveries EXCEPT ![p] = @ + 1]
    /\ pc' = [pc EXCEPT ![w] = "record"]
    /\ cur' = [cur EXCEPT ![w] = p]
    /\ UNCHANGED <<status, attempts, aged, ledgerVars, claim, reportVars, faults>>

\* handle: the unique indexes drop a second delivery at the door; the first
\* one starts a processPending of its own.
Record(w) ==
    /\ pc[w] = "record"
    /\ IF status[cur[w]] = "absent"
       THEN /\ status' = [status EXCEPT ![cur[w]] = "received"]
            /\ pc' = [pc EXCEPT ![w] = "claim"]
       ELSE /\ pc' = [pc EXCEPT ![w] = "idle"]
            /\ UNCHANGED status
    /\ cur' = [cur EXCEPT ![w] = None]
    /\ UNCHANGED <<deliveries, attempts, aged, ledgerVars, claim, reportVars, faults>>

\* received_at falls STALE_CLAIM_MS into the past, whatever the row is doing.
Age(p) ==
    /\ status[p] # "absent"
    /\ aged' = aged \cup {p}
    /\ UNCHANGED <<deliveries, status, attempts, ledgerVars, workerVars, reportVars, faults>>
-----------------------------------------------------------------------------
(* The work queue. *)

\* Mutant: nothing is ever released.
NeverStale(p) == FALSE

\* releaseStale's where clause: age is measured from receipt, not from the claim.
Stale(p) == p \in aged /\ status[p] = "processing"

Stales == {p \in Payment : Stale(p)}

\* sweep: release what looks abandoned (at most a batch of it), then claim.
Sweep(w) ==
    /\ pc[w] = "idle"
    /\ \E S \in SUBSET Stales :
          /\ Cardinality(S) <= BatchSize
          /\ S # Stales => Cardinality(S) = BatchSize
          /\ status' = [p \in Payment |-> IF p \in S THEN "received" ELSE status[p]]
    /\ pc' = [pc EXCEPT ![w] = "claim"]
    /\ UNCHANGED <<deliveries, attempts, aged, ledgerVars, cur, claim, reportVars, faults>>

\* The saturated attempt count one claim later.
OneMore(n) == IF n < MaxAttempts THEN n + 1 ELSE n

\* claimNext: UPDATE ... RETURNING over FOR UPDATE SKIP LOCKED takes received
\* rows, and fewer than a batch when others hold some locked.
ClaimNext(w) ==
    /\ pc[w] = "claim"
    /\ \/ /\ \A p \in Payment : status[p] # "received"
          /\ pc' = [pc EXCEPT ![w] = "idle"]
          /\ UNCHANGED <<status, attempts, claim>>
       \/ \E S \in SUBSET {p \in Payment : status[p] = "received"} :
          /\ S # {} /\ Cardinality(S) <= BatchSize
          /\ status' = [p \in Payment |-> IF p \in S THEN "processing" ELSE status[p]]
          /\ attempts' = [p \in Payment |->
                            IF p \in S THEN OneMore(attempts[p]) ELSE attempts[p]]
          /\ claim' = [claim EXCEPT ![w] =
                            [p \in Payment |-> IF p \in S THEN attempts'[p] ELSE 0]]
          /\ pc' = [pc EXCEPT ![w] = "next"]
    /\ UNCHANGED <<deliveries, aged, ledgerVars, cur, reportVars, faults>>

\* The batch loop: RETURNING promises no order.
NextNotification(w) ==
    /\ pc[w] = "next"
    /\ \/ /\ claim[w] = NoClaim
          /\ pc' = [pc EXCEPT ![w] = "idle"]
          /\ UNCHANGED cur
       \/ \E p \in Payment :
          /\ claim[w][p] > 0
          /\ cur' = [cur EXCEPT ![w] = p]
          /\ pc' = [pc EXCEPT ![w] = "resolve"]
    /\ UNCHANGED <<rowVars, ledgerVars, claim, reportVars, faults>>

\* credit() returned: the loop drops the notification and goes on.
Done(w) ==
    /\ claim' = [claim EXCEPT ![w][cur[w]] = 0]
    /\ cur' = [cur EXCEPT ![w] = None]
    /\ pc' = [pc EXCEPT ![w] = "next"]
-----------------------------------------------------------------------------
(* credit(), await by await. *)

\* Account, wallet and conversion; below one credit nothing can be credited.
Resolve(w) ==
    /\ pc[w] = "resolve"
    /\ pc' = [pc EXCEPT ![w] =
                IF cur[w] \in Unmatched \/ Credits(cur[w]) = 0
                THEN "markFailed" ELSE "commit"]
    /\ UNCHANGED <<rowVars, ledgerVars, cur, claim, reportVars, faults>>

\* creditAtomically: ledger row, balance and notification settle together, or
\* the unique reference makes the whole transaction a duplicate.
CreditAtomically(w) ==
    /\ pc[w] = "commit"
    /\ \/ /\ Ledger!Post(cur[w])
          /\ status' = [status EXCEPT ![cur[w]] = "credited"]
          /\ pc' = [pc EXCEPT ![w] = "publish"]
       \/ /\ cur[w] \in posted
          /\ pc' = [pc EXCEPT ![w] = "settle"]
          /\ UNCHANGED <<status, ledgerVars>>
    /\ UNCHANGED <<deliveries, attempts, aged, cur, claim, reportVars, faults>>

\* Mutant: the duplicate path announces the credit a second time.
SettleDuplicateAnnouncing(w) ==
    /\ pc[w] = "settle"
    /\ status' = [status EXCEPT ![cur[w]] = "credited"]
    /\ pc' = [pc EXCEPT ![w] = "publish"]
    /\ UNCHANGED <<deliveries, attempts, aged, ledgerVars, cur, claim, reportVars, faults>>

\* Another delivery credited it: markProcessed, no event, no confirmation.
SettleDuplicate(w) ==
    /\ pc[w] = "settle"
    /\ status' = [status EXCEPT ![cur[w]] = "credited"]
    /\ Done(w)
    /\ UNCHANGED <<deliveries, attempts, aged, ledgerVars, reportVars, faults>>

\* The event is recorded after the transaction, not inside it.
PublishCredited(w) ==
    /\ pc[w] = "publish"
    /\ published' = [published EXCEPT ![cur[w]] = @ + 1]
    /\ pc' = [pc EXCEPT ![w] = "notify"]
    /\ UNCHANGED <<rowVars, ledgerVars, cur, claim, told, failEvents, faults>>

\* WalletNotifier never throws; whether the channel delivers is not its business.
NotifyCredited(w) ==
    /\ pc[w] = "notify"
    /\ told' = [told EXCEPT ![cur[w]] = @ + 1]
    /\ Done(w)
    /\ UNCHANGED <<rowVars, ledgerVars, published, failEvents, faults>>

\* Mutant: the attempt that is still to come is counted as made.
CatchEarly(w) ==
    /\ pc[w] = "catch"
    /\ IF claim[w][cur[w]] + 1 >= MaxAttempts
       THEN /\ pc' = [pc EXCEPT ![w] = "markFailed"]
            /\ UNCHANGED <<cur, claim>>
       ELSE Done(w)
    /\ UNCHANGED <<rowVars, ledgerVars, reportVars, faults>>

\* The catch block: park after the last attempt, judged by the attempts read at
\* claim time; otherwise leave the row 'processing' for the sweep.
Catch(w) ==
    /\ pc[w] = "catch"
    /\ IF claim[w][cur[w]] >= MaxAttempts
       THEN /\ pc' = [pc EXCEPT ![w] = "markFailed"]
            /\ UNCHANGED <<cur, claim>>
       ELSE Done(w)
    /\ UNCHANGED <<rowVars, ledgerVars, reportVars, faults>>

\* fail(), first half: markFailed updates by id, whatever the status is by now.
MarkFailed(w) ==
    /\ pc[w] = "markFailed"
    /\ status' = [status EXCEPT ![cur[w]] = "failed"]
    /\ pc' = [pc EXCEPT ![w] = "publishFailed"]
    /\ UNCHANGED <<deliveries, attempts, aged, ledgerVars, cur, claim, reportVars, faults>>

\* fail(), second half: the reconciliation event.
PublishFailed(w) ==
    /\ pc[w] = "publishFailed"
    /\ failEvents' = failEvents \cup {cur[w]}
    /\ Done(w)
    /\ UNCHANGED <<rowVars, ledgerVars, published, told, faults>>

\* The run is over: an escaped rejection or a dead pod drops the whole batch.
Abandon(w) ==
    /\ pc' = [pc EXCEPT ![w] = "idle"]
    /\ cur' = [cur EXCEPT ![w] = None]
    /\ claim' = [claim EXCEPT ![w] = NoClaim]

\* An awaited call throws without its effect.  A commit whose answer is lost
\* behaves as the throw that follows it at "publish".
Throw(w) ==
    /\ faults < MaxFaults
    /\ faults' = faults + 1
    /\ \/ /\ pc[w] \in InTry
          /\ pc' = [pc EXCEPT ![w] = "catch"]
          /\ UNCHANGED <<cur, claim>>
       \/ /\ pc[w] \in Uncaught
          /\ Abandon(w)
    /\ UNCHANGED <<rowVars, ledgerVars, reportVars>>

\* The pod dies between two awaits.
Crash(w) ==
    /\ pc[w] # "idle"
    /\ faults < MaxFaults
    /\ faults' = faults + 1
    /\ Abandon(w)
    /\ UNCHANGED <<rowVars, ledgerVars, reportVars>>
-----------------------------------------------------------------------------
Run(w) ==
    \/ Record(w)
    \/ ClaimNext(w)
    \/ NextNotification(w)
    \/ Resolve(w)
    \/ CreditAtomically(w)
    \/ SettleDuplicate(w)
    \/ PublishCredited(w)
    \/ NotifyCredited(w)
    \/ Catch(w)
    \/ MarkFailed(w)
    \/ PublishFailed(w)

Next ==
    \/ \E p \in Payment : Age(p)
    \/ \E w \in Worker :
          \/ \E p \in Payment : Deliver(w, p)
          \/ Sweep(w)
          \/ Run(w)
          \/ Throw(w)
          \/ Crash(w)

Spec == Init /\ [][Next]_vars

\* A run that has begun goes on, sweeps come round by @Interval, time passes.
\* Nothing obliges the provider to deliver.
Fairness ==
    /\ \A w \in Worker : WF_vars(Run(w)) /\ WF_vars(Sweep(w))
    /\ \A p \in Payment : WF_vars(Age(p))

FairSpec == Spec /\ Fairness
-----------------------------------------------------------------------------
\* A notification reads 'credited' only when its money is in the ledger.
CreditedIsPosted == \A p \in Payment : status[p] = "credited" => p \in posted

\* However many workers, releases and retries touch a payment, one
\* wallet.credited event and one confirmation at most leave the system, and
\* only for money that was credited.
AnnouncedOnce ==
    \A p \in Payment :
        /\ told[p] <= published[p]
        /\ published[p] <= 1
        /\ published[p] = 1 => p \in posted

\* A settled notification is never handed to a worker again: no sweep, late
\* worker or redelivery puts a terminal row back in the queue.
TerminalNeverRequeued ==
    [][\A p \in Payment : status[p] \in Terminal => status'[p] \in Terminal]_vars

\* Every recorded payment ends credited or parked, once the faults are over.
RecordedIsSettled ==
    \A p \in Payment : status[p] \in {"received", "processing"} ~> status[p] \in Terminal

\* Parking is for good, so it takes a reason: a payment that can be credited is
\* parked, and reported for reconciliation, only when its attempts are spent,
\* although each worker judges that by the count it read when it claimed.
ParkedForCause ==
    \A p \in Payment :
        (status[p] = "failed" \/ p \in failEvents) =>
            p \in Unmatched \/ Credits(p) = 0 \/ attempts[p] = MaxAttempts

\* Claimed by the code's own words: a 'failed' notification is one that "could
\* not be credited" (payment-processor.service.ts, fail).
FailedNeverCredited == \A p \in Payment : status[p] = "failed" => p \notin posted
=============================================================================
