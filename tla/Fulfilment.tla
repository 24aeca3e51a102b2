----------------------------- MODULE Fulfilment -----------------------------
(***************************************************************************)
(* Deliveries of customer requests to vendors: the ask, the paid answer,   *)
(* the silence (src/src/application/fulfilment/                            *)
(* request-distribution.service.ts and vendor-response-handler.service.ts).*)
(*                                                                         *)
(* A turn is one inbound message of a vendor that answers a delivery; it   *)
(* runs recordVendorResponse one await at a time.  A vendor's turns are    *)
(* serialised by the conversation lock, whose lease a slow turn outlives:  *)
(* then two of them overlap.  A sweep is one run of sweepTimeouts: every   *)
(* interval of every pod starts one, whether or not the last is over.      *)
(*                                                                         *)
(* Deliveries are numbered by deliveredAt.  The wallet transaction is one  *)
(* step, CreditLedger's Post.  MaxTrouble bounds crashes, failed calls and *)
(* overlaps together.                                                      *)
(***************************************************************************)
EXTENDS Integers, FiniteSets

CONSTANTS LastDelivery,  \* deliveries are 1..LastDelivery
          Vendor, VendorOf,
          Recharge,      \* payments credited to vendors' wallets
          RechargeOf, RechargeCredits,
          Fee,           \* visibilityFee
          Turn,
          Sweeper,       \* runs of sweepTimeouts that may be under way at a time
          MaxTrouble

Delivery == 1..LastDelivery

ASSUME FulfilmentAssumption ==
    /\ LastDelivery \in Nat \ {0}
    /\ VendorOf \in [Delivery -> Vendor]
    /\ Recharge \cap Delivery = {}
    /\ RechargeOf \in [Recharge -> Vendor]
    /\ RechargeCredits \in [Recharge -> Nat]
    /\ Fee \in Nat
    /\ IsFiniteSet(Sweeper)
    /\ MaxTrouble \in Nat

VARIABLES status,    \* RequestDelivery.status, "absent" before it is created
          revealed,  \* deliveries with revealedToCustomer
          deducted,  \* deliveries with creditDeducted
          aged,      \* delivered more than RESPONSE_WINDOW_MS ago
          balance,   \* wallet balances, one wallet per vendor
          posted,    \* ledger references with a row
          pc,        \* where each turn is
          at,        \* the delivery a turn answers
          accepts,   \* turns whose answer is an acceptance
          paid,      \* turns whose debit answered 'debited' or 'duplicate'
          sweep,     \* where each sweep is
          found,     \* the deliveries a sweep read as stale
          answers,   \* request.accepted and request.rejected events per delivery
          silences,  \* request.timeout events per delivery
          trouble,
          disturbed, \* per delivery: turns on it that broke off or overlapped
          overlaps,  \* per delivery: sweeps that read it while another had it
          dropped    \* deliveries in the hands of a sweep that broke off

rowVars == <<status, revealed, deducted>>
ledgerVars == <<balance, posted>>
turnVars == <<pc, at, accepts, paid>>
sweepVars == <<sweep, found>>
eventVars == <<answers, silences>>
troubleVars == <<trouble, disturbed>>
sweepTroubleVars == <<overlaps, dropped>>
vars == <<rowVars, aged, ledgerVars, turnVars, sweepVars, eventVars, troubleVars,
          sweepTroubleVars>>

Ledger == INSTANCE CreditLedger
            WITH Wallet <- Vendor,
                 Ref <- Delivery \cup Recharge,
                 WalletOf <- [r \in Delivery \cup Recharge |->
                                IF r \in Delivery THEN VendorOf[r] ELSE RechargeOf[r]],
                 Amount <- [r \in Delivery \cup Recharge |->
                              IF r \in Delivery THEN -Fee ELSE RechargeCredits[r]]

Answered == {"accepted", "rejected"}

TypeOK ==
    /\ status \in [Delivery -> {"absent", "pending", "timeout"} \cup Answered]
    /\ revealed \subseteq Delivery
    /\ deducted \subseteq Delivery
    /\ aged \subseteq Delivery
    /\ balance \in [Vendor -> Nat]
    /\ posted \subseteq Delivery \cup Recharge
    /\ pc \in [Turn -> {"idle", "check", "bill", "update", "publish"}]
    /\ at \in [Turn -> Delivery]
    /\ accepts \subseteq Turn
    /\ paid \subseteq Turn
    /\ sweep \in [Sweeper -> {"idle", "mark", "publish"}]
    /\ found \in [Sweeper -> SUBSET Delivery]
    /\ answers \in [Delivery -> Nat]
    /\ silences \in [Delivery -> Nat]
    /\ trouble \in 0..MaxTrouble
    /\ disturbed \in [Delivery -> 0..MaxTrouble]
    /\ overlaps \in [Delivery -> Nat]
    /\ dropped \subseteq Delivery

Init ==
    /\ status = [d \in Delivery |-> "absent"]
    /\ revealed = {}
    /\ deducted = {}
    /\ aged = {}
    /\ Ledger!LedgerInit
    /\ pc = [t \in Turn |-> "idle"]
    /\ at = [t \in Turn |-> 1]
    /\ accepts = {}
    /\ paid = {}
    /\ sweep = [p \in Sweeper |-> "idle"]
    /\ found = [p \in Sweeper |-> {}]
    /\ answers = [d \in Delivery |-> 0]
    /\ silences = [d \in Delivery |-> 0]
    /\ trouble = 0
    /\ disturbed = [d \in Delivery |-> 0]
    /\ overlaps = [d \in Delivery |-> 0]
    /\ dropped = {}

\* One more thing goes wrong for the deliveries of D.
Disturb(D) ==
    /\ trouble < MaxTrouble
    /\ trouble' = trouble + 1
    /\ disturbed' = [d \in Delivery |->
                       IF d \in D THEN disturbed[d] + 1 ELSE disturbed[d]]
-----------------------------------------------------------------------------
\* distribute creates its deliveries in order, one insert each; the vendor can
\* be asked, and answer, before the loop is over.
Deliver(d) ==
    /\ status[d] = "absent"
    /\ \A e \in Delivery : e < d => status[e] # "absent"
    /\ status' = [status EXCEPT ![d] = "pending"]
    /\ UNCHANGED <<revealed, deducted, aged, ledgerVars, turnVars, sweepVars,
                   eventVars, troubleVars, sweepTroubleVars>>

\* The response window of an open delivery closes, whoever is answering it; that
\* of an older one has closed before.
Age(d) ==
    /\ status[d] = "pending"
    /\ \A e \in Delivery : e < d /\ status[e] = "pending" => e \in aged
    /\ aged' = aged \cup {d}
    /\ UNCHANGED <<rowVars, ledgerVars, turnVars, sweepVars, eventVars, troubleVars,
                   sweepTroubleVars>>

\* A vendor's payment is credited.
Credit(r) ==
    /\ Ledger!Post(r)
    /\ UNCHANGED <<rowVars, aged, turnVars, sweepVars, eventVars, troubleVars,
                   sweepTroubleVars>>
-----------------------------------------------------------------------------
(* recordVendorResponse. *)

\* Turns of the same vendor that are still running.
Concurrent(t, v) == {u \in Turn \ {t} : pc[u] # "idle" /\ VendorOf[at[u]] = v}

\* Turn t starts answering delivery d; with a turn of the vendor still running
\* the lock's lease must have run out, which disturbs both.
Begin(t, d, accepted) ==
    /\ pc[t] = "idle"
    /\ IF Concurrent(t, VendorOf[d]) = {}
       THEN UNCHANGED troubleVars
       ELSE Disturb({d} \cup {at[u] : u \in Concurrent(t, VendorOf[d])})
    /\ pc' = [pc EXCEPT ![t] = "check"]
    /\ at' = [at EXCEPT ![t] = d]
    /\ accepts' = IF accepted THEN accepts \cup {t} ELSE accepts
    /\ UNCHANGED <<rowVars, aged, ledgerVars, paid, sweepVars, eventVars,
                   sweepTroubleVars>>

\* tryHandle: the payload of a tapped button names its request, however old.
Tap(t, d, accepted) ==
    /\ status[d] # "absent"
    /\ Begin(t, d, accepted)

\* Deliveries a text reply of vendor v may mean.
Open(v) == {d \in Delivery : VendorOf[d] = v /\ status[d] = "pending"}

\* tryHandle, findPendingDelivery: a text reply answers the newest open one.
Reply(t, v, accepted) ==
    \E d \in Open(v) :
        /\ \A e \in Open(v) : e <= d
        /\ Begin(t, d, accepted)

\* Only a pending delivery can be answered.
Answerable(d) == status[d] = "pending"

\* The turn is over.
Leave(t) ==
    /\ pc' = [pc EXCEPT ![t] = "idle"]
    /\ at' = [at EXCEPT ![t] = 1]
    /\ accepts' = accepts \ {t}
    /\ paid' = paid \ {t}

\* A closed delivery changes nothing; a rejection needs no wallet.
Check(t) ==
    /\ pc[t] = "check"
    /\ \/ ~Answerable(at[t]) /\ Leave(t)
       \/ /\ Answerable(at[t])
          /\ pc' = [pc EXCEPT ![t] = IF t \in accepts THEN "bill" ELSE "update"]
          /\ UNCHANGED <<at, accepts, paid>>
    /\ UNCHANGED <<rowVars, aged, ledgerVars, sweepVars, eventVars, troubleVars,
                   sweepTroubleVars>>

\* The debit's three answers to turn t.
Debited(t) == Ledger!Post(at[t])
Duplicate(t) ==
    /\ at[t] \in posted
    /\ balance[VendorOf[at[t]]] >= Fee
    /\ UNCHANGED ledgerVars
Insufficient(t) ==
    /\ balance[VendorOf[at[t]]] < Fee
    /\ UNCHANGED ledgerVars

\* Mutant: a vendor who cannot pay is shown all the same.
BillLenient(t) ==
    /\ pc[t] = "bill"
    /\ Debited(t) \/ Duplicate(t) \/ Insufficient(t)
    /\ paid' = paid \cup {t}
    /\ pc' = [pc EXCEPT ![t] = "update"]
    /\ UNCHANGED <<rowVars, aged, at, accepts, sweepVars, eventVars, troubleVars,
                   sweepTroubleVars>>

\* billResponder: one debit per delivery, and a duplicate counts as paid.  The
\* transaction looks at the balance first, so a short wallet is refused even
\* when the fee of this very delivery was taken before.
Bill(t) ==
    /\ pc[t] = "bill"
    /\ \/ (Debited(t) \/ Duplicate(t)) /\ paid' = paid \cup {t}
       \/ Insufficient(t) /\ UNCHANGED paid
    /\ pc' = [pc EXCEPT ![t] = "update"]
    /\ UNCHANGED <<rowVars, aged, at, accepts, sweepVars, eventVars, troubleVars,
                   sweepTroubleVars>>

\* Mutant: the row keeps the reveal of an earlier answer only.
UpdateHidden(t) ==
    /\ pc[t] = "update"
    /\ status' = [status EXCEPT ![at[t]] =
                    IF t \in accepts THEN "accepted" ELSE "rejected"]
    /\ deducted' = IF t \in paid THEN deducted \cup {at[t]} ELSE deducted
    /\ pc' = [pc EXCEPT ![t] = "publish"]
    /\ accepts' = accepts \ {t}
    /\ paid' = paid \ {t}
    /\ UNCHANGED <<revealed, aged, ledgerVars, at, sweepVars, eventVars, troubleVars,
                   sweepTroubleVars>>

\* Mutant: only an answer that is shown is worth an event.
UpdateQuietly(t) ==
    /\ pc[t] = "update"
    /\ status' = [status EXCEPT ![at[t]] =
                    IF t \in accepts THEN "accepted" ELSE "rejected"]
    /\ revealed' = IF t \in paid THEN revealed \cup {at[t]} ELSE revealed \ {at[t]}
    /\ deducted' = IF t \in paid THEN deducted \cup {at[t]} ELSE deducted
    /\ IF t \in paid
       THEN /\ pc' = [pc EXCEPT ![t] = "publish"]
            /\ accepts' = accepts \ {t} /\ paid' = paid \ {t} /\ UNCHANGED at
       ELSE Leave(t)
    /\ UNCHANGED <<aged, ledgerVars, sweepVars, eventVars, troubleVars,
                   sweepTroubleVars>>

\* The row is written by id, whatever its status has become.
Update(t) ==
    /\ pc[t] = "update"
    /\ status' = [status EXCEPT ![at[t]] =
                    IF t \in accepts THEN "accepted" ELSE "rejected"]
    /\ revealed' = IF t \in paid THEN revealed \cup {at[t]} ELSE revealed \ {at[t]}
    /\ deducted' = IF t \in paid THEN deducted \cup {at[t]} ELSE deducted
    /\ pc' = [pc EXCEPT ![t] = "publish"]
    /\ accepts' = accepts \ {t}
    /\ paid' = paid \ {t}
    /\ UNCHANGED <<aged, ledgerVars, at, sweepVars, eventVars, troubleVars,
                   sweepTroubleVars>>

Publish(t) ==
    /\ pc[t] = "publish"
    /\ answers' = [answers EXCEPT ![at[t]] = @ + 1]
    /\ Leave(t)
    /\ UNCHANGED <<rowVars, aged, ledgerVars, sweepVars, silences, troubleVars,
                   sweepTroubleVars>>

\* An awaited call throws (no step of the handler catches it) or the pod dies.
Abandon(t) ==
    /\ pc[t] # "idle"
    /\ Disturb({at[t]})
    /\ Leave(t)
    /\ UNCHANGED <<rowVars, aged, ledgerVars, sweepVars, eventVars,
                   sweepTroubleVars>>
-----------------------------------------------------------------------------
(* sweepTimeouts. *)

\* Mutant: the window of a delivery never closes.
NeverStale == {}

\* What the sweep looks for.
Stale == {d \in aged : status[d] = "pending"}

\* Run p has the deliveries of D in hand; another one may have some of them.
Take(p, D) ==
    /\ found' = [found EXCEPT ![p] = D]
    /\ sweep' = [sweep EXCEPT ![p] = "mark"]
    /\ overlaps' = [d \in Delivery |->
                      IF d \in D /\ (\E q \in Sweeper : d \in found[q])
                      THEN overlaps[d] + 1 ELSE overlaps[d]]

\* Mutant: the reported deliveries are all the aged ones.
FindAged(p) ==
    /\ sweep[p] = "idle"
    /\ aged # {}
    /\ Take(p, aged)
    /\ UNCHANGED <<rowVars, aged, ledgerVars, turnVars, eventVars, troubleVars, dropped>>

\* The read that opens a run; no flag and no row lock keep two runs apart.
FindStale(p) ==
    /\ sweep[p] = "idle"
    /\ Stale # {}
    /\ Take(p, Stale)
    /\ UNCHANGED <<rowVars, aged, ledgerVars, turnVars, eventVars, troubleVars, dropped>>

\* updateMany by id: what was found is marked, answered meanwhile or not.
MarkTimeout(p) ==
    /\ sweep[p] = "mark"
    /\ status' = [d \in Delivery |-> IF d \in found[p] THEN "timeout" ELSE status[d]]
    /\ sweep' = [sweep EXCEPT ![p] = "publish"]
    /\ UNCHANGED <<revealed, deducted, aged, ledgerVars, turnVars, found,
                   eventVars, troubleVars, sweepTroubleVars>>

PublishTimeout(p) ==
    /\ sweep[p] = "publish"
    /\ silences' = [d \in Delivery |->
                      IF d \in found[p] THEN silences[d] + 1 ELSE silences[d]]
    /\ sweep' = [sweep EXCEPT ![p] = "idle"]
    /\ found' = [found EXCEPT ![p] = {}]
    /\ UNCHANGED <<rowVars, aged, ledgerVars, turnVars, answers, troubleVars,
                   sweepTroubleVars>>

\* The catch block logs and the next interval starts over; or the pod dies.
AbandonSweep(p) ==
    /\ sweep[p] # "idle"
    /\ Disturb({})
    /\ dropped' = dropped \cup found[p]
    /\ sweep' = [sweep EXCEPT ![p] = "idle"]
    /\ found' = [found EXCEPT ![p] = {}]
    /\ UNCHANGED <<rowVars, aged, ledgerVars, turnVars, eventVars, overlaps>>
-----------------------------------------------------------------------------
TurnStep(t) == Check(t) \/ Bill(t) \/ Update(t) \/ Publish(t)

SweepStep(p) == FindStale(p) \/ MarkTimeout(p) \/ PublishTimeout(p)

Next ==
    \/ \E d \in Delivery : Deliver(d) \/ Age(d)
    \/ \E r \in Recharge : Credit(r)
    \/ \E t \in Turn :
          \/ \E d \in Delivery, accepted \in BOOLEAN : Tap(t, d, accepted)
          \/ \E v \in Vendor, accepted \in BOOLEAN : Reply(t, v, accepted)
          \/ TurnStep(t)
          \/ Abandon(t)
    \/ \E p \in Sweeper : SweepStep(p) \/ AbandonSweep(p)

Spec == Init /\ [][Next]_vars

\* Turns that have begun go on, sweeps come round by @Interval, time passes.
\* No vendor has to answer.
Fairness ==
    /\ \A t \in Turn : WF_vars(TurnStep(t))
    /\ \A p \in Sweeper : WF_vars(SweepStep(p))
    /\ \A d \in Delivery : WF_vars(Age(d))

FairSpec == Spec /\ Fairness
-----------------------------------------------------------------------------
\* The rule of the deliveries that ask, `immediate: false`, the only ones
\* distribute creates: "visible only once they respond and the debit succeeds".
\* No interleaving of answers, sweeps and crashes shows such a vendor uncharged
\* or records a deduction that is not in the ledger.
RevealedIsPaid == revealed \cup deducted \subseteq posted

\* Charged but hidden, which the reconciliation query exists to catch, comes
\* only from a turn that broke off or overlapped another one.
ChargedIsShown ==
    \A d \in Delivery :
        d \in posted \ revealed =>
            \/ \E t \in paid : at[t] = d /\ pc[t] = "update"
            \/ disturbed[d] > 0

\* Nothing keeps two sweeps, or two turns whose lock lapsed, off one delivery;
\* the Evidence Service hears a second answer only of turns that overlapped or
\* broke off there, and a second silence only of sweeps that both had it in hand.
EvidenceIsBounded ==
    \A d \in Delivery : /\ answers[d] <= 1 + disturbed[d]
                        /\ silences[d] <= 1 + overlaps[d]

\* What closed a delivery is heard of, though row and event are two writes and
\* sweeps and turns overwrite each other's rows: an answer is told, or about to
\* be, unless a turn on it was disturbed; a silence, unless its sweep broke off.
ClosedIsHeard ==
    \A d \in Delivery :
        /\ status[d] \in Answered =>
              \/ answers[d] > 0 \/ disturbed[d] > 0
              \/ \E t \in Turn : pc[t] = "publish" /\ at[t] = d
        /\ status[d] = "timeout" =>
              \/ silences[d] > 0 \/ d \in dropped
              \/ \E p \in Sweeper : sweep[p] = "publish" /\ d \in found[p]

\* A delivery does not stay open for ever: it is answered or timed out.
DeliveryCloses == \A d \in Delivery : status[d] = "pending" ~> status[d] # "pending"

\* Claimed of distribute: "if nobody can pay, the top-ranked vendor is delivered
\* anyway, unpaid", that is, shown without being asked.
TopIsShown ==
    [][1 \in revealed' \/ status[1] # "absent" \/ status'[1] = "absent"
       \/ \E v \in Vendor : balance[v] >= Fee]_vars

\* Claimed of sweepTimeouts: it "marks unanswered deliveries as timed out".
TimedOutIsUnanswered ==
    \A d \in Delivery : status[d] = "timeout" => answers[d] = 0

\* Claimed of billResponder: a retry after a crash between debit and reveal is
\* a duplicate that "must proceed" to the reveal, never a refusal.
ChargedAcceptanceIsShown ==
    \A d \in Delivery : status[d] = "accepted" /\ d \in posted => d \in revealed

\* Claimed by sweepTimeouts: silence "has to be recorded explicitly", and a
\* sweep that failed "will retry on the next interval".
SilenceIsRecorded ==
    \A d \in Delivery : status[d] = "timeout" ~> silences[d] > 0
=============================================================================
