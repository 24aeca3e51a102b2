---------------------------- MODULE WalletLedger ----------------------------
(***************************************************************************)
(* The wallet repository's transactions, as concurrent sessions run them   *)
(* (src/src/adapters/outbound/persistence/prisma-wallet.repository.ts and  *)
(* its callers in src/src/application/wallet/wallet.service.ts).           *)
(*                                                                         *)
(* A session is one call of creditAtomically, debitAtomically or           *)
(* grantAtomically made by any pod for one ledger reference; the same      *)
(* reference may be attempted any number of times, concurrently.  The      *)
(* transaction is split where other sessions can run: waiting for the      *)
(* wallet row (SELECT ... FOR UPDATE), holding it, answering the caller.   *)
(* A crash anywhere rolls back whatever was not committed.                 *)
(***************************************************************************)
EXTENDS Integers, FiniteSets, FiniteSetsExt

CONSTANTS Wallet, Ref, WalletOf, Amount,
          Session,  \* concurrent calls of the repository
          NoOne     \* nobody holds the row lock

ASSUME WalletLedgerAssumption ==
    /\ WalletOf \in [Ref -> Wallet]
    /\ Amount \in [Ref -> Int]
    /\ NoOne \notin Session
    /\ Ref # {}

VARIABLES balance,  \* CreditWallet.balanceCredits
          rows,     \* number of credit_transactions rows with this providerReference
          rowLock,  \* who holds the wallet row's FOR UPDATE lock
          pc,       \* where each session is
          ref,      \* the reference a session works on
          seen,     \* the balance a session read under the lock
          answer,   \* the outcome a session is about to return
          applied   \* times 'credited'/'debited' was returned for a reference

walletVars == <<balance, rows, rowLock, pc, ref, seen, answer, applied>>

Outcomes == {"none", "applied", "duplicate", "insufficient"}

WalletTypeOK ==
    /\ balance \in [Wallet -> Int]
    /\ rows \in [Ref -> {0, 1}]
    /\ rowLock \in [Wallet -> Session \cup {NoOne}]
    /\ pc \in [Session -> {"idle", "lock", "locked", "answer"}]
    /\ ref \in [Session -> Ref]
    /\ seen \in [Session -> Int]
    /\ answer \in [Session -> Outcomes]
    /\ applied \in [Ref -> Nat]

WalletInit ==
    /\ balance = [w \in Wallet |-> 0]
    /\ rows = [r \in Ref |-> 0]
    /\ rowLock = [w \in Wallet |-> NoOne]
    /\ pc = [s \in Session |-> "idle"]
    /\ ref = [s \in Session |-> CHOOSE r \in Ref : TRUE]
    /\ seen = [s \in Session |-> 0]
    /\ answer = [s \in Session |-> "none"]
    /\ applied = [r \in Ref |-> 0]
-----------------------------------------------------------------------------
WalletUsed(s) == WalletOf[ref[s]]

\* A caller asks for reference r: a worker crediting a payment, a responder
\* being billed, the onboarding listener granting.
Begin(s, r) ==
    /\ pc[s] = "idle"
    /\ pc' = [pc EXCEPT ![s] = "lock"]
    /\ ref' = [ref EXCEPT ![s] = r]
    /\ UNCHANGED <<balance, rows, rowLock, seen, answer, applied>>

\* Mutant: a plain SELECT, without FOR UPDATE.
LockWalletNoWait(s) ==
    /\ pc[s] = "lock"
    /\ rowLock' = [rowLock EXCEPT ![WalletUsed(s)] = s]
    /\ seen' = [seen EXCEPT ![s] = balance[WalletUsed(s)]]
    /\ pc' = [pc EXCEPT ![s] = "locked"]
    /\ UNCHANGED <<balance, rows, ref, answer, applied>>

\* SELECT ... FOR UPDATE waits while another transaction holds the wallet row
\* and reads the balance it then protects.
LockWallet(s) ==
    /\ pc[s] = "lock"
    /\ rowLock[WalletUsed(s)] = NoOne
    /\ rowLock' = [rowLock EXCEPT ![WalletUsed(s)] = s]
    /\ seen' = [seen EXCEPT ![s] = balance[WalletUsed(s)]]
    /\ pc' = [pc EXCEPT ![s] = "locked"]
    /\ UNCHANGED <<balance, rows, ref, answer, applied>>

\* The transaction ends, releasing the row, with outcome o for the caller.
Finish(s, o) ==
    /\ rowLock' = [rowLock EXCEPT ![WalletUsed(s)] = NoOne]
    /\ answer' = [answer EXCEPT ![s] = o]
    /\ pc' = [pc EXCEPT ![s] = "answer"]
    /\ seen' = [seen EXCEPT ![s] = 0]
    /\ UNCHANGED <<ref, applied>>

\* Only a debit can be short; a credit or a grant adds.
Short(s) == Amount[ref[s]] < 0 /\ seen[s] < -Amount[ref[s]]

\* debitAtomically refuses from the balance it read under the lock.
RefuseShort(s) ==
    /\ pc[s] = "locked"
    /\ Short(s)
    /\ Finish(s, "insufficient")
    /\ UNCHANGED <<balance, rows>>

\* The ledger insert violates the unique providerReference: nothing commits.
RejectDuplicate(s) ==
    /\ pc[s] = "locked"
    /\ ~Short(s)
    /\ rows[ref[s]] > 0
    /\ Finish(s, "duplicate")
    /\ UNCHANGED <<balance, rows>>

\* Mutant: providerReference without its unique index.
CommitRowUnchecked(s) ==
    /\ pc[s] = "locked"
    /\ ~Short(s)
    /\ rows' = [rows EXCEPT ![ref[s]] = @ + 1]
    /\ balance' = [balance EXCEPT ![WalletUsed(s)] = @ + Amount[ref[s]]]
    /\ Finish(s, "applied")

\* Ledger row first, then the increment or decrement, then COMMIT.
CommitRow(s) ==
    /\ pc[s] = "locked"
    /\ ~Short(s)
    /\ rows[ref[s]] = 0
    /\ rows' = [rows EXCEPT ![ref[s]] = @ + 1]
    /\ balance' = [balance EXCEPT ![WalletUsed(s)] = @ + Amount[ref[s]]]
    /\ Finish(s, "applied")

\* The caller gets the outcome; only 'applied' makes it publish and notify.
Answer(s) ==
    /\ pc[s] = "answer"
    /\ applied' = IF answer[s] = "applied"
                  THEN [applied EXCEPT ![ref[s]] = @ + 1]
                  ELSE applied
    /\ pc' = [pc EXCEPT ![s] = "idle"]
    /\ answer' = [answer EXCEPT ![s] = "none"]
    /\ UNCHANGED <<balance, rows, rowLock, ref, seen>>

\* The pod dies or the statement fails: an open transaction is rolled back, a
\* committed one stays but its outcome is never returned.
Abort(s) ==
    /\ pc[s] # "idle"
    /\ rowLock' = [w \in Wallet |-> IF rowLock[w] = s THEN NoOne ELSE rowLock[w]]
    /\ pc' = [pc EXCEPT ![s] = "idle"]
    /\ seen' = [seen EXCEPT ![s] = 0]
    /\ answer' = [answer EXCEPT ![s] = "none"]
    /\ UNCHANGED <<balance, rows, ref, applied>>

Step(s) ==
    \/ LockWallet(s)
    \/ RefuseShort(s)
    \/ RejectDuplicate(s)
    \/ CommitRow(s)
    \/ Answer(s)

WalletNext ==
    \E s \in Session :
        \/ \E r \in Ref : Begin(s, r)
        \/ Step(s)
        \/ Abort(s)

WalletSpec == WalletInit /\ [][WalletNext]_walletVars

\* A session in flight keeps running; waiting for the row lock is fair because
\* Postgres grants row locks to waiters in turn.
WalletFairSpec ==
    /\ WalletSpec
    /\ \A s \in Session : WF_walletVars(Step(s)) /\ SF_walletVars(LockWallet(s))
-----------------------------------------------------------------------------
\* No interleaving of debits takes a wallet below zero (schema.prisma:
\* balance_credits is "Never negative"; the check is inside the row lock).
BalanceNeverNegative == \A w \in Wallet : balance[w] >= 0

LedgerTotal(w) ==
    MapThenSumSet(LAMBDA r : rows[r] * Amount[r], {r \in Ref : WalletOf[r] = w})

\* However sessions interleave and crash, the materialised balance is the sum
\* of the wallet's ledger rows.
BalanceIsLedgerTotal == \A w \in Wallet : balance[w] = LedgerTotal(w)

\* However often a reference is attempted, 'credited' or 'debited' is returned
\* for it at most once, and only with its row in the ledger: that outcome is
\* what makes the callers publish the event and notify the user.
AppliedReturnedOnce ==
    /\ \A r \in Ref : applied[r] <= rows[r]
    /\ \A s \in Session : answer[s] = "applied" =>
           /\ rows[ref[s]] = 1
           /\ applied[ref[s]] = 0

\* debitAtomically's refusal is "the balance the refusal was actually based
\* on": the wallet is short at the very moment it says so.
RefusalIsCurrent ==
    [][\A s \in Session :
          (answer[s] = "none" /\ answer'[s] = "insufficient")
             => balance[WalletUsed(s)] + Amount[ref[s]] < 0]_walletVars

\* No call waits on the row lock for ever.
CallReturns == \A s \in Session : pc[s] = "lock" ~> pc[s] = "idle"

Promise == INSTANCE CreditLedger WITH posted <- {r \in Ref : rows[r] > 0}

\* The repository implements what its port promises: each reference at most
\* once, and never below zero.
ImplementsLedger == Promise!LedgerSpec
=============================================================================
