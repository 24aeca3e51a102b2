---------------------------- MODULE CreditLedger ----------------------------
(***************************************************************************)
(* What the credit wallet promises its callers, with nothing said of how   *)
(* (src/src/domain/ports/outbound/wallet-repository.port.ts): every ledger *)
(* reference moves its wallet's balance at most once, by its own amount,   *)
(* and no move takes a balance below zero.                                 *)
(***************************************************************************)
EXTENDS Integers, FiniteSets, FiniteSetsExt

CONSTANTS Wallet,    \* credit wallets, one per user
          Ref,       \* ledger references: a payment, a billed lead, a grant
          WalletOf,  \* [Ref -> Wallet]: whose balance a reference moves
          Amount     \* [Ref -> Int]: credits, negative for a debit

VARIABLES balance,   \* CreditWallet.balanceCredits, the materialised total
          posted     \* references that have a row in credit_transactions

ledgerVars == <<balance, posted>>

LedgerInit ==
    /\ balance = [w \in Wallet |-> 0]
    /\ posted = {}

\* One committed ledger transaction for reference r.
Post(r) ==
    /\ r \notin posted
    /\ balance[WalletOf[r]] + Amount[r] >= 0
    /\ posted' = posted \cup {r}
    /\ balance' = [balance EXCEPT ![WalletOf[r]] = @ + Amount[r]]

LedgerNext == \E r \in Ref : Post(r)

LedgerSpec == LedgerInit /\ [][LedgerNext]_ledgerVars

LedgerTotal(w) ==
    MapThenSumSet(LAMBDA r : Amount[r], {r \in posted : WalletOf[r] = w})

\* The materialised balance of every wallet is the sum of its ledger rows
\* (schema.prisma: the ledger is the "source of truth for a balance statement").
BalanceIsLedgerTotal == \A w \in Wallet : balance[w] = LedgerTotal(w)

=============================================================================
