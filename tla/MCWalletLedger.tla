--------------------------- MODULE MCWalletLedger ---------------------------
(***************************************************************************)
(* A funded wallet billed by two leads it can afford only one at a time,   *)
(* and a second wallet with an onboarding grant.                           *)
(***************************************************************************)
EXTENDS WalletLedger

MCRef == {"payment", "lead1", "lead2", "grant"}

MCWalletOf == [r \in MCRef |-> IF r = "grant" THEN "w2" ELSE "w1"]

MCAmount == [r \in MCRef |->
    CASE r = "payment" -> 3
      [] r = "grant" -> 1
      [] OTHER -> -2]
=============================================================================
