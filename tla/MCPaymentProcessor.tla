------------------------- MODULE MCPaymentProcessor -------------------------
(***************************************************************************)
(* One payment that credits and one that cannot (below a credit), two      *)
(* workers, a cap of two attempts.                                         *)
(***************************************************************************)
EXTENDS PaymentProcessor

MCWalletOf == [p \in Payment |-> "w"]
MCKobo == [p \in Payment |-> IF p = "small" THEN 99 ELSE 250]
=============================================================================
