------------------------ MODULE MCPaymentSettlement ------------------------
(***************************************************************************)
(* Small instances of PaymentSettlement: one or two orders, the SMS of the *)
(* order, one of another amount, currency, carrier and store, and one of a *)
(* sender that is no carrier's and whose currency cannot be read.          *)
(***************************************************************************)
EXTENDS PaymentSettlement, TLC

MCAmount      == [i \in Intents |-> 1]
MCSmsAmount   == [x \in TrxIds |-> IF x = "other" THEN 2 ELSE 1]
MCCurrency    == [i \in Intents |-> "BDT"]
MCSmsCurrency == [x \in TrxIds |-> CASE x = "other" -> "USD" [] x = "spoof" -> NoCurrency [] OTHER -> "BDT"]
MCStore       == [i \in Intents |-> "s1"]
MCSmsStore    == [x \in TrxIds |-> IF x = "other" THEN "s2" ELSE "s1"]
MCGateway     == [i \in Intents |-> "bkash"]
MCSender      == [x \in TrxIds |-> IF x = "other" THEN "nagad" ELSE "bkash"]

\* Workers are interchangeable.
WorkerSymmetry == Permutations(Workers)
=============================================================================
