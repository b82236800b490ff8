----------------------- MODULE MCLedgerReconciliation -----------------------
(***************************************************************************)
(* A small instance of LedgerReconciliation: a posting that the            *)
(* write-ahead protocol left 'pending' in every way, and a live one in     *)
(* another currency, of which the one that comes first seeds the chart.    *)
(***************************************************************************)
EXTENDS LedgerReconciliation

MCLeg(code, direction) ==
    [account_code |-> code, direction |-> direction, amount_minor |-> 1]

MCAccounts == {"1010", "4000"}

MCPayload ==
    [pay |-> [currency |-> "BDT",
              entries |-> <<MCLeg("1010", "debit"), MCLeg("4000", "credit")>>],
     usd |-> [currency |-> "USD",
              entries |-> <<MCLeg("1010", "debit"), MCLeg("4000", "credit")>>]]
=============================================================================
