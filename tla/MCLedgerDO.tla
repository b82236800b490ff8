----------------------------- MODULE MCLedgerDO -----------------------------
(***************************************************************************)
(* Small instances of LedgerDO: three accounts of the chart, payments,     *)
(* a payment with a fee, a refund that needs an earlier payment, and       *)
(* postings that must be refused.                                          *)
(***************************************************************************)
EXTENDS LedgerDO

Leg(code, direction, amount) ==
    [account_code |-> code, direction |-> direction, amount_minor |-> amount]

\* postPaymentLedgerEntry, without and with a fee, and postRefundLedgerEntry.
Payment(currency, amount) ==
    [currency |-> currency,
     entries |-> <<Leg("1010", "debit", amount), Leg("4000", "credit", amount)>>]

PaymentWithFee(currency, amount, fee) ==
    [currency |-> currency,
     entries |-> <<Leg("1010", "debit", amount), Leg("4000", "credit", amount),
                   Leg("5000", "debit", fee), Leg("1010", "credit", fee)>>]

Refund(currency, amount) ==
    [currency |-> currency,
     entries |-> <<Leg("4000", "debit", amount), Leg("1010", "credit", amount)>>]

MCAccounts == {"1010", "4000", "5000"}
MCDebitNormal == {"1010", "5000"}

\* A payment with a fee, a refund that the fee leaves it one short of (another
\* posting must come first), and what is refused or does not fit a batch.
MCPayload ==
    [pay |-> PaymentWithFee("BDT", 5, 1),
     refund |-> Refund("BDT", 5),
     usd |-> Payment("USD", 3),
     huge |-> Payment("BDT", 10),
     single |-> [currency |-> "BDT", entries |-> <<Leg("1010", "debit", 1)>>],
     uneven |-> [currency |-> "BDT",
                 entries |-> <<Leg("1010", "debit", 2), Leg("4000", "credit", 1)>>],
     stray |-> [currency |-> "BDT",
                entries |-> <<Leg("9999", "debit", 1), Leg("4000", "credit", 1)>>],
     wide |-> [currency |-> "BDT",
               entries |-> [i \in 1..9 |-> IF i <= 4 THEN Leg("1010", "debit", 2)
                                           ELSE IF i <= 7 THEN Leg("4000", "credit", 2)
                                           ELSE Leg("4000", "credit", 1)]]]
=============================================================================
