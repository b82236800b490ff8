---------------------------- MODULE AccountBook ----------------------------
(***************************************************************************)
(* What the ledger promises, without its machinery: a set of transactions, *)
(* each entered once and as a whole; balances that never go below zero and *)
(* change by entering a transaction and in no other way; and an audit copy *)
(* that grows towards the book and never shows what the book lacks.        *)
(***************************************************************************)
EXTENDS Integers

CONSTANTS TxIds, Accounts, Delta(_, _)

VARIABLES book, balance, audit

Init ==
    /\ book \subseteq TxIds
    /\ balance \in [Accounts -> Nat]
    /\ audit = {}

Enter(t) ==
    /\ t \notin book
    /\ \A a \in Accounts : balance[a] + Delta(t, a) >= 0
    /\ book' = book \cup {t}
    /\ balance' = [a \in Accounts |-> balance[a] + Delta(t, a)]

Copy ==
    /\ audit \subseteq audit'
    /\ audit' \subseteq book'

\* A transaction may be entered and copied in one step (the synchronous mode).
Next ==
    /\ UNCHANGED <<book, balance>> \/ \E t \in TxIds : Enter(t)
    /\ Copy

Spec == Init /\ [][Next]_<<book, balance, audit>>
=============================================================================
