------------------------------ MODULE LedgerDO ------------------------------
(***************************************************************************)
(* The per-merchant ledger Durable Object (do/ledger-do.ts) and the D1     *)
(* audit mirror it feeds (services/ledger-audit.ts).                       *)
(*                                                                         *)
(* postTransaction is the single writer of a merchant's book.  It commits  *)
(* the journal, the balances and a 'pending' outbox event in one storage   *)
(* transaction; the alarm and drainOutbox copy pending events to D1 later. *)
(*                                                                         *)
(* What interleaves.  postTransaction runs under blockConcurrencyWhile and *)
(* storage calls close the input gate, so the only points at which another *)
(* event of the object can run are the awaits on env.DB.batch: a drain is  *)
(* a step that sends the batch and a later step that hears of it, with     *)
(* postings, other drains and a restart in between.                        *)
(*                                                                         *)
(* What is abstracted.                                                     *)
(*  - Clock times.  An outbox row either is or is not before its           *)
(*    next_retry_at (backoff); the alarm is "soon" (at most the 60 s of    *)
(*    the largest backoff away, or overdue) or "far" (the daily snapshot). *)
(*  - Texts: descriptions, timestamps, error messages, retry counts.       *)
(*  - The tx_id determines the payload, as it does for every caller        *)
(*    (m{merchant}:{kind}:{reference}).                                    *)
(*  - The merchant id is known: every caller's payload carries it.         *)
(*  - The test-only fault injection surface (the faults are modelled), and *)
(*    a chart that a throw has left seeded in part.                        *)
(***************************************************************************)
EXTENDS Integers, Sequences, FiniteSets, FiniteSetsExt

CONSTANTS
    TxIds,           \* ids of the transactions callers may post
    Payload,         \* Payload[t]: the posting of t, a currency and entries
    Accounts,        \* codes of the default chart of accounts
    DebitNormal,     \* the asset and expense accounts among them
    Currencies,
    NoCurrency,      \* the chart has not been seeded yet
    OutboxModes,     \* values LEDGER_OUTBOX_ENABLED takes over deployments
    LegacyTx,        \* transactions the write-ahead protocol may have left
    RpcDrainers,     \* concurrent callers of the drainOutbox RPC
    MaxAmount,       \* MAX_AMOUNT_MINOR
    BatchPostings,   \* OUTBOX_BATCH_POSTINGS
    MaxStatements,   \* OUTBOX_MAX_STATEMENTS
    MaxLate          \* bound: batches given up on and still on their way

ASSUME FiniteAssumption == IsFiniteSet(TxIds)
ASSUME ChartAssumption == DebitNormal \subseteq Accounts
ASSUME ModesAssumption == OutboxModes \subseteq BOOLEAN
ASSUME LegacyAssumption == LegacyTx \subseteq TxIds
ASSUME PayloadAssumption ==
    /\ NoCurrency \notin Currencies
    /\ \A t \in TxIds :
          /\ Payload[t].currency \in Currencies
          /\ Payload[t].entries \in Seq([account_code : STRING,
                                        direction : {"debit", "credit"},
                                        amount_minor : Int])
ASSUME DrainerAssumption == "alarm" \notin RpcDrainers

Drainers == RpcDrainers \cup {"alarm"}

VARIABLES
    chart_currency,  \* DO: currency the accounts were seeded with
    balance_minor,   \* DO: accounts.balance_minor
    posted,          \* DO: posted_transactions, with their journal entries
    outbox,          \* DO: status of the outbox event of a transaction
    outbox_id,       \* DO: its autoincrement id
    backoff,         \* DO: events whose next_retry_at is in the future
    alarm,           \* DO: the stored alarm
    alarm_pc,        \* DO memory: how far the running alarm handler is
    batch,           \* DO memory: the D1 batch each drainer awaits
    late,            \* batches given up on that D1 may yet apply
    mirror,          \* D1: transactions in op_ledger_transactions/_entries
    registry         \* D1: op_ledger_postings.status

bookVars   == <<chart_currency, balance_minor, posted>>
outboxVars == <<outbox, outbox_id, backoff>>
alarmVars  == <<alarm, alarm_pc>>
d1Vars     == <<mirror, registry>>
vars == <<bookVars, outboxVars, alarmVars, batch, late, d1Vars>>

Idle == [state |-> "idle", rows |-> {}]

-----------------------------------------------------------------------------
(***************************************************************************)
(* What a posting is, and what postInner says of it.                       *)
(***************************************************************************)
Entries(t) == Payload[t].entries

\* isDebitNormal and the sign rule of checkBalances.
SignedAmount(e) ==
    IF (e.direction = "debit") <=> (e.account_code \in DebitNormal)
    THEN e.amount_minor ELSE -e.amount_minor

\* The deltas map of checkBalances: what t adds to each account.
Deltas == [t \in TxIds |-> [a \in Accounts |->
    MapThenSumSet(LAMBDA i : SignedAmount(Entries(t)[i]),
                  {i \in DOMAIN Entries(t) : Entries(t)[i].account_code = a})]]

Delta(t, a) == Deltas[t][a]

Total(t, direction) ==
    MapThenSumSet(LAMBDA i : Entries(t)[i].amount_minor,
                  {i \in DOMAIN Entries(t) : Entries(t)[i].direction = direction})

validatePostingShape ==
    [t \in TxIds |->
        IF \/ Len(Entries(t)) < 2
           \/ \E i \in DOMAIN Entries(t) :
                  Entries(t)[i].amount_minor \notin 1..MaxAmount
        THEN "INVALID"
        ELSE IF Total(t, "debit") # Total(t, "credit") THEN "UNBALANCED" ELSE "ok"]

UnknownAccount(t) ==
    \E i \in DOMAIN Entries(t) : Entries(t)[i].account_code \notin Accounts

Overdraws(t) == \E a \in Accounts : balance_minor[a] + Delta(t, a) < 0

\* Mutant of BalanceVerdict: the balance guard is switched off, as in v0.2.0.
UnguardedVerdict(t, currency) ==
    IF Payload[t].currency # currency THEN "CURRENCY_MISMATCH"
    ELSE IF UnknownAccount(t) THEN "UNKNOWN_ACCOUNT" ELSE "posted"

\* checkBalances.  Every account of the chart has the currency of the seed, so
\* the first entry decides between the first two codes.
BalanceVerdict(t, currency) ==
    IF Payload[t].currency # currency /\ Entries(t)[1].account_code \in Accounts
    THEN "CURRENCY_MISMATCH"
    ELSE IF UnknownAccount(t) THEN "UNKNOWN_ACCOUNT"
    ELSE IF Overdraws(t) THEN "INSUFFICIENT_FUNDS"
    ELSE "posted"

\* Mutant of SeededCurrency: INSERT OR REPLACE instead of INSERT OR IGNORE.
ReseededCurrency(t) == Payload[t].currency

\* The currency of the chart once seedChart has run (INSERT OR IGNORE).
SeededCurrency(t) ==
    IF chart_currency = NoCurrency THEN Payload[t].currency ELSE chart_currency

\* Mutant of Verdict: no dedup by tx_id.
VerdictWithoutDedup(t) ==
    IF validatePostingShape[t] # "ok" THEN validatePostingShape[t]
    ELSE BalanceVerdict(t, SeededCurrency(t))

\* Mutant of Verdict: dedup by the D1 registry instead of the object's table.
VerdictByRegistry(t) ==
    IF validatePostingShape[t] # "ok" THEN validatePostingShape[t]
    ELSE IF registry[t] # "none" THEN "duplicate"
    ELSE BalanceVerdict(t, SeededCurrency(t))

\* What postInner answers if nothing throws, before it writes anything but the
\* chart.
Verdict(t) ==
    IF validatePostingShape[t] # "ok" THEN validatePostingShape[t]
    ELSE IF t \in posted THEN "duplicate"
    ELSE BalanceVerdict(t, SeededCurrency(t))

-----------------------------------------------------------------------------
(***************************************************************************)
(* D1.  A batch is atomic and every statement of it is idempotent: headers *)
(* and entries are inserted once, the registry row is set to 'posted'.     *)
(***************************************************************************)
buildLedgerAuditStatements(S) ==
    /\ mirror' = mirror \cup S
    /\ registry' = [t \in TxIds |-> IF t \in S THEN "posted" ELSE registry[t]]

\* A batch whose caller got an error never ran, or is still on its way.
GiveUpOn(S) ==
    \/ UNCHANGED late
    \/ Cardinality(late) < MaxLate /\ late' = late \cup {S}

\* D1 runs a batch that its sender has given up on.
LateApply(S) ==
    /\ S \in late
    /\ late' = late \ {S}
    /\ buildLedgerAuditStatements(S)
    /\ UNCHANGED <<bookVars, outboxVars, alarmVars, batch>>

-----------------------------------------------------------------------------
(***************************************************************************)
(* postTransaction(t), answering r.                                        *)
(***************************************************************************)
\* The transactionSync of postInner: journal, balances and outbox event.
Commit(t, status) ==
    /\ posted' = posted \cup {t}
    /\ balance_minor' = [a \in Accounts |-> balance_minor[a] + Delta(t, a)]
    /\ outbox' = [outbox EXCEPT ![t] = status]
    /\ outbox_id' = [outbox_id EXCEPT ![t] = Cardinality(posted) + 1]
    /\ UNCHANGED backoff

\* The guarded nudge: a far alarm comes nearer, a near one stays.
kickOutboxAlarm == alarm' = "soon"

\* postInner throws before it has written anything but the chart (a storage
\* error; tests inject one before the commit): the answer is INTERNAL, whether
\* or not the book has the transaction already.
PostFails(t, r) ==
    /\ r = "INTERNAL"
    /\ chart_currency' \in {chart_currency, SeededCurrency(t)}
    /\ UNCHANGED <<balance_minor, posted, outboxVars, alarm, late, d1Vars>>

\* A duplicate or a failure; seedChart has run all the same.
PostRefused(t, r) ==
    /\ r = Verdict(t)
    /\ r # "posted"
    /\ chart_currency' = SeededCurrency(t)
    /\ UNCHANGED <<balance_minor, posted, outboxVars, alarm, late, d1Vars>>

\* If the nudge throws, the commit stands and the caller gets INTERNAL.
PostWithOutbox(t, r) ==
    /\ TRUE \in OutboxModes
    /\ Verdict(t) = "posted"
    /\ chart_currency' = SeededCurrency(t)
    /\ Commit(t, "pending")
    /\ \/ r = "posted" /\ kickOutboxAlarm
       \/ r = "INTERNAL" /\ UNCHANGED alarm
    /\ UNCHANGED <<late, d1Vars>>

\* Mutant of PostSynchronously: the audit trail first, then a commit that fails.
AuditBeforeCommit(t, r) ==
    /\ FALSE \in OutboxModes
    /\ Verdict(t) = "posted"
    /\ chart_currency' = SeededCurrency(t)
    /\ buildLedgerAuditStatements({t})
    /\ \/ r = "posted" /\ Commit(t, "synced")
       \/ r = "INTERNAL" /\ UNCHANGED <<balance_minor, posted, outboxVars>>
    /\ UNCHANGED <<alarm, late>>

\* LEDGER_OUTBOX_ENABLED = 'false': the audit trail is written before the
\* answer.  If that fails the commit stands and the caller gets INTERNAL.
PostSynchronously(t, r) ==
    /\ FALSE \in OutboxModes
    /\ Verdict(t) = "posted"
    /\ chart_currency' = SeededCurrency(t)
    /\ \/ /\ r = "posted"
          /\ Commit(t, "synced")
          /\ buildLedgerAuditStatements({t})
          /\ UNCHANGED late
       \/ /\ r = "INTERNAL"
          /\ Commit(t, "pending")
          /\ \/ buildLedgerAuditStatements({t}) /\ UNCHANGED late
             \/ GiveUpOn({t}) /\ UNCHANGED d1Vars
    /\ UNCHANGED alarm

postTransaction(t, r) ==
    /\ PostFails(t, r) \/ PostRefused(t, r)
       \/ PostWithOutbox(t, r) \/ PostSynchronously(t, r)
    /\ UNCHANGED <<alarm_pc, batch>>

Results == {"posted", "duplicate", "INVALID", "UNBALANCED", "UNKNOWN_ACCOUNT",
            "CURRENCY_MISMATCH", "INSUFFICIENT_FUNDS", "INTERNAL"}

-----------------------------------------------------------------------------
(***************************************************************************)
(* Restart of the isolate.  Memory is lost; a batch in flight may still    *)
(* reach D1; the platform delivers the alarm of an interrupted handler     *)
(* again; the constructor arms the daily alarm if there is none.           *)
(***************************************************************************)
\* Mutant of LoseMemory: no constructor and no redelivery arm the alarm again.
LoseAlarm ==
    /\ batch' = [d \in Drainers |-> Idle]
    /\ alarm_pc' = "idle"
    /\ UNCHANGED <<late, alarm>>

LoseMemory ==
    /\ batch' = [d \in Drainers |-> Idle]
    /\ \/ UNCHANGED late
       \/ \E d \in Drainers : batch[d].state = "sent" /\ GiveUpOn(batch[d].rows)
    /\ alarm' = IF alarm_pc # "idle" THEN "soon"
                ELSE IF alarm = "none" THEN "far" ELSE alarm
    /\ alarm_pc' = "idle"

Restart ==
    /\ LoseMemory
    /\ UNCHANGED <<bookVars, outboxVars, d1Vars>>

\* Mutant of PostThenRestart: the journal is committed apart from the balances.
HalfCommitThenRestart(t) ==
    /\ Verdict(t) = "posted"
    /\ chart_currency' = SeededCurrency(t)
    /\ posted' = posted \cup {t}
    /\ outbox' = [outbox EXCEPT ![t] = "pending"]
    /\ LoseMemory
    /\ UNCHANGED <<balance_minor, outbox_id, backoff, d1Vars>>

\* The isolate dies after the commit and before kickOutboxAlarm.
PostThenRestart(t) ==
    /\ Verdict(t) = "posted"
    /\ chart_currency' = SeededCurrency(t)
    /\ Commit(t, "pending")
    /\ LoseMemory
    /\ UNCHANGED d1Vars

-----------------------------------------------------------------------------
(***************************************************************************)
(* drainOutbox                                                             *)
(***************************************************************************)
Pending == {t \in TxIds : outbox[t] = "pending"}

Due(force) == IF force THEN Pending ELSE Pending \ backoff

\* The first BatchPostings due events in the order of their ids ...
Selected(force) ==
    {t \in Due(force) :
        Cardinality({u \in Due(force) : outbox_id[u] < outbox_id[t]}) < BatchPostings}

\* ... of which the batch takes the longest prefix that fits.
Statements(t) == 2 + Len(Entries(t))

Included(force) ==
    {t \in Selected(force) :
        MapThenSumSet(Statements, {u \in Selected(force) : outbox_id[u] <= outbox_id[t]})
            <= MaxStatements}

\* BATCH_TOO_LARGE: the first event does not fit into a batch of its own.
Oversized(force) ==
    IF Included(force) = {}
    THEN {t \in Due(force) : \A u \in Due(force) : outbox_id[t] <= outbox_id[u]}
    ELSE {}

\* Sends the batch, or returns at once.
drainOutbox(d, force) ==
    /\ batch[d].state = "idle"
    /\ backoff' = backoff \cup Oversized(force)
    /\ batch' = [batch EXCEPT ![d] =
                    IF Included(force) = {} THEN Idle
                    ELSE [state |-> "sent", rows |-> Included(force)]]
    /\ UNCHANGED <<bookVars, outbox, outbox_id, late, d1Vars>>

DrainRpc(d) ==
    /\ drainOutbox(d, TRUE)
    /\ UNCHANGED alarmVars

\* D1 runs the batch of a drainer that still waits for it.
BatchApply(d) ==
    /\ batch[d].state = "sent"
    /\ batch' = [batch EXCEPT ![d] = [state |-> "applied", rows |-> batch[d].rows]]
    /\ buildLedgerAuditStatements(batch[d].rows)
    /\ UNCHANGED <<bookVars, outboxVars, alarmVars, late>>

\* The alarm handler goes on when its drain has returned.
DrainReturns(d) ==
    /\ batch' = [batch EXCEPT ![d] = Idle]
    /\ alarm_pc' = IF d = "alarm" THEN "drained" ELSE alarm_pc
    /\ UNCHANGED alarm

\* Mutant of DrainOk: marks what is pending now, not what the batch held.
DrainOkMarksAll(d) ==
    /\ batch[d].state = "applied"
    /\ outbox' = [t \in TxIds |-> IF t \in Pending THEN "synced" ELSE outbox[t]]
    /\ backoff' = {}
    /\ DrainReturns(d)
    /\ UNCHANGED <<bookVars, outbox_id, late, d1Vars>>

DrainOk(d) ==
    /\ batch[d].state = "applied"
    /\ outbox' = [t \in TxIds |-> IF t \in batch[d].rows /\ outbox[t] # "none"
                                  THEN "synced" ELSE outbox[t]]
    /\ backoff' = backoff \ batch[d].rows
    /\ DrainReturns(d)
    /\ UNCHANGED <<bookVars, outbox_id, late, d1Vars>>

\* markOutboxRetry; an event another drain has synced stays synced.
DrainFail(d) ==
    /\ batch[d].state # "idle"
    /\ backoff' = backoff \cup (batch[d].rows \cap Pending)
    /\ IF batch[d].state = "sent" THEN GiveUpOn(batch[d].rows) ELSE UNCHANGED late
    /\ DrainReturns(d)
    /\ UNCHANGED <<bookVars, outbox, outbox_id, d1Vars>>

-----------------------------------------------------------------------------
(***************************************************************************)
(* alarm()                                                                 *)
(***************************************************************************)
AlarmFires ==
    /\ alarm # "none"
    /\ alarm_pc = "idle"
    /\ alarm' = "none"
    /\ drainOutbox("alarm", FALSE)
    /\ alarm_pc' = IF Included(FALSE) = {} THEN "drained" ELSE "draining"

Nearer(x, y) == IF "soon" \in {x, y} THEN "soon" ELSE "far"

\* Mutant of scheduleNextAlarm: reschedules only when work is pending.
ScheduleOnlyRetries(events, snapshotFailed) ==
    alarm' = IF \E t \in TxIds : events[t] = "pending" THEN "soon" ELSE alarm

\* scheduleNextAlarm: the next retry, else the next snapshot, which is overdue
\* when the last one failed; an earlier alarm is kept.
scheduleNextAlarm(events, snapshotFailed) ==
    LET target == IF snapshotFailed \/ \E t \in TxIds : events[t] = "pending"
                  THEN "soon" ELSE "far"
    IN  alarm' = IF alarm = "none" THEN target ELSE Nearer(alarm, target)

Synced == {t \in TxIds : outbox[t] = "synced"}

\* maybeCleanupOutbox: deletes the synced events past their retention.
Cleanup(old) ==
    outbox' = [t \in TxIds |-> IF t \in old THEN "none" ELSE outbox[t]]

\* The rest of the handler: snapshot if due, retention, next alarm.
AlarmFinishes(old, snapshotFailed) ==
    /\ alarm_pc = "drained"
    /\ alarm_pc' = "idle"
    /\ Cleanup(old)
    /\ scheduleNextAlarm(outbox', snapshotFailed)
    /\ UNCHANGED <<bookVars, outbox_id, backoff, batch, late, d1Vars>>

AlarmEnds == \E old \in SUBSET Synced, failed \in BOOLEAN : AlarmFinishes(old, failed)

-----------------------------------------------------------------------------
(***************************************************************************)
(* Time                                                                    *)
(***************************************************************************)
BackoffEnds(t) ==
    /\ t \in backoff
    /\ backoff' = backoff \ {t}
    /\ UNCHANGED <<bookVars, outbox, outbox_id, alarmVars, batch, late, d1Vars>>

-----------------------------------------------------------------------------
BookBalance(S, a) == MapThenSumSet(LAMBDA t : Delta(t, a), S)

\* The object starts empty, or with what the write-ahead protocol left: a
\* 'pending' registry row whose posting the object has or has not committed.
Init ==
    /\ posted \in SUBSET LegacyTx
    /\ \E waiting \in SUBSET LegacyTx :
           /\ posted \subseteq waiting
           /\ registry = [t \in TxIds |-> IF t \in waiting THEN "pending" ELSE "none"]
    /\ \A t \in posted : validatePostingShape[t] = "ok"
    /\ chart_currency \in Currencies \cup {NoCurrency}
    /\ posted = {} <=> chart_currency = NoCurrency
    /\ \A t \in posted : Payload[t].currency = chart_currency
    /\ balance_minor = [a \in Accounts |-> BookBalance(posted, a)]
    /\ \A a \in Accounts : balance_minor[a] \in Nat
    /\ outbox = [t \in TxIds |-> "none"]
    /\ outbox_id = [t \in TxIds |-> 0]
    /\ backoff = {}
    /\ alarm = "far"
    /\ alarm_pc = "idle"
    /\ batch = [d \in Drainers |-> Idle]
    /\ late = {}
    /\ mirror = {}

Post == \E t \in TxIds, r \in Results : postTransaction(t, r)

Next ==
    \/ Post
    \/ \E t \in TxIds : PostThenRestart(t)
    \/ Restart
    \/ \E S \in late : LateApply(S)
    \/ \E d \in RpcDrainers : DrainRpc(d)
    \/ \E d \in Drainers : BatchApply(d) \/ DrainOk(d) \/ DrainFail(d)
    \/ AlarmFires
    \/ AlarmEnds
    \/ \E t \in TxIds : BackoffEnds(t)

Spec == Init /\ [][Next]_vars

-----------------------------------------------------------------------------
(***************************************************************************)
(* Properties                                                              *)
(***************************************************************************)
\* Every variable keeps its type.
TypeOK ==
    /\ chart_currency \in Currencies \cup {NoCurrency}
    /\ balance_minor \in [Accounts -> Int]
    /\ posted \subseteq TxIds
    /\ outbox \in [TxIds -> {"none", "pending", "synced"}]
    /\ outbox_id \in [TxIds -> Nat]
    /\ backoff \subseteq TxIds
    /\ alarm \in {"none", "soon", "far"}
    /\ alarm_pc \in {"idle", "draining", "drained"}
    /\ batch \in [Drainers -> [state : {"idle", "sent", "applied"}, rows : SUBSET TxIds]]
    /\ late \subseteq SUBSET TxIds
    /\ mirror \subseteq TxIds
    /\ registry \in [TxIds -> {"none", "pending", "posted", "rejected"}]

\* No account goes below zero on its normal side, whatever is posted and in
\* whatever order (the balance guard, step C of postInner).
NoOverdraft == \A a \in Accounts : balance_minor[a] >= 0

\* trialBalance() always answers "balanced": debits equal credits over the
\* journal, and each stored balance is the one its journal entries give.
TrialBalance ==
    /\ MapThenSumSet(LAMBDA t : Total(t, "debit"), posted)
         = MapThenSumSet(LAMBDA t : Total(t, "credit"), posted)
    /\ \A a \in Accounts : balance_minor[a] = BookBalance(posted, a)

\* A book holds one currency: the one its chart was seeded with.
OneCurrencyBook == \A t \in posted : Payload[t].currency = chart_currency

\* No committed posting is lost on its way to D1: until it is in the mirror its
\* outbox event is pending (or, for a posting the write-ahead protocol left,
\* its registry row is), through overlapping drains, lost answers, restarts
\* and the retention sweep.
NoPostingLost ==
    \A t \in posted \ mirror :
        outbox[t] = "pending" \/ (t \in LegacyTx /\ registry[t] = "pending")

\* The audit mirror never shows a transaction the book does not hold, not even
\* when D1 applies a batch after its sender has given up on it.
MirrorNeverAhead ==
    /\ mirror \subseteq posted
    /\ \A t \in TxIds : registry[t] = "posted" => t \in mirror

\* A pending event always has a wake-up: an alarm is stored, or the alarm
\* handler is running and will store one.
PendingHasWakeup == Pending # {} => alarm # "none" \/ alarm_pc # "idle"

\* The strengthening that makes the above inductive: only committed postings
\* have events or travel in batches, what D1 has answered or a drain has marked
\* is in the mirror, and a book with postings has a seeded chart.
TransitInv ==
    /\ \A t \in TxIds : outbox[t] # "none" => t \in posted
    /\ \A t \in TxIds : outbox[t] = "synced" => t \in mirror
    /\ \A d \in Drainers :
          /\ batch[d].rows \subseteq posted
          /\ batch[d].state = "applied" => batch[d].rows \subseteq mirror
    /\ \A S \in late : S \subseteq posted
    /\ posted # {} => chart_currency # NoCurrency

\* What the object promises its callers, whatever happens to the mirror.
Book == INSTANCE AccountBook WITH
            book <- posted, balance <- balance_minor, audit <- mirror
ImplementsBook == Book!Spec
=============================================================================
