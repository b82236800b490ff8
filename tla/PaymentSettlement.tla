------------------------- MODULE PaymentSettlement -------------------------
(***************************************************************************)
(* How a payment intent is settled (services/payment.ts).  Four roads lead *)
(* to completeTransaction: the gateway's redirect (handleCallback), the    *)
(* gateway's webhook (controllers/webhooks.ts), a carrier SMS              *)
(* (queues/sms-consumer.ts) and the customer's own TrxID                   *)
(* (controllers/checkout.ts).  The cron expires what nobody settles.       *)
(*                                                                         *)
(* What interleaves.  Every handler is an invocation of a Worker: a chain  *)
(* of D1 statements and remote calls with an await between any two, each   *)
(* its own step here.  No lock spans a handler, so the steps of all of     *)
(* them mix, and an invocation may end at any step by an exception or by   *)
(* the loss of its isolate.                                                *)
(*                                                                         *)
(* What is abstracted.                                                     *)
(*  - An intent and its op_transactions row share one id.                  *)
(*  - The ledger is the set of payments it holds; that a payment is posted *)
(*    once and durably is what LedgerDO shows.                             *)
(*  - A carrier SMS is known by the TrxID it reports.  Its text has one    *)
(*    amount, one currency or none, and one sender; what the parser finds  *)
(*    of it is a choice.                                                   *)
(*  - A gateway confirms only payments that were made; signatures,         *)
(*    credentials and allowlists are passed.                               *)
(*  - Clock times: an intent is or is not past expires_at (overdue) and    *)
(*    past the 30 minutes of MATCH_WINDOW_MS (aged).                       *)
(***************************************************************************)
EXTENDS Integers, Sequences, FiniteSets

CONSTANTS
    Intents,        \* payment intents of one merchant
    TrxIds,         \* carrier transaction ids
    Amount, SmsAmount,     \* the number of an intent, and of the SMS about x
    Currency, SmsCurrency, \* the currencies, or NoCurrency where none is found
    Store, SmsStore,       \* the stores of an intent and of the device, or NoStore
    Gateway, Sender,       \* the families of the gateway and of the sender id
    Trusted,        \* SMS that pass validateCarrierSender
    SignatureRequired, \* env.SIGNATURE_REQUIRED
    Announced,      \* the kinds of events the gateways send (see ReceiveWebhook)
    OpenLimit,      \* the orders loadOpenOrders loads at most
    Workers,        \* invocations that may run at the same time
    NoIntent, NoRef, OtherRef, NoCurrency, NoStore,
    MaxRetries,     \* max_retries of the sms-parse queue
    Payable,        \* bound: intents that may be paid at the gateway
    Ageing,         \* bound: intents whose time limits may pass
    MaxRows,        \* bound: rows of op_sms_data
    MaxFaults       \* bound: invocations that end early

\* What a webhook can be: a completed payment of a transaction it names, under
\* an event id ("webhook") or without one ("anonymous"); or a notice, with which
\* nothing is settled: another type of event, one from which
\* extractTransactionId gets nothing, or one of an unknown transaction.
EventKinds == {"webhook", "anonymous", "notice"}

ASSUME RefAssumption ==
    /\ NoRef \notin TrxIds /\ OtherRef \notin TrxIds /\ NoRef # OtherRef
    /\ NoIntent \notin Intents
ASSUME BoundAssumption ==
    MaxRetries \in Nat /\ MaxRows \in Nat /\ MaxFaults \in Nat /\ OpenLimit \in Nat
ASSUME AnnouncedAssumption == Announced \subseteq EventKinds

VARIABLES
    intent,     \* op_payment_intents.status
    tx,         \* op_transactions.status
    reference,  \* op_transactions.gateway_trx_id
    claimed,    \* metadata.customer_trx_id of the intent
    posted,     \* payments the ledger object holds
    notified,   \* payments a payment.completed webhook was dispatched for
    events,     \* op_webhook_events
    sms,        \* op_sms_data: the rows in the order of their ids
    queue,      \* sms-parse queue
    dlq,        \* SMS the queue gave up on
    job,        \* the invocation each worker runs
    expiring,   \* intents the cron has expired and whose rows it still has to
    overdue, aged,
    paid,       \* payments made at the gateway
    received,   \* SMS the companion device has delivered
    acked,      \* webhooks answered with success
    submitted,  \* history: the TrxIDs customers have submitted for an intent
    forgotten,  \* history: payments whose event is recorded and whose handler
                \* died before it posted them
    faults

rows     == <<intent, tx, reference, claimed>>
smsVars  == <<sms, queue, dlq>>
outcome  == <<posted, notified, events>>
cronVars == <<expiring, overdue, aged>>
world    == <<paid, received, acked>>
history  == <<submitted, forgotten>>
vars == <<rows, smsVars, outcome, cronVars, world, history, job, faults>>

Resting == [kind |-> "none", at |-> "idle", intent |-> NoIntent, ref |-> NoRef,
            row |-> 0, tries |-> 0, store |-> NoStore]

Job(kind, at, i, ref) ==
    [kind |-> kind, at |-> at, intent |-> i, ref |-> ref, row |-> 0, tries |-> 0,
     store |-> NoStore]

At(w, place) == job[w].at = place
Start(w, j)  == At(w, "idle") /\ job' = [job EXCEPT ![w] = j]
Goto(w, place) ==
    job' = [job EXCEPT ![w] = [kind |-> job[w].kind, at |-> place,
                               intent |-> job[w].intent, ref |-> job[w].ref,
                               row |-> job[w].row, tries |-> job[w].tries,
                               store |-> job[w].store]]
Return(w)    == job' = [job EXCEPT ![w] = Resting]

Put(f, i, v) == [f EXCEPT ![i] = v]

\* UPDATE op_sms_data SET match_status
SetStatus(w, status) ==
    sms' = [sms EXCEPT ![job[w].row] = [sms[job[w].row] EXCEPT !.status = status]]

-----------------------------------------------------------------------------
(***************************************************************************)
(* createIntent and initiatePayment                                        *)
(***************************************************************************)
createIntent(w, i) ==
    /\ intent[i] = "none"
    /\ Start(w, Job("create", "insert", i, NoRef))
    /\ intent' = Put(intent, i, "pending")
    /\ UNCHANGED <<tx, reference, claimed, smsVars, outcome, cronVars, world, history, faults>>

\* The transaction row is a second statement.
InsertTransaction(w) ==
    /\ At(w, "insert")
    /\ tx' = Put(tx, job[w].intent, "pending")
    /\ Return(w)
    /\ UNCHANGED <<intent, reference, claimed, smsVars, outcome, cronVars, world, history, faults>>

initiatePayment(w, i) ==
    /\ tx[i] # "none"
    /\ Start(w, Job("initiate", "initiate", i, NoRef))
    /\ UNCHANGED <<rows, smsVars, outcome, cronVars, world, history, faults>>

\* The batch after adapter.initiate; it asks for no status.
MarkProcessing(w) ==
    /\ At(w, "initiate")
    /\ tx' = Put(tx, job[w].intent, "processing")
    /\ intent' = Put(intent, job[w].intent, "processing")
    /\ Return(w)
    /\ UNCHANGED <<reference, claimed, smsVars, outcome, cronVars, world, history, faults>>

-----------------------------------------------------------------------------
(***************************************************************************)
(* completeTransaction: ledger, then the status of both rows, then the     *)
(* merchant's webhook.                                                     *)
(***************************************************************************)
\* Mutant of PostLedger: the rows are completed before the ledger is asked.
SettleBeforePosting(w) ==
    /\ At(w, "post")
    /\ tx' = Put(tx, job[w].intent, "completed")
    /\ intent' = Put(intent, job[w].intent, "completed")
    /\ Goto(w, "settle")
    /\ UNCHANGED <<reference, claimed, smsVars, outcome, cronVars, world, history, faults>>

\* The tx_id is made from the intent, so a repeated call posts nothing more.
postPaymentLedgerEntry(i) == posted' = posted \cup {i}

PostLedger(w) ==
    /\ At(w, "post")
    /\ postPaymentLedgerEntry(job[w].intent)
    /\ Goto(w, "settle")
    /\ UNCHANGED <<rows, smsVars, notified, events, cronVars, world, history, faults>>

Settle(w) ==
    /\ At(w, "settle")
    /\ tx' = Put(tx, job[w].intent, "completed")
    /\ intent' = Put(intent, job[w].intent, "completed")
    /\ reference' = Put(reference, job[w].intent, job[w].ref)
    /\ Goto(w, "notify")
    /\ UNCHANGED <<claimed, smsVars, outcome, cronVars, world, history, faults>>

\* The last step of completeTransaction, and what its caller does after it:
\* the SMS paths flag the SMS, the webhook handler answers with success.
Notify(w) ==
    /\ At(w, "notify")
    /\ notified' = notified \cup {job[w].intent}
    /\ IF job[w].row # 0 THEN Goto(w, "match") ELSE Return(w)
    /\ acked' = IF job[w].kind \in EventKinds
                THEN acked \cup {<<job[w].intent, job[w].kind>>} ELSE acked
    /\ UNCHANGED <<rows, smsVars, posted, events, cronVars, paid, received, history, faults>>

MarkMatched(w) ==
    /\ At(w, "match")
    /\ SetStatus(w, "matched")
    /\ Return(w)
    /\ UNCHANGED <<rows, queue, dlq, outcome, cronVars, world, history, faults>>

-----------------------------------------------------------------------------
(***************************************************************************)
(* The gateway's redirect and the gateway's webhook                        *)
(***************************************************************************)
\* verify() confirms a payment that was made, with its amount and reference,
\* or it does not: cancelled, not yet known, amount or reference mismatched.
handleCallback(w, i) ==
    /\ tx[i] # "none"
    /\ \/ i \in paid /\ Start(w, Job("callback", "post", i, OtherRef))
       \/ Start(w, Job("callback", "fail", i, NoRef))
    /\ UNCHANGED <<rows, smsVars, outcome, cronVars, world, history, faults>>

\* Mutant of MarkFailed: the intent fails too, and no terminal state guard.
MarkFailedUnguarded(w) ==
    /\ At(w, "fail")
    /\ tx' = Put(tx, job[w].intent, "failed")
    /\ intent' = Put(intent, job[w].intent, "failed")
    /\ Return(w)
    /\ UNCHANGED <<reference, claimed, smsVars, outcome, cronVars, world, history, faults>>

MarkFailed(w) ==
    /\ At(w, "fail")
    /\ tx' = IF tx[job[w].intent] \in {"pending", "processing"}
             THEN Put(tx, job[w].intent, "failed") ELSE tx
    /\ Return(w)
    /\ UNCHANGED <<intent, reference, claimed, smsVars, outcome, cronVars, world, history, faults>>

\* The event is looked up; a known one is answered 'duplicate', with success.
\* The id of an anonymous one is a random UUID, and unknown each time.
ReceiveWebhook(w, i, k) ==
    /\ tx[i] # "none"
    /\ k # "notice" => i \in paid
    /\ IF <<i, k>> \in events
       THEN At(w, "idle") /\ acked' = acked \cup {<<i, k>>} /\ UNCHANGED job
       ELSE Start(w, Job(k, "record", i, OtherRef)) /\ UNCHANGED acked
    /\ UNCHANGED <<rows, smsVars, outcome, cronVars, paid, received, history, faults>>

\* Mutant of RecordEvent: the duplicate check comes after the INSERT and finds
\* the row just inserted.
RecordThenCheck(w) ==
    /\ At(w, "record")
    /\ Return(w)
    /\ events' = events \cup {<<job[w].intent, job[w].kind>>}
    /\ acked' = acked \cup {<<job[w].intent, job[w].kind>>}
    /\ UNCHANGED <<rows, smsVars, posted, notified, cronVars, paid, received, history, faults>>

\* The INSERT is refused by the unique index if another delivery was faster,
\* which is an error to the gateway.  A notice ends here, with success.
RecordEvent(w) ==
    LET event == <<job[w].intent, job[w].kind>> IN
    /\ At(w, "record")
    /\ \/ event \in events /\ Return(w) /\ UNCHANGED <<events, acked>>
       \/ /\ event \notin events /\ job[w].kind = "notice"
          /\ events' = events \cup {event} /\ acked' = acked \cup {event}
          /\ Return(w)
       \/ /\ event \notin events /\ job[w].kind # "notice"
          /\ events' = IF job[w].kind = "webhook" THEN events \cup {event} ELSE events
          /\ Goto(w, "post") /\ UNCHANGED acked
    /\ UNCHANGED <<rows, smsVars, posted, notified, cronVars, paid, received, history, faults>>

-----------------------------------------------------------------------------
(***************************************************************************)
(* The SMS queue consumer                                                  *)
(***************************************************************************)
SmsMessage(x, tries, signed, store) ==
    [trx |-> x, tries |-> tries, signed |-> signed, store |-> store]

\* Whether the sender of an SMS is the short code of a carrier.
validateCarrierSender(x) == x \in Trusted

\* A delivery always inserts a row of its own.
TakeSms(w, m) ==
    /\ Len(sms) < MaxRows
    /\ Start(w, [kind |-> "sms",
                 at |-> IF (m.signed \/ ~SignatureRequired) /\ validateCarrierSender(m.trx)
                        THEN "parse" ELSE "refuse",
                 intent |-> NoIntent, ref |-> m.trx,
                 row |-> Len(sms) + 1, tries |-> m.tries, store |-> m.store])
    /\ sms' = Append(sms, [trx |-> m.trx, status |-> "pending", found |-> "nothing"])
    /\ queue' = queue \ {m}
    /\ UNCHANGED <<rows, dlq, outcome, cronVars, world, history, faults>>

RefuseSms(w) ==
    /\ At(w, "refuse")
    /\ SetStatus(w, "failed")
    /\ Return(w)
    /\ UNCHANGED <<rows, queue, dlq, outcome, cronVars, world, history, faults>>

\* Templates, heuristics and the language model find the TrxID and the amount,
\* or only the TrxID, or no TrxID, and without it nobody can find the row.  A
\* result without an amount may be a miss (parser 'none') or not.
ParseSms(w) ==
    /\ At(w, "parse")
    /\ \E found \in {"nothing", "trx", "both"} :
          /\ sms' = [sms EXCEPT ![job[w].row] =
                        [trx |-> job[w].ref, status |-> "parsed", found |-> found]]
          /\ Goto(w, "corroborate") \/ (found # "both" /\ Goto(w, "miss"))
    /\ UNCHANGED <<rows, queue, dlq, outcome, cronVars, world, history, faults>>

MissSms(w) ==
    /\ At(w, "miss")
    /\ SetStatus(w, "no_match")
    /\ Return(w)
    /\ UNCHANGED <<rows, queue, dlq, outcome, cronVars, world, history, faults>>

\* loadOpenOrders, for a device of store s: the newest of them, by a time of
\* creation the model has not, hence any OpenLimit of them.
OpenOrders(s) ==
    {i \in Intents \ aged :
        /\ tx[i] \in {"pending", "awaiting_verification", "processing"}
        /\ s = NoStore \/ Store[i] = NoStore \/ Store[i] = s}

Loads(s) ==
    LET open == OpenOrders(s) IN
    {loaded \in SUBSET open :
        Cardinality(loaded) = IF Cardinality(open) <= OpenLimit
                              THEN Cardinality(open) ELSE OpenLimit}

CustomerTrx(i) == IF claimed[i] # NoRef THEN claimed[i] ELSE reference[i]

\* A conflict needs a known gateway on both sides.
SameGateway(i, x) ==
    Gateway[i] = Sender[x] \/ Gateway[i] = "unknown" \/ Sender[x] = "unknown"

\* The currency is compared where the SMS has one.
SameCurrency(i, x) == SmsCurrency[x] = NoCurrency \/ SmsCurrency[x] = Currency[i]

\* Of the loaded orders those of the exact amount whose customer gave this
\* TrxID; one confirms, unless the sender is another gateway than the order's.
corroborateSmsPayment(x, loaded) ==
    LET candidates == {i \in loaded : /\ Amount[i] = SmsAmount[x]
                                      /\ SameCurrency(i, x)
                                      /\ CustomerTrx(i) = x}
    IN  {i \in candidates : candidates = {i} /\ SameGateway(i, x)}

CorroborateSms(w) ==
    /\ At(w, "corroborate")
    /\ \E loaded \in Loads(job[w].store) :
          LET confirmed == {i \in corroborateSmsPayment(job[w].ref, loaded) :
                               sms[job[w].row].found = "both"}
          IN  \/ confirmed = {} /\ Goto(w, "review")
              \/ \E i \in confirmed :
                    job' = [job EXCEPT ![w] = [kind |-> "sms", at |-> "post", intent |-> i,
                               ref |-> job[w].ref, row |-> job[w].row,
                               tries |-> job[w].tries, store |-> job[w].store]]
    /\ UNCHANGED <<rows, smsVars, outcome, cronVars, world, history, faults>>

ReviewSms(w) ==
    /\ At(w, "review")
    /\ SetStatus(w, "needs_manual_review")
    /\ Return(w)
    /\ UNCHANGED <<rows, queue, dlq, outcome, cronVars, world, history, faults>>

-----------------------------------------------------------------------------
(***************************************************************************)
(* The customer submits a TrxID (handleCustomerTrxVerify)                  *)
(***************************************************************************)
\* The token is known once createIntent has answered or failed.
SubmitTrx(w, i, x) ==
    /\ intent[i] \notin {"none", "completed"}
    /\ \A v \in Workers : ~(At(v, "insert") /\ job[v].intent = i)
    /\ Start(w, Job("verify", "used", i, x))
    /\ submitted' = Put(submitted, i, submitted[i] \cup {x})
    /\ UNCHANGED <<rows, smsVars, outcome, cronVars, world, forgotten, faults>>

\* Answers 409 TRX_ALREADY_USED if another completed transaction has it.
CheckUsed(w) ==
    /\ At(w, "used")
    /\ IF \E j \in Intents \ {job[w].intent} :
              tx[j] = "completed" /\ reference[j] = job[w].ref
       THEN Return(w) ELSE Goto(w, "search")
    /\ UNCHANGED <<rows, smsVars, outcome, cronVars, world, history, faults>>

\* The rows whose parsed TrxID is x and that are not used up; a 'pending' row
\* has none yet.
Usable(x) ==
    {r \in DOMAIN sms :
        /\ sms[r].trx = x /\ sms[r].found # "nothing"
        /\ sms[r].status \in {"pending", "parsed", "needs_manual_review", "no_match"}}

\* completeTransaction with the SMS of row r.
SettleWith(w, r) ==
    job' = [job EXCEPT ![w] = [kind |-> "verify", at |-> "post", intent |-> job[w].intent,
               ref |-> job[w].ref, row |-> r, tries |-> 0, store |-> NoStore]]

\* Mutant of SearchSms: the amount is not compared.
SearchSmsAnyAmount(w) ==
    LET usable == Usable(job[w].ref) IN
    /\ At(w, "search")
    /\ \/ usable = {} /\ Goto(w, "await")
       \/ tx[job[w].intent] # "none" /\ \E r \in usable : SettleWith(w, r)
    /\ UNCHANGED <<rows, smsVars, outcome, cronVars, world, history, faults>>

\* The newest such row settles the payment if it has an amount and the number is
\* the intent's; currency, sender and store are not compared.
SearchSms(w) ==
    LET i == job[w].intent
        usable == Usable(job[w].ref)
        newest == {r \in usable : \A s \in usable : s <= r}
        Fits(r) == sms[r].found = "both" /\ SmsAmount[job[w].ref] = Amount[i]
    IN  /\ At(w, "search")
        /\ \/ usable = {} /\ Goto(w, "await")
           \/ \E r \in newest :
                 \/ ~Fits(r) /\ Return(w)
                 \/ Fits(r) /\ tx[i] = "none" /\ Goto(w, "await")
                 \/ Fits(r) /\ tx[i] # "none" /\ SettleWith(w, r)
        /\ UNCHANGED <<rows, smsVars, outcome, cronVars, world, history, faults>>

\* No SMS yet: the claim is stored, with statuses no one has looked at since
\* the handler began.
StoreClaim(w) ==
    LET i == job[w].intent IN
    /\ At(w, "await")
    /\ claimed' = Put(claimed, i, job[w].ref)
    /\ intent' = Put(intent, i, "processing")
    /\ IF tx[i] = "none" THEN UNCHANGED <<tx, reference>>
       ELSE /\ tx' = Put(tx, i, "awaiting_verification")
            /\ reference' = Put(reference, i, job[w].ref)
    /\ Return(w)
    /\ UNCHANGED <<smsVars, outcome, cronVars, world, history, faults>>

-----------------------------------------------------------------------------
(***************************************************************************)
(* Cron                                                                    *)
(***************************************************************************)
expirePendingIntents ==
    LET due == {i \in overdue : intent[i] \in {"pending", "processing"}} IN
    /\ expiring = {}
    /\ due # {}
    /\ intent' = [i \in Intents |-> IF i \in due THEN "expired" ELSE intent[i]]
    /\ expiring' = due
    /\ UNCHANGED <<tx, reference, claimed, smsVars, outcome, overdue, aged, world, history, job, faults>>

\* Mutant of ExpireTransactions: by the ids of the first statement alone.
ExpireTransactionsById ==
    /\ expiring # {}
    /\ tx' = [i \in Intents |-> IF i \in expiring /\ tx[i] # "none"
                                THEN "expired" ELSE tx[i]]
    /\ expiring' = {}
    /\ UNCHANGED <<intent, reference, claimed, smsVars, outcome, overdue, aged, world, history, job, faults>>

\* The second statement, for the intents that are still 'expired' by now.
ExpireTransactions ==
    /\ expiring # {}
    /\ tx' = [i \in Intents |-> IF i \in expiring /\ intent[i] = "expired" /\ tx[i] # "none"
                                THEN "expired" ELSE tx[i]]
    /\ expiring' = {}
    /\ UNCHANGED <<intent, reference, claimed, smsVars, outcome, overdue, aged, world, history, job, faults>>

\* processPendingSmsVerifications: rows still 'pending' are enqueued again, the
\* one a consumer is working on among them, without signature and store; a send
\* that fails is skipped.
RequeuePending(r) ==
    /\ r \in DOMAIN sms
    /\ sms[r].status = "pending"
    /\ Len(sms) < MaxRows
    /\ queue' = queue \cup {SmsMessage(sms[r].trx, 0, FALSE, NoStore)}
    /\ UNCHANGED <<rows, sms, dlq, outcome, cronVars, world, history, job, faults>>

-----------------------------------------------------------------------------
(***************************************************************************)
(* An invocation ends early: an exception or a lost isolate.  The queue    *)
(* delivers an SMS again until its retries are used up; whether it was     *)
(* signed decides about nothing but the refusal.                           *)
(***************************************************************************)
\* Mutant of Fault: the message is not retried.
FaultWithoutRetry(w) ==
    /\ ~At(w, "idle")
    /\ faults < MaxFaults
    /\ faults' = faults + 1
    /\ Return(w)
    /\ UNCHANGED <<rows, smsVars, outcome, cronVars, world, history>>

Fault(w) ==
    /\ ~At(w, "idle")
    /\ faults < MaxFaults
    /\ faults' = faults + 1
    /\ Return(w)
    /\ IF job[w].kind # "sms" THEN UNCHANGED <<queue, dlq>>
       ELSE IF job[w].tries < MaxRetries
       THEN /\ queue' = queue \cup {SmsMessage(job[w].ref, job[w].tries + 1,
                                              ~At(w, "refuse"), job[w].store)}
            /\ UNCHANGED dlq
       ELSE dlq' = dlq \cup {job[w].ref} /\ UNCHANGED queue
    /\ forgotten' = IF job[w].kind = "webhook" /\ At(w, "post")
                    THEN forgotten \cup {job[w].intent} ELSE forgotten
    /\ UNCHANGED <<rows, sms, outcome, cronVars, world, submitted>>

CronFault ==
    /\ expiring # {}
    /\ faults < MaxFaults
    /\ faults' = faults + 1
    /\ expiring' = {}
    /\ UNCHANGED <<rows, smsVars, outcome, overdue, aged, world, history, job>>

-----------------------------------------------------------------------------
(***************************************************************************)
(* The world: the customer pays, the device delivers an SMS, time passes.  *)
(***************************************************************************)
Pay(i) ==
    /\ i \in Payable
    /\ tx[i] # "none"
    /\ paid' = paid \cup {i}
    /\ UNCHANGED <<rows, smsVars, outcome, cronVars, received, acked, history, job, faults>>

DeliverSms(x) ==
    /\ x \notin received
    /\ received' = received \cup {x}
    /\ queue' = queue \cup {SmsMessage(x, 0, TRUE, SmsStore[x])}
    /\ UNCHANGED <<rows, sms, dlq, outcome, cronVars, paid, acked, history, job, faults>>

PassTime(i) ==
    /\ i \in Ageing
    /\ intent[i] # "none"
    /\ overdue' = overdue \cup {i}
    /\ aged' \in {aged, aged \cup {i}}
    /\ UNCHANGED <<rows, smsVars, outcome, expiring, world, history, job, faults>>

-----------------------------------------------------------------------------
Init ==
    /\ intent = [i \in Intents |-> "none"]
    /\ tx = [i \in Intents |-> "none"]
    /\ reference = [i \in Intents |-> NoRef]
    /\ claimed = [i \in Intents |-> NoRef]
    /\ posted = {} /\ notified = {} /\ events = {}
    /\ sms = <<>> /\ queue = {} /\ dlq = {}
    /\ job = [w \in Workers |-> Resting]
    /\ expiring = {} /\ overdue = {} /\ aged = {}
    /\ paid = {} /\ received = {} /\ acked = {}
    /\ submitted = [i \in Intents |-> {}] /\ forgotten = {}
    /\ faults = 0

\* A request arrives.
Request(w) ==
    \/ \E i \in Intents :
          \/ createIntent(w, i) \/ initiatePayment(w, i)
          \/ handleCallback(w, i)
          \/ \E k \in Announced : ReceiveWebhook(w, i, k)
    \/ \E i \in Intents, x \in TrxIds : SubmitTrx(w, i, x)
    \/ \E m \in queue : TakeSms(w, m)

\* An invocation goes on.
Continue(w) ==
    \/ InsertTransaction(w) \/ MarkProcessing(w) \/ MarkFailed(w)
    \/ PostLedger(w) \/ Settle(w) \/ Notify(w) \/ MarkMatched(w)
    \/ RecordEvent(w)
    \/ RefuseSms(w) \/ ParseSms(w) \/ MissSms(w) \/ CorroborateSms(w) \/ ReviewSms(w)
    \/ CheckUsed(w) \/ SearchSms(w) \/ StoreClaim(w)

Cron ==
    \/ expirePendingIntents \/ ExpireTransactions \/ CronFault
    \/ \E r \in DOMAIN sms : RequeuePending(r)

World ==
    \/ \E i \in Intents : Pay(i) \/ PassTime(i)
    \/ \E x \in TrxIds : DeliverSms(x)

Next ==
    \/ \E w \in Workers : Request(w) \/ Continue(w) \/ Fault(w)
    \/ Cron
    \/ World

Spec == Init /\ [][Next]_vars

(***************************************************************************)
(* Fairness.  An invocation that has begun goes on, the queue delivers     *)
(* what it holds, and a gateway repeats a webhook until it is answered     *)
(* with success.  Customers promise nothing.                               *)
(***************************************************************************)
Fairness ==
    /\ \A w \in Workers : WF_vars(Continue(w))
    /\ SF_vars(\E w \in Workers, m \in queue : TakeSms(w, m))
    /\ \A i \in Intents :
          SF_vars(\E w \in Workers, k \in Announced \ {"notice"} :
                     <<i, k>> \notin acked /\ ReceiveWebhook(w, i, k))

FairSpec == Spec /\ Fairness

-----------------------------------------------------------------------------
(***************************************************************************)
(* Properties                                                              *)
(***************************************************************************)
IntentStatus == {"none", "pending", "processing", "completed", "expired"}
TxStatus == {"none", "pending", "processing", "awaiting_verification", "completed",
             "failed", "expired"}
SmsStatus == {"pending", "parsed", "no_match", "failed", "needs_manual_review", "matched"}
Places == {"idle", "insert", "initiate", "post", "settle", "notify", "match", "fail",
           "record", "parse", "miss", "refuse", "corroborate", "review", "used", "search",
           "await"}
Kinds == {"none", "create", "initiate", "callback", "sms", "verify"} \cup EventKinds
Findings == {"nothing", "trx", "both"}
Stores == {Store[i] : i \in Intents} \cup {SmsStore[x] : x \in TrxIds} \cup {NoStore}

JobType == [kind : Kinds, at : Places, intent : Intents \cup {NoIntent},
            ref : TrxIds \cup {NoRef, OtherRef}, row : Nat, tries : Nat, store : Stores]

DataTypeOK ==
    /\ intent \in [Intents -> IntentStatus]
    /\ tx \in [Intents -> TxStatus]
    /\ reference \in [Intents -> TrxIds \cup {NoRef, OtherRef}]
    /\ claimed \in [Intents -> TrxIds \cup {NoRef}]
    /\ posted \subseteq Intents /\ notified \subseteq Intents
    /\ events \subseteq Intents \X EventKinds
    /\ sms \in Seq([trx : TrxIds, status : SmsStatus, found : Findings])
    /\ queue \subseteq [trx : TrxIds, tries : Nat, signed : BOOLEAN, store : Stores]
    /\ dlq \subseteq TrxIds
    /\ expiring \subseteq Intents /\ overdue \subseteq Intents /\ aged \subseteq Intents
    /\ paid \subseteq Intents /\ received \subseteq TrxIds
    /\ acked \subseteq Intents \X EventKinds
    /\ submitted \in [Intents -> SUBSET TrxIds] /\ forgotten \subseteq Intents
    /\ faults \in Nat

\* Every variable keeps its type; statuses are those of the tables' CHECKs.
TypeOK == DataTypeOK /\ job \in [Workers -> JobType]

\* The two rows of a payment are completed together or not at all, although
\* four handlers and the cron write them, some in two statements.
CompletedTogether == \A i \in Intents : tx[i] = "completed" <=> intent[i] = "completed"

\* What is shown as completed, or was reported to the merchant, is in the
\* ledger: "ledger posting MUST occur BEFORE marking the transaction completed"
\* (services/payment.ts), wherever an invocation may have died.
CompletedIsPosted ==
    \A i \in Intents : intent[i] = "completed" \/ i \in notified => i \in posted

\* What a payment can be posted on: the gateway confirmed it; or the device has
\* delivered an SMS of a carrier's sender, about the intent's exact number, with
\* a TrxID that was submitted for this very intent.
Evidence(i) ==
    \/ i \in paid
    \/ \E x \in submitted[i] : x \in received /\ x \in Trusted /\ SmsAmount[x] = Amount[i]

\* A payment is posted on evidence only, whichever of SMS and TrxID came first
\* and whatever has happened to the rows between the look-up and the posting:
\* "An order is NEVER marked completed without an exact [...] TrxID match"
\* (docs/SECURITY.md).  Of the currency and the carrier's family it says nothing,
\* since the checkout compares neither.
PostedOnEvidence == \A i \in posted : Evidence(i)

\* A payment made at a gateway that announces it is posted in the end, however
\* many deliveries of the webhook collide or die.  The one exception is the
\* order of controllers/webhooks.ts: the event is recorded before the payment is
\* settled, so that a handler that dies in between leaves a duplicate behind.
PaidIsSettled ==
    \A i \in Intents :
        (i \in paid /\ Announced \ {"notice"} # {}) ~> (i \in posted \/ i \in forgotten)

\* No step turns a completed transaction into a failed or expired one: the
\* terminal state guard of handleCallback and the subselect of the cron.
CompletedNeverFails ==
    [][\A i \in Intents : tx[i] = "completed" => tx'[i] \notin {"failed", "expired"}]_vars

\* What holds of an invocation wherever it stands: it knows its payment; from
\* "settle" on the ledger holds the payment; before, at "post", there is evidence
\* of it; and an SMS it works on is one the device delivered.
Sound(j) ==
    /\ j.at \in {"insert", "initiate", "post", "settle", "notify", "match", "fail",
                 "record", "used", "search", "await"} => j.intent \in Intents
    /\ j.at \in {"initiate", "post", "settle", "notify", "match", "fail", "record"}
          => tx[j.intent] # "none"
    /\ j.at \in {"settle", "notify", "match"} => j.intent \in posted
    /\ j.at = "post" => Evidence(j.intent)
    /\ j.at = "record" => j.kind \in EventKinds /\ j.ref = OtherRef
    /\ j.at = "record" /\ j.kind # "notice" => j.intent \in paid
    /\ j.at \in {"post", "settle"} => j.ref = OtherRef \/ j.ref \in submitted[j.intent]
    /\ j.at \in {"used", "search", "await"} => j.ref \in submitted[j.intent]
    /\ j.at \in {"parse", "corroborate"} => j.ref \in Trusted
    /\ j.at \in {"used", "search", "await"} => intent[j.intent] # "none"
    /\ j.kind = "sms" \/ j.at \in {"parse", "miss", "refuse", "corroborate", "review", "match"}
          => j.row # 0
    /\ j.row # 0 => j.ref \in received

JobInv == \A w \in Workers : Sound(job[w])

\* A transaction row is inserted once, for an intent that no one can have
\* completed in the meantime.
InsertInv ==
    /\ \A i \in Intents : intent[i] = "none" => tx[i] = "none"
    /\ \A w \in Workers : At(w, "insert") =>
          tx[job[w].intent] = "none" /\ intent[job[w].intent] # "none"
    /\ \A v, w \in Workers :
          At(v, "insert") /\ At(w, "insert") /\ job[v].intent = job[w].intent => v = w

\* Whatever an SMS row or a message speaks of was delivered, what was parsed came
\* from a carrier's sender, and only payments with a transaction row are paid.
SmsInv ==
    /\ \A m \in queue : m.trx \in received
    /\ \A r \in DOMAIN sms :
          sms[r].trx \in received /\ (sms[r].found # "nothing" => sms[r].trx \in Trusted)
    /\ \A i \in paid : tx[i] # "none"

\* A TrxID stored with a payment was submitted for it.
ClaimInv ==
    \A i \in Intents :
        /\ claimed[i] = NoRef \/ claimed[i] \in submitted[i]
        /\ reference[i] \in {NoRef, OtherRef} \/ reference[i] \in submitted[i]

\* The strengthening that makes the above inductive: every invocation is sound
\* between any two of its steps, rows are inserted once, SMS come from the device
\* and TrxIDs from the customer.
SettlementInv == JobInv /\ InsertInv /\ SmsInv /\ ClaimInv

\* An SMS the queue holds is dealt with: it settles a payment, is put before a
\* person, is refused, or is dead-lettered, however many deliveries die midway.
EverySmsDealtWith ==
    \A x \in TrxIds :
        (\E m \in queue : m.trx = x)
          ~> \/ x \in dlq
             \/ \E r \in DOMAIN sms :
                   sms[r].trx = x /\ sms[r].status \notin {"pending", "parsed"}

\* docs/SECURITY.md: "D1 SQLite atomic Compare-And-Swap [...] ensures only one
\* edge request can execute payment settlement."  A TrxID settles one payment.
OneTrxIdOnePayment ==
    \A i, j \in Intents :
        /\ tx[i] = "completed" /\ tx[j] = "completed"
        /\ reference[i] = reference[j] /\ reference[i] \in TrxIds
        => i = j
=============================================================================
