# TLA+ verification of edgepay-cf

edgepay-cf is a payment platform that runs on Cloudflare Workers: D1 (SQLite) holds
the business tables, one Durable Object per merchant holds that merchant's ledger,
queues carry SMS, webhooks and mail, workflows follow refunds, and a cron cleans up.
No transaction and no lock spans two of these. What makes the system correct is the
order in which each handler writes, what it reads again, and what is safe to repeat.
That is what this directory models.

Paths below are relative to the repository root (the application is in `src/`, the
documents in `docs/`).

## 1. The system

### 1.1 Components, state and operations

| Component | State | Operations that change it |
|---|---|---|
| Ledger Durable Object, `src/do/ledger-do.ts` | SQLite of the object: accounts with balances, transactions, entries, `ledger_outbox`; one alarm; in-memory flags lost with the isolate | `postTransaction`, `alarm`, `drainOutbox`, retention, snapshot |
| Audit mirror, `src/services/ledger-audit.ts` | D1: `op_ledger_*`, registry `op_ledger_postings` | the batch a drain (or a heal) sends |
| Posting reconciliation, `src/services/reconciliation.ts` | registry rows that are still `pending`, their `attempts` | `reconcilePendingPostings`: replay through the object, settle by the answer |
| Payment service, `src/services/payment.ts` | D1: `op_payment_intents`, `op_transactions` | `createIntent`, `initiatePayment`, `handleCallback`, `completeTransaction` |
| Checkout, `src/controllers/checkout.ts` | the same rows, `metadata.customer_trx_id` | the pay form, `handleCustomerTrxVerify` |
| Inbound webhooks, `src/controllers/webhooks.ts` | D1: `op_webhook_events` | duplicate check, event row, settlement |
| SMS verification, `src/queues/sms-consumer.ts`, `src/services/sms-corroboration.ts` | D1: `op_sms_data`; the sms-parse queue and its dead-letter queue | one delivery: row, policy, parse, match, settle, acknowledge or retry |
| Cron, `src/cron/handler.ts` | none of its own | expiry, requeueing of pending SMS, replay of pending postings, sweep |
| Refund service, `src/services/refund.ts` | D1: `op_refunds` | `createRefund`: check, reserve, ask the gateway, record, trigger |
| Refund workflow and sweep, `src/workflows/*`, `sweepStuckRefunds` | workflow instances with remembered steps; `workflow_attempts` | load, query, wait, post the reversal, notify, complete; re-drive |
| Merchant API, `src/controllers/api.ts`, `middleware/auth.ts`, `middleware/idempotency.ts` | D1: `op_api_keys`, `op_idempotency_keys` | creation under an idempotency key; creation, rotation and revocation of API keys |
| Devices, `src/controllers/mobile.ts`, `services/device-policy.ts`, `services/key-attestation.ts` | D1: pairing tokens, `op_paired_devices`, `op_device_nonces`, policies and overrides; KV: attempt counters, attestation challenges | pairing, SMS one by one and in batches, key rotation, revocation, policy changes, overrides |
| Outbound webhooks and mail, `services/webhook-dispatcher.ts`, `queues/webhook-consumer.ts`, `email-consumer.ts`, `dlq-consumer.ts` | two queues with their dead-letter queues, D1: `op_webhooks`, `op_webhook_deliveries` | dispatch, test, retry, one delivery, paging of the dead |
| Gateway adapters, `src/gateways/**` | none: the provider's orders are elsewhere | `initiate`, `verify`, `verifyWebhook`, `refund` |
| Provisioning, `controllers/install.ts`, `services/bootstrap.ts`, `services/hierarchy.ts`, `controllers/admin-api.ts` | D1: merchants, brands, stores, gates and what each merchant needs; KV: `system:installed`, `system:bootstrapped`, claims | wizard, bootstrap of an isolate, creation of merchants, claims, hierarchy routes |
| Parsers, crypto, money, OpenAPI, frontend, CLI | none, or configuration | not modelled, see section 6 |

### 1.2 How they interact

```
 pay form ─┐                    ┌─ gateway redirect ── handleCallback ─┐
 TrxID  ───┤ checkout           ├─ gateway webhook ─── webhooks.ts ────┤
           └────────────────────┤                                      ├─ completeTransaction
 device ── sms-parse queue ─────┴─ sms-consumer ── corroboration ──────┘     │ 1 post
                                                                             ▼
 merchant ── createRefund ── gateway        RefundReconciliationWorkflow ── LedgerDO ── outbox ── D1 mirror
                  └── trigger ─────────────▶      ▲                           ▲
 cron ── expire, requeue, sweepStuckRefunds ──────┘   reconcilePendingPostings┘
```

Callers post to the ledger by a `tx_id` derived from what is posted, so that a repeated
call is a duplicate; the object copies what it committed to D1 through its outbox;
every other table is D1 and is written by any invocation at any time.

### 1.3 What is hard, and what correctness means

* **Ledger.** The drain awaits D1 with the input gate open; a batch that failed may have
  been applied or be applied later; the isolate may be lost after any commit. Correct:
  the book is balanced, funded, in one currency, each `tx_id` is applied once, nothing
  committed is lost on its way to D1, and D1 shows nothing else.
* **Reconciliation.** Rows are read once and settled by an answer that is old by then.
  Correct: a heal writes only what the object holds; every pending row is settled.
* **Payments.** Four roads settle one payment and the cron expires it, all at once and
  each liable to die midway. Correct: a completed payment is in the ledger and its two
  rows agree; nothing is posted without evidence of its amount; completion is final.
* **SMS.** The SMS and the customer's TrxID arrive in either order, deliveries repeat.
  Correct: every SMS is dealt with; it pays for what it reports.
* **Refunds.** Requests race for one captured amount, and a request, the gateway, up to
  four instances of a workflow and sweeps work on each. Correct: the reservations stay
  within the amount, the ledger is reversed exactly for refunds that the gateway made, none
  is forgotten.
* **Gateways.** The browser carries the callback, and each of some ninety adapters proves
  something else with it. Correct: whatever the adapter, a payment is completed only when
  its price was taken, and each refund on record is one return of that price.
* **Devices.** Pairings race for one token, the same nonce arrives by three routes, keys
  and policies change while a request is under way. Correct: one device per token,
  attested by what its own chain proves; a signed SMS is queued at most once.
* **Merchant API.** Idempotency is a lookup, the route and a store after the answer, none
  of them atomic. Correct: a replay is the answer to that very request, a stored record
  protects, a rotation hands out one secret.
* **Outbound queues.** Receiver, log, consumer and queue fail separately. Correct: each
  message ends, and ends or is repeated for a reason one can name.
* **Provisioning.** Three programs of some ten statements each, no transaction, any of
  them stopped anywhere. Correct: a flag or a claim implies a merchant that works, and where
  the bootstrap cannot finish what was begun it is known which merchant lacks what.

`PROJECT.json` lists the individual hazards with the line where each bites and the
properties aimed at it.

## 2. Modules

| Module | Models | Notes |
|---|---|---|
| `AccountBook` | nothing: the abstract specification | a set of transactions, each applied at once and at most once |
| `LedgerDO` | `do/ledger-do.ts`, `services/ledger-audit.ts` | refines `AccountBook` |
| `LedgerReconciliation` | `reconcilePendingPostings` | EXTENDS `LedgerDO`: its steps interleave with all of the object's |
| `PaymentSettlement` | `payment.ts`, `checkout.ts`, `webhooks.ts`, `sms-consumer.ts`, `sms-corroboration.ts`, `cron/handler.ts` | composes the four roads on the shared rows |
| `Refunds` | `refund.ts`, `refund-reconciliation.ts`, `sweepStuckRefunds` | request, workflow, sweep, gateway |
| `GatewayAdapters` | `gateways/**`, one definition per adapter file | what each adapter tells the platform, as a record of a few fields |
| `GatewayCheckout` | `payment.ts` and `webhooks.ts` towards the adapter, `refund.ts`, `gateways/enabled.ts` | composes any of the adapters with the provider and the browser; its formulas are `GatewayInit`, `GatewayNext`, `GatewaySpec`, so that it can stand beside `MobileDevices` in one module of proofs |
| `DevicePolicy`, `KeyAttestation` | `device-policy.ts`; `key-attestation.ts`, `x509.ts` | decisions, as operators |
| `MobileDevices` | `mobile.ts`, overrides, purge of nonces | EXTENDS the two above |
| `MerchantApi` | `api.ts`, `auth.ts`, `idempotency.ts` | |
| `WebhookDelivery` | dispatcher, consumers, dead-letter queues | |
| `Provisioning` | `install.ts`, `bootstrap.ts`, `hierarchy.ts`, merchants and claims of `admin-api.ts` | |
| `MC*` | | the constants of the TLC runs |
| `Sums` | nothing: a library | sums over finite sets, with the lemmas the proofs need of them |
| `*_proofs` | | theorems, one module per component but two: `Ledger_proofs` is about `LedgerDO` and `LedgerReconciliation`, `Evidence_proofs` about `GatewayCheckout` and `MobileDevices` |

Definitions keep the names of the code. `PROJECT.json` maps each to its lines.

### 2.1 LedgerDO

`posted`, the balances, `chart_currency` and `outbox` are the object's SQLite; `mirror`
and `registry` are D1; `alarm`, `alarm_pc` and `batch` are the wake-up and the drains in
flight; `late` holds batches whose sender has given up and D1 has not. `postTransaction`
runs in `blockConcurrencyWhile` and its writes are one storage transaction: it is one
action (`Post`), with `PostThenRestart` for an isolate lost after the commit and before
the trailing work. As in `postInner` the chart is seeded first, even by a posting that is
then refused; the checks follow in the code's order: shape and amounts, debits against
credits, duplicate, currency and unknown account, overdraft. `PostFails` is the throw
that `postTransaction` turns into `INTERNAL` before anything is committed; the same answer
comes after the commit when the trailing work throws, so it says nothing of the book. A
drain is the sending of a batch and, later, `DrainOk` or `DrainFail`; between the two
`BatchApply`, postings, other drains, the alarm and restarts happen. Both values of
`LEDGER_OUTBOX_ENABLED` are covered; in the mode without the outbox the D1 write follows the
commit synchronously.

Clock times become two facts: a row is or is not in back-off, the alarm is `soon` or
`far`. Texts, timestamps and retry counts are left out. The `tx_id` determines the
payload, as it does for every caller.

### 2.2 LedgerReconciliation

A run (`recon[k]`) reads the pending rows with their attempts (`SelectPending`), replays
one (`Replay`, or `ReplayThrows` for a transport error) and then acts on the answer
(`Settle`: heal, reject, quarantine, count). An UPDATE can throw without having run
(`UpdateThrows`), or run and its answer be lost (`Settled`); either ends the run. Everything
in `LedgerDO` can happen between these.

### 2.3 PaymentSettlement

Each handler is an invocation (`job[w]`): a chain of D1 statements and remote calls,
one action each, because an await separates them. `Fault` ends an invocation at any
step. `completeTransaction` is `PostLedger`, `Settle`, then the notification with what
its caller does afterwards. The ledger is the set of payments it holds; that a posting
is applied once and durably is what `LedgerDO` establishes, and the callers' `tx_id` is
a function of the payment. Gateways, carriers and customers are the environment
(`World`): a payment is made, a webhook is sent, an SMS arrives, a TrxID is typed, time
limits pass. A queue delivery that dies is delivered again up to `max_retries` and is
dead-lettered then.

An event of a gateway (`EventKinds`) settles a payment under its own id, or under a random
one where it has none and is then never a duplicate, or is a notice: another type of event,
one without a transaction id the handler can extract, one of an unknown transaction. A
notice is recorded and answered with success and settles nothing (`webhooks.ts:201-215`).

What an SMS proves is kept apart as the code compares it. The consumer asks for the TrxID
the customer gave, the number, the currency where the parser found one, the carrier where
both are known, and the store of the device, among the newest `OpenLimit` orders. The
checkout asks for the TrxID and the number only, of the newest row that is not used up.
A row the cron enqueues again has lost its store and signature.

### 2.4 Refunds

`request[r]` follows `createRefund` through both checks, the conditional INSERT, the
gateway call (accepted and answered, accepted and the answer lost or not understood by the
adapter, refused, not asked),
the UPDATE with the id and the trigger. `flow[r][n]` is the n-th workflow instance: it
works with what its first step loaded, and a step that succeeded is not repeated.
`sweep[k]` holds the rows a sweep read with the attempts it read. The gateway settles a
refund it took whenever it likes, and a query reports that truthfully or as pending.

### 2.5 GatewayCheckout and GatewayAdapters

`GatewayAdapters` reduces each adapter to the answers a reader of its file would give:
does `initiate` open an order, what does `verify` want of the callback and whom does it
ask, where do success, amount and `trx_id` come from (the provider's answer, a signed
field, a plain field of the callback), how is a webhook verified, does `refund` ask
anybody. `GatewayCheckout` gives these fields their meaning in the handlers: a callback is
any combination of an order's reference, amount, `trx_id` and signature that a browser
could carry, only a signature of the provider being out of its reach; `handleCallback`
applies the checks of `payment.ts:384-413` in their order. The provider holds the orders; an
answer of it can be lost after it has acted. A refund the provider took leaves the row
pending with its id, as `refund.ts:176-181` does, and stays so, no adapter answering the
poll; one without an id is failed by its workflow. Only whole amounts are refunded here; parts and
the bound on their sum are in `Refunds`. The gateway's slug may be enabled or not and
a redeployment changes it.

What the module shows of the adapters beside its properties: only Stripe's events name a
transaction where `extractTransactionId` looks, so no other gateway settles by webhook;
the adapters whose `verify` waits for `_op_webhook_verified` never complete anything; those
of bKash, PayPal and Afterpay capture when they verify, so a verification repeated after a
lost answer fails; the webhook handler compares no amount.

### 2.6 MobileDevices, DevicePolicy and KeyAttestation

A request is a process with one action per await that touches shared state; a request
refused before it wrote anything does not start. Pairing is `handlePairing` (token read,
attempts), `recordBadAttempt` (the counter, read there and written here, where two
requests may count as one), `PairClaim` (the conditional UPDATE), `PairAttest` (challenge and chain),
`PairPolicy`, `PairInsert`. Forwarding is `Gate`, `lookupActiveOverride` when the policy
blocks, then for every message `Verify` (timestamp, nonce, signature), `StoreNonce`, and
`SendSms` for all of them; a key rotation shares the nonces. Time counts freshness windows
of 300 s and `Tick` waits for forwarding requests under way: a request that straddles the
purge by milliseconds is outside the model. Signatures and certificates are what the code
asks of them: a message was signed by a key, a certificate parses, is current, uses an
allowed algorithm, is signed by the next.

### 2.7 MerchantApi

`createPayment` and `createRefund` authenticate, then `lookupRecord`, `deleteExpired`,
`execute` and `storeRecord` are separate steps, the last in `waitUntil`. What the route
creates is an effect named by its request. `covered` is a history variable: the requests
whose key has had a live record since they arrived. The record holds merchant, key and
body hash, and no route: a payment and a refund of one body would be one request to it
(`idempotency.ts:93-97`). A new API key takes any scopes of `AskedScopes`. A rotation is
`rotateApiKey` (SELECT) and `RotateBatch` (INSERT and conditional UPDATE, one batch).

### 2.8 WebhookDelivery

A message is in its queue, under one step of its handler (`post`, `log`, `settle`,
`catch`) or settled (`acked`, `dropped`, `paged`, `expired`). The queue delivers it `max_retries`
times beyond the first. `logDelivery` is a step that may throw; `Promise.allSettled` makes a
handler that threw count as acknowledged, which is `dropped`. A dead letter is paged if a
consumer is bound to its queue (`dlqBound`, either way in the run), and expires otherwise;
`wrangler.jsonc` binds none.

### 2.9 Provisioning

`Programs` lists the statements of the wizard, of `POST /merchants` and of the bootstrap in
their order; `Advance` runs the next one, the bootstrap after `Look`, which resumes what it
finds. Rows are kept as "merchant m has one" except brands, stores and gates, whose owners
matter. KV is treated as consistent, one seeded gateway stands for all. `seeding` is a history
variable: the program that inserted a merchant's gateway, and whether it was stopped before
the details and the gate, which no later bootstrap adds.

## 3. The runs

States are what TLC finds with the configuration in the file. The type invariants and the
strengthenings of modules that have a proof (section 4) are proved there and not run again.

| Run | Config | Shows |
|---|---|---|
| `ledger_safe` | `LedgerDO_safe` | `NoOverdraft`, `TrialBalance`, `OneCurrencyBook`, `NoPostingLost`, `MirrorNeverAhead`, `PendingHasWakeup`, and `ImplementsBook`: the object implements `AccountBook` (47 thousand states) |
| `recon` | `LedgerRecon` | with replay running, `HealIsOfPosted` (an old answer is still true when acted on), `EveryPostingMirrored` (but for postings whose attempts are used up, section 5), `LegacySettled` (3 thousand) |
| `payment_gateway` | `Payment_gateway` | redirect, webhooks of every kind, initiation and expiry of one payment, two invocations at a time, two of which may die: `CompletedTogether`, `CompletedIsPosted`, the action property `CompletedNeverFails`, and `PaidIsSettled` under fairness: a payment the gateway keeps announcing is posted, unless a handler that died has left its event behind (349 thousand) |
| `payment_sms` | `Payment_sms` | the right SMS, one of another number, currency, carrier and store, and one of a sender that is no carrier's, against TrxIDs submitted at any time: `PostedOnEvidence` (3.4 million) |
| `payment_smslive` | `Payment_smslive` | `EverySmsDealtWith`, although deliveries die and the cron enqueues rows again (131 thousand) |
| `payment_onetrx` | `Payment_onetrx` | a disagreement between the code and its documents, section 5 |
| `refund_flow` | `Refunds_flow` | `ReservedWithinCaptured`, `CompletedIsReversed`, `ReversedIsRefunded`, and `NoOrphanRefund`: a pending refund is settled or has used up its re-drives (211 thousand) |
| `gateway_safe` | `Gateway_safe` | every kind of adapter in the registry: `CompletedIsPaid`, `BoundToItsOrder`, `RefundsAccounted` (440 thousand) |
| `devices_safe` | `Devices_safe` | `TypeOK`, `OneDevicePerOtp`, `AttestedByItsPairing`, `EnqueuedOnce`, `QueuedIsEnqueued` (1.0 million) |
| `api_safe` | `Api_safe` | `ReplayIsOfItsRequest`, `NotRunAgain`, `OneSecretPerRotation`, `KeysStayInTenant` (677 thousand) |
| `webhook_safe` | `Webhook_safe` | `EndsForCause`, `RepeatsForCause`, and `Settles` under fairness, with and without a consumer of the dead letters (972 thousand) |
| `provisioning` | `Provisioning_live` | `TypeOK`, `InstalledIsUsable`, `ClaimedIsComplete`, `TenantIntegrity`, and `BootstrapCompletes` under fairness (470 thousand) |

### 3.1 Bounds, and why they are enough

* **Ledger.** The eight postings are a payment with a fee, a refund the payment alone
  does not cover, one posting for each refusal, and one with more statements than a
  batch holds (`MaxStatements = 10`); they produce every answer of `postInner`. `BatchPostings = 2`
  splits the pending rows over several batches. Two drains (alarm and one RPC) are what
  the code lets overlap, and `MaxLate = 1` batch still under way beside them is enough
  for a batch to arrive after its rows were sent again, acknowledged or deleted.
  `MaxAmount = 9` makes the amount limit a case of its own.
* **Reconciliation.** A legacy row, committed or not, and a live posting in another currency:
  one is posted, the other then refused for good, in either order and in both outbox modes.
  Batches that arrive late are left to `ledger_safe` and to the theorems (`MaxLate = 0`).
  `MaxPendingAttempts = 2`: one attempt that counts and one that exhausts, after INTERNAL
  too.
* **Payments.** The rows of a payment are shared only by handlers of that payment, so
  one payment and two concurrent invocations meet every pair of steps; the run about a
  shared TrxID has two payments. `Announced` has all three kinds of events where the
  gateway is concerned. `MaxRetries` and `MaxRows` allow a delivery, its
  repeat and a requeued copy. `MaxFaults` counts invocations that die.
* **Refunds.** The whole amount and half of it cannot both be refunded, so the two
  requests compete. `MaxAttempts = 1` gives two instances of each refund (the request's
  and a sweep's), `MaxPolls = 1` a poll that gives up, `MaxFaults = 1` a death at any
  place. Several sweeps and more polls are covered by the theorems.
* **Gateways.** Two payments, so that one can present the other's order; two prices, so
  that amounts can differ or agree; the first may be initiated twice; one answer is lost.
  Adapters with equal fields are one case: `Registered` has each once.
* **Devices.** Two requests at a time, one token, a device paired earlier with or without
  a key, and four signed messages: two with one nonce and timestamp, a later one with the
  same nonce and another key, a rotation. `MaxClock = 3` windows let a nonce be purged while
  a handset's clock is off by one. Two deployments (signatures required or not) and two
  policies (audit, and enforced attestation). `Quota = 1` and `MaxOverrides = 2` reach
  the quota.
* **Merchant API.** Three live requests and one of the day before, whose record has
  expired: one may delete it, one store anew, one arrive later. Two merchants with a key
  each and two rows to be made, so that two rotations can both insert.
* **Outbound queues.** `MaxRetries = 1`, a delivery and its repeat; two messages under way
  out of an event, a test, a redelivery and an e-mail; one blocked URL; one death. The log
  works or throws at every write, which includes that it always throws (section 5).
  `DlqBound` has both deployments.
* **Provisioning.** Two merchants, one isolate and one request at a time, one death: the
  second merchant is the wizard's, the bootstrap's or one that was created, and the death
  falls between any two statements. `Adding = {2}` and `MaxExtra = 2` let the second of
  them add a brand with its store, or one gate in a store of its own for any gateway there is.

Interchangeable workers, requests, devices and keys are declared symmetric in safety runs;
liveness runs use no symmetry. Deadlock is not checked where all requests, instances,
messages or programs may be over (`Refunds`, `MobileDevices`, `MerchantApi`,
`WebhookDelivery`, `Provisioning`); elsewhere it is.

### 3.2 Fairness, and what justifies it

* `ReconFairness`: a stored alarm is delivered and its handler ends (the platform's
  alarms are at least once), back-offs pass, the cron comes back, a run that has rows
  goes on. A D1 or an object that is asked again and again answers in the end (strong
  fairness, since failures may come in between). Callers, RPC drains and restarts
  promise nothing.
* `PaymentSettlement!Fairness`: an invocation that began continues unless it dies, the
  queue delivers what it holds, and a gateway repeats an event that settles a payment, with
  or without an id, until it is answered with success. Customers, the cron's expiry and
  devices promise nothing.
* `Refunds!Fairness`: a request that began continues unless it dies, workflow steps
  run, the daily sweep comes, refunds grow old. The gateway promises nothing: it may
  leave a refund pending for ever.
* `WebhookDelivery!Fairness`: the queue delivers what it holds, a handler that is running
  ends one way or the other, and what is past the retention of a dead-letter queue is gone.
  Receivers promise nothing, and nothing is assumed of a dead-letter consumer, since none
  is bound.
* `Provisioning!Fairness`: a program that is not stopped goes on, and every isolate serves
  requests, each of which starts the bootstrap while KV lacks the flag
  (`index.ts:171-187`). Nobody has to use the wizard.

## 4. What is proved

TLAPS checks the following for every value of the constants that satisfies the named
assumptions in the modules: any set of transactions, accounts, intents, workers, refunds,
instances, sweeps, requests, devices and isolates, and any bounds.

**`Ledger_proofs`, the object.** `NoPostingLost` is not inductive alone: that a row may be marked
`synced` depends on what the drain in flight has been told, and that D1 holds only
committed postings depends on what batches carry, those given up on too. `TransitInv` says so: only
committed postings have events or travel, and what a drain marks was applied. The
inductive invariant is

    TypeOK /\ NoOverdraft /\ OneCurrencyBook /\ MirrorNeverAhead /\ TransitInv

with one step per action. From it every step is `OnItsWay`: what was under way to D1 stays so until
it is there, what is new is under way, and what else waits, waits in the registry. `NothingLost`
follows, and so does its counterpart beside the reconciliation. Theorems: `TypeCorrect`,
`NeverOverdrawn`, `CurrencyCorrect`, `NothingLost`, `TransitCorrect`, `MirrorCorrect`,
`AlwaysWoken` and `Refinement`: `Spec` implements `AccountBook` (a committed posting is a
step of the book, all else stutters).

**`Ledger_proofs`, the trial balance.** `TrialBalance` compares sums over the whole journal
(`MapThenSumSet`), so what must be known is that a posting adds to each sum what it adds to the
balances (`CommitBalances`). The library defines such a sum by a choice of a recursive function,
and induction over the set is out of the prover's reach. `Sums` goes round it: that the
function exists, and that taking any element away takes its weight away, are shown by
looking at a smallest set for which they fail (`SumExists`, `SumAdd`). The transactions are
a finite set (`FiniteAssumption`). Theorem: `AlwaysBalanced`.

**`Ledger_proofs`, reconciliation.** Any number of runs beside the ledger. A heal writes what
an old answer claims: `HealsPosted` holds because the answer was true (`AnswerIsTrue`) and
the object forgets nothing (`PostedGrows`); it is about `posted` and `duplicate` only, since
`INTERNAL` is answered before a commit as well as after one. That the ledger survives the
runs' own writes to D1 is `ReconKeepsLedger`. The hard step is a rejection, which takes away
the registry's `pending`, all that a posting of the write-ahead protocol has to rely on.
`RefusalInv` says that what was refused for good is not such a posting, so that only the
attempts can be the reason, and `CountInv` that the attempts a run has read have been made.
Hence `OnlyExhaustedLost`: nothing is lost but a legacy posting whose attempts are used up,
which the code does give up (section 5). Theorems: `ReconTypeCorrect`, `HealsPosted`,
`ReconKeepsLedger`, and, since a run only ever replays or copies (`RunsOnlyCopy`),
`ReconRefinement` and `ReconBalanced`: the composition implements `AccountBook` and its
books balance.

**`PaymentSettlement_proofs`.** A completed row is in the ledger because the invocation
that is about to write it has posted; that it had evidence to post was checked some
steps earlier, on rows other invocations have changed since. `SettlementInv` records
what each invocation knows between any two steps (`JobInv`), that rows are inserted once
(`InsertInv`), where SMS come from (`SmsInv`) and that a TrxID stored with a payment was
submitted for it (`ClaimInv`). The inductive invariant is

    TypeOK /\ CompletedTogether /\ CompletedIsPosted /\ PostedOnEvidence /\ SettlementInv

Theorems: `TypeCorrect`, `RowsCompleteTogether`, `LedgerFirst`, `EvidenceFirst`,
`SettlementCorrect` and, as an action property, `NeverFails`. `EvidenceFirst` is what holds of both
SMS paths: carrier's sender, number and a TrxID submitted for that order. It says nothing of the
currency and the carrier's family, which the checkout does not compare (section 5).

**`Refunds_proofs`.** An instance works with an old record while another settles the
same refund. `FlowInv` says that they agree: how far the request is bounds what may
exist (`RequestInv`), every instance beyond its query has the gateway's word
(`InstanceInv`), and a settled status fits both (`SettledInv`). The inductive invariant is

    TypeOK /\ CompletedIsReversed /\ ReversedIsRefunded /\ FlowInv

Theorems: `TypeCorrect`, `CompletedReversed`, `ReversedRefunded`, `FlowCorrect`. A further one,
`NeverOverRefunded`, is `ReservedWithinCaptured`: the set of refunds that hold money starts
empty and each step adds one at most (`ReservedMoves`), so it is finite although there may be
any number of requests; only the conditional INSERT adds, and it compares the very sum
(`Sums` again).

**`Evidence_proofs`, gateways.** For any payments, prices, orders and lost answers, and any set
of adapters that satisfy `VouchedAssumption`: an adapter that reports success reports no
amount, or one the provider vouches for along with it. TLC evaluates the assumption for
every adapter of the registry, so a new adapter that reports an amount taken from the
callback makes the run fail. `AcceptedIsPaid` is the heart: a callback that passes the checks
of `handleCallback` names an order the provider has taken, of the payment's price. A refund
returns the order a payment was settled by, and two payments may have been settled by one order;
the provider returns it once. The inductive invariant adds `SettledAtPrice` and
`IdIsPending`: a row with a provider's id is still pending, so that no second refund
overwrites it. Theorems: `GatewayTypeCorrect`, `Paid`, `PaidByItsOrder`, `Accounted`.

**`Evidence_proofs`, devices.** For any requests, devices, tokens, nonces and verdicts. Two
arguments carry it. A pairing that passed the conditional UPDATE holds its token alone
(`TokenHeld`), so no second device can come of it, and the facts it is about to store are
those its chain proved (`FactsProved`). For the queue, a nonce that was taken is in the table, or
its message is stale (`NonceHeld`): the age of a stored nonce is tied to the window of the message
it came with, so the purge takes away only nonces whose messages the timestamp check
refuses. Hence nothing is taken twice (`TakenOnce`), and what is queued was taken (`QueueIsTaken`).
Theorems: `DevicesTypeCorrect`, `OneDevice`, `Attestation`, `Enqueued`, `Queued`.
`AttestedByItsPairing` speaks of devices that were paired with a token of the model; what a device
paired before it stored is unknown.

**`WebhookDelivery_proofs`.** `RepeatsForCause` speaks of a message in its queue; that the
cause is known there was decided between the answer and the end of the handler. The
inductive invariant adds `Counted` (deliveries left) and `Remembered` (a message received
has its cause, or the 2xx that will end it). Theorems: `TypeCorrect`, `EndForCause`,
`RepeatForCause`.

**`MerchantApi_proofs`.** For any requests and keys. `KeysInv` adds what a request under way
knows of the key it read some statements ago; `SecretInv` that the key a new secret
replaced is revoked for good, so that the loser of two rotations finds it so. The keys there
are at first are active and replace none (`KeysAssumption`). `ReplayInv` is about the idempotency
records: one is stored only by a request that had its effect, under its own merchant and key
(`RecordIsOfItsKey`); a DELETE by id hits only a record that has expired (`StaleIsExpired`), never
the one that took its place; and as long as a request is covered, the record is there and
live (`CoveredIsLive`). Theorems: `TypeCorrect`, `KeysInTenant`, `OneSecret`, `ReplayedIsOwn`,
`CoveredNotRun`.

**`Provisioning_proofs`.** For any isolates, requests and bounds. Nothing a flag or a claim
promises is checked when it is written: it follows from where in its program the writer
is. `StepsDone` says that what the steps before the present one were for is there, of the
merchant and in the store the program works on; it survives the programs beside it because
no row is ever taken away. `SeedInv` says of a program between the gateway and its gate that the
gateway is the one it inserted. Theorems: `TypeCorrect`, `TenantsApart`, `FlagsAreTrue`,
`ClaimsAreComplete`.

**Only model-checked.** Every invariant of a passing run is proved, and so are the action
property and the refinement. What TLC alone shows is liveness under fairness, which is
out of the prover's reach: `EveryPostingMirrored`, `LegacySettled`, `EverySmsDealtWith`,
`PaidIsSettled`, `NoOrphanRefund`, `Settles`, `BootstrapCompletes`; and the counterexample of section 5,
`OneTrxIdOnePayment`.

## 5. Where the code and its documents disagree

With a run that exhibits it: **one TrxID, two payments** (`payment_onetrx`).
`docs/SECURITY.md:283` promises a compare-and-swap. `checkout.ts:268` selects, and
`payment.ts:487` updates by id without a condition: two orders that pass the SELECT
together are both completed.

Met while modelling, without a run. In the settlement of payments, refunds and postings:

* `payment.ts:415` guards completed rows, but `initiatePayment` sets any row to
  `processing` (`payment.ts:326`) and the pay route asks for no status: a completed payment
  that is initiated again can then be marked failed.
* The event row of a webhook is written first (`webhooks.ts:169`). If the handler dies
  then, each redelivery is a duplicate and the webhook never settles the payment, against
  `docs/POSTING-PROTOCOL.md:47`. `PaidIsSettled` says that nothing but such a death does this.
* An event of another type, without a transaction id that `extractTransactionId` finds, or of an
  unknown transaction is recorded and answered `processed` (`webhooks.ts:201-215`); when the
  payment it is about is known a moment later, its redelivery is a duplicate.
* `refund-reconciliation.ts:228` takes a missing id for a refund that failed at
  initiation; it is missing as well when the answer was lost, and `refund.ts:182-189` fails a
  refund whose answer the adapter took for a refusal. Either way the row is failed, the
  ledger is not reversed although the money went back, and the amount is free to be
  refunded again.
* Stripe's refund names a charge or a payment intent, but a payment settled by webhook
  stores the id of the event.
* `docs/POSTING-PROTOCOL.md:90` has the object refuse a `tx_id` marked rejected;
  `ledger-do.ts:167` asks its own table only, so a caller's retry posts it.
* A legacy posting that is committed, and whose replays answer `INTERNAL` until
  `MAX_PENDING_ATTEMPTS`, ends `rejected` without an audit trail (`reconciliation.ts:109-115`,
  `137-150`), against the heal that `docs/POSTING-PROTOCOL.md:84-86` describes. `GivenUp`
  names this case, and `EveryPostingMirrored` and `OnlyExhaustedLost` except it.
* `docs/POSTING-PROTOCOL.md:92` quarantines a row after five attempts; the transport
  branch (`reconciliation.ts:88-94`) only counts. `LegacySettled` holds because replay
  goes on.
* `docs/SECURITY.md:274-277` has the `trx_id`, the amount and the merchant verified. The checkout
  compares the number of the amount and no currency (`checkout.ts:302`), nor the carrier;
  `handleCallback` compares no currency either (`payment.ts:389-403`), and the consumer only
  one that was extracted (`sms-corroboration.ts:124`). What the cron enqueues again comes without
  store and signature (`cron/handler.ts`): the store is not compared then, and where
  signatures are required the SMS is refused.
* The customer's search for an SMS (`checkout.ts:285`, stored at 353) and the consumer's
  search for an order (`sms-consumer.ts:124`, stored at 152) can pass each other; the order
  then waits until it is submitted again or a person acts.
* No adapter overrides `queryRefundStatus` (`gateways/base.ts:202`): today each poll
  answers pending and each refund with an id ends with a person. `Refunds` allows every
  answer of the interface, that one included.

In the API and on devices:

* Two requests with one idempotency key that both miss the record both run
  (`api.ts:208-211` promises a replay); the middleware calls itself best effort. Its record
  does not name the route (`idempotency.ts:93-97`).
* Of two rotations of one key the loser is answered 409, but its new row stays active
  (`api.ts:505`), against "concurrent rotations can't double-issue" (`api.ts:464-467`). Its
  secret is not handed out.
* `docs/SECURITY.md:215` limits active overrides to 20; count and INSERT are separate
  (`device-policy.ts:334`). Revoking ends only the newest of several.
* `docs/SECURITY.md:172` takes the weaker of the global and the merchant's mode; a global
  "audit" also turns a merchant's "off" into "audit".
* An SMS is lost when the Worker dies between its nonce and the queue: the retry is a
  replay. A failed attestation has used up the token, although its message says to
  initiate pairing again. The attestation level is refused only when it is 0, software
  (`key-attestation.ts:407`), so that an unknown level passes as hardware. A rotated key
  keeps the attestation facts of its predecessor.

In outbound delivery and provisioning:

* No consumer is bound to a dead-letter queue (`wrangler.jsonc:130-152`, the same for
  development and staging; `evidence/live_queues.txt` shows none): `dlq-consumer.ts` never runs, and
  dead letters, those of SMS included, expire unseen, against `docs/WEBHOOKS.md:100-103`.
* The bootstrap writes the manual details and the gate only with the gateway it inserts
  (`bootstrap.ts:130-169`). If it dies in between, or finds a gateway whose maker died there,
  nothing adds them, the flag is set all the same, and the merchant has no gate: "Payment
  Unavailable" (`docs/OPS.md:208-215`). `InstalledIsUsable` excepts this case and shows that it
  is the only one. The wizard writes no manual details at all.
* `logDelivery` names the columns `webhook_id` and `success`, which
  `migrations/0001_initial_schema.sql:430-445` lacks, and omits `direction`, which is NOT
  NULL: the INSERT throws, the catch's own INSERT throws, and the message is dropped after
  one delivery, against `docs/WEBHOOKS.md:99-101`. `POST /webhooks` binds five values to six
  placeholders (`api.ts:553-582`) and always throws.
* The back-off goes by `webhook.attempt`, which no redelivery raises. A 4xx is
  acknowledged, although the document retries anything but 2xx; `max_retries = 3` makes four
  deliveries, not three. Messages under way keep the URL and secret of a deleted hook.
* A claim is read and then deleted (`admin-api.ts:537`): two requests at once both obtain
  the credentials called one-time. `POST /stores/:id/gates` does not ask whose gateway it
  is given (`api.ts:1331-1334`), the admin's route does: a gate may name another merchant's gateway.
* `bootstrapPromise` is per isolate: two isolates, or an isolate and the wizard, can make
  rows twice, two platform merchants included. A `DEFAULT_PAIRING_OTP` that another platform
  merchant holds stops the bootstrap for good; `BootstrapCompletes` excepts it. The wizard
  and `POST /merchants` do not resume after a death.

What a reader might expect of a property and it does not say: `NoPostingLost` and
`PendingHasWakeup` hold of rows that never move, so the progress of rows behind an oversized
posting (`ledger-do.ts:442`) is not shown by any run; `AttestedByItsPairing` is about the level and
what else the row stores, not about the challenge, purpose and curve, which only decide whether
there is a row; `ReplayIsOfItsRequest` is about merchant, key and body, not the route.

## 6. What is not modelled, and why

* The SMS parser, money, crypto and validation libraries, the DER parser: pure functions
  over text and bytes. Their results are nondeterministic choices or constants here.
  Amounts are whole minor units, so rounding and the tolerance of 0.001 in `refund.ts` are
  outside the model.
* The wire formats of the providers and the catalogue of gateways (`catalog.data.ts`).
* Request middleware other than API keys, scopes, device tokens and idempotency: checks of
  one request; the rate limiter's and the velocity limits' KV counters are best effort.
* Heartbeat, token refresh and notifications of devices; gateway credentials, SMS
  templates, PATCH of gates and settings: single statements nothing here depends on.
* Custom hostnames, exchange rates, domain and update checks: remote calls.
* Pages, listings, reports (`verifyAllMerchants`, outbox statistics, trial balance
  routes), OpenAPI, frontend, CLI, phone mock-up: they read or describe.
* `LedgerService.reverse`: nothing calls it. Test-only fault injection in the Durable
  Object, and the mock attestation verifier of `ENVIRONMENT=test`.

## 7. Plan

1. An abstract specification of settlement (a payment is open, paid or closed) that
   `PaymentSettlement` implements, stated and proved step by step as `Refinement` is for the
   ledger.
2. The same for refunds: an amount is reserved, returned or free again.
3. Progress of the outbox behind a posting that no batch can hold.
4. Currency and decimals of amounts, so that what `payment.ts`, `checkout.ts` and `refund.ts` compare
   as numbers can be told from what they should compare.

## 8. Running

From this directory:

    tlc -workers 2 -config Refunds_flow.cfg MCRefunds
    tlapm Refunds_proofs.tla
