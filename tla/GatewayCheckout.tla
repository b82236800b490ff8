-------------------------- MODULE GatewayCheckout --------------------------
(***************************************************************************)
(* Payments of one deployment through one of the gateway adapters: the     *)
(* checkout initiates a payment at the provider, the customer pays there   *)
(* and comes back on the callback URL (or does not), the provider sends    *)
(* its webhook (or does not), and the merchant refunds.  The adapter is    *)
(* any of Adapters (GatewayAdapters.tla says what its fields mean); the    *)
(* provider is external and holds the orders.                              *)
(*                                                                         *)
(* A callback is what the browser carries: the reference of an order, a    *)
(* status, an amount, a trx_id, and whether the provider signed it.  Only  *)
(* what is signed, or what the provider answers when asked, is the         *)
(* provider's word.                                                        *)
(***************************************************************************)
EXTENDS Naturals

CONSTANTS
  Payments,    \* payments (a payment intent and its transaction)
  Prices,      \* amounts in use
  Adapters,    \* the adapters that may serve the payments
  Kinds,       \* the kinds of adapter
  NoOrder,     \* a callback without a reference
  EventId,     \* the id of a webhook event, stored in place of an order
  MaxOrders,   \* orders each payment may open at the provider (initiate retried)
  MaxLost      \* answers of the provider that are lost or errors

\* An adapter that can report success reports no amount, or one that the
\* provider vouches for along with the success.
Vouches(a) ==
  \/ a.needs = "flag" \/ a.ok = "never" \/ a.amount = "none"
  \/ a.ok \in {"answer", "signed"} /\ a.amount \in {"answer", "signed"}
  \/ a.ok = "answer" /\ a.asks = "amount" /\ a.amount = "callback"

ASSUME AdaptersAssumption == Adapters \subseteq Kinds
ASSUME VouchedAssumption == \A a \in Adapters : Vouches(a)
ASSUME PricesAssumption == Prices \subseteq Nat \ {0}
ASSUME BoundsAssumption == MaxOrders \in [Payments -> Nat] /\ MaxLost \in Nat

Orders == UNION {{p} \X (1..MaxOrders[p]) : p \in Payments}

ASSUME ReferencesAssumption == {NoOrder, EventId} \intersect Orders = {}

VARIABLES
  adapter,    \* the adapter of the gateway the payments use
  enabled,    \* its slug is in ENABLED_GATEWAYS of the running deployment
  price,      \* op_payment_intents.amount
  txn,        \* op_transactions.status
  settledBy,  \* op_transactions.gateway_trx_id: an order, EventId or NoOrder
  refund,     \* op_refunds.status of the payment's last refund
  refundId,   \* its gateway_refund_id, as the order the provider returned
  events,     \* op_webhook_events: orders whose event is recorded
  order,      \* the provider's orders
  lost        \* answers lost so far

refundVars == <<refund, refundId>>
gatewayVars == <<adapter, enabled, price, txn, settledBy, refundVars, events, order, lost>>

Opened == {o \in Orders : order[o] # "none"}
PriceOf(o) == price[o[1]]

GatewayInit ==
  /\ adapter \in Adapters
  /\ enabled \in BOOLEAN
  /\ price \in [Payments -> Prices]
  /\ txn = [p \in Payments |-> "pending"]
  /\ settledBy = [p \in Payments |-> NoOrder]
  /\ refund = [p \in Payments |-> "none"]
  /\ refundId = [p \in Payments |-> NoOrder]
  /\ events = {}
  /\ order = [o \in Orders |-> "none"]
  /\ lost = 0

-----------------------------------------------------------------------------
(* initiatePayment: the gate, the adapter, then 'processing'.              *)

\* The order the provider opens next for p.
NextOrder(p, o) ==
  /\ o[1] = p
  /\ order[o] = "none"
  /\ \A n \in 1..(o[2] - 1) : order[<<p, n>>] # "none"

\* assertGatewayEnabled and assertGatewayPorted.
Admitted == enabled /\ adapter.ported

\* The adapter's initiate as the provider sees it: it opens an order or none.
initiate(p) ==
  \/ \E o \in Orders :
       /\ adapter.opens
       /\ NextOrder(p, o)
       /\ order' = [order EXCEPT ![o] = "open"]
  \/ ~adapter.opens /\ UNCHANGED order

initiatePayment(p) ==
  /\ Admitted
  /\ initiate(p)
  /\ txn' = [txn EXCEPT ![p] = "processing"]
  /\ UNCHANGED <<adapter, enabled, price, settledBy, refundVars, events, lost>>

\* The provider opened the order but its answer is lost or unusable: the
\* adapter throws and nothing is written.
InitiateThrows(p) ==
  /\ Admitted
  /\ adapter.opens
  /\ lost < MaxLost
  /\ initiate(p)
  /\ lost' = lost + 1
  /\ UNCHANGED <<adapter, enabled, price, txn, settledBy, refundVars, events>>

\* The customer pays on the provider's page; where the adapter captures, the
\* money moves only on the capture.
Pay(o) ==
  /\ order[o] = "open"
  /\ adapter.page # "none"
  /\ order' = [order EXCEPT ![o] = IF adapter.asks = "capture" THEN "approved" ELSE "paid"]
  /\ UNCHANGED <<adapter, enabled, price, txn, settledBy, refundVars, events, lost>>

-----------------------------------------------------------------------------
(* handleCallback: adapter.verify and what is made of its result.          *)

\* Callbacks a browser may carry to the URL of a payment; a field the adapter
\* does not read is left at one value.
Claims == IF adapter.ok = "callback" THEN BOOLEAN ELSE {TRUE}
Amounts == IF adapter.amount = "callback" \/ adapter.asks = "amount" THEN Prices ELSE {0}
TrxIds == IF adapter.echo = "callback" THEN Payments ELSE {NoOrder}

Callbacks ==
  [ref : Opened \union {NoOrder}, claim : Claims, amount : Amounts, trx : TrxIds,
   signed : {FALSE}]
  \union
  [ref : {o \in Orders : order[o] = "paid"}, claim : {TRUE}, amount : Amounts, trx : TrxIds,
   signed : {TRUE}]

\* The provider's answer to verify's question.
Confirmed(cb) ==
  /\ cb.ref # NoOrder
  /\ CASE adapter.asks = "order"   -> order[cb.ref] = "paid"
       [] adapter.asks = "amount"  -> order[cb.ref] = "paid" /\ cb.amount = PriceOf(cb.ref)
       [] adapter.asks = "capture" -> order[cb.ref] = "approved"
       [] OTHER              -> FALSE

\* verify reads what it needs, or answers failed at once.
Readable(cb) ==
  /\ adapter.needs # "flag"
  /\ adapter.needs = "field" => cb.ref # NoOrder

\* VerifyResult.success.
Success(cb) ==
  /\ Readable(cb)
  /\ CASE adapter.ok = "answer"   -> Confirmed(cb)
       [] adapter.ok = "signed"   -> cb.signed /\ (adapter.asks = "order" => Confirmed(cb))
       [] adapter.ok = "callback" -> cb.claim
       [] OTHER             -> FALSE

\* VerifyResult.amount; 0 stands for null.
Reported(cb) ==
  CASE adapter.amount \in {"answer", "signed"} -> PriceOf(cb.ref)
    [] adapter.amount = "callback"             -> cb.amount
    [] OTHER                             -> 0

\* VerifyResult.trx_id agrees with the transaction's, or is empty.
Bound(p, cb) ==
  CASE adapter.echo \in {"answer", "reference", "signed"} -> cb.ref[1] = p
    [] adapter.echo = "callback"                          -> cb.trx = p
    [] OTHER                                        -> TRUE

\* Mutant of Accepted: a null amount passes.
AcceptsNullAmount(p, cb) ==
  Success(cb) /\ (Reported(cb) \in {0, price[p]}) /\ Bound(p, cb)

\* Mutant of Accepted: the echoed trx_id is not compared.
AcceptsAnyTrxId(p, cb) == Success(cb) /\ Reported(cb) = price[p]

\* handleCallback completes the payment on this callback.
Accepted(p, cb) ==
  /\ Success(cb)
  /\ Reported(cb) = price[p]
  /\ Bound(p, cb)

\* What asking does to the provider's orders: a capture moves the money.
Asked(ref) ==
  order' = IF adapter.asks = "capture" /\ ref # NoOrder /\ order[ref] = "approved"
           THEN [order EXCEPT ![ref] = "paid"] ELSE order

\* The guarded UPDATE to 'failed'.
Fail(p) ==
  txn' = [txn EXCEPT ![p] = IF @ \in {"pending", "processing"} THEN "failed" ELSE @]

completeTransaction(p, ref) ==
  /\ txn' = [txn EXCEPT ![p] = "completed"]
  /\ settledBy' = [settledBy EXCEPT ![p] = ref]

handleCallback(p, cb) ==
  /\ txn[p] # "pending"
  /\ Asked(cb.ref)
  /\ \/ Accepted(p, cb) /\ completeTransaction(p, cb.ref)
     \/ ~Accepted(p, cb) /\ Fail(p) /\ UNCHANGED settledBy
  /\ UNCHANGED <<adapter, enabled, price, refundVars, events, lost>>

\* The provider answers with an error: the callback fails the payment.
CallbackRefused(p) ==
  /\ txn[p] # "pending"
  /\ adapter.asks # "nothing"
  /\ lost < MaxLost
  /\ lost' = lost + 1
  /\ Fail(p)
  /\ UNCHANGED <<adapter, enabled, price, settledBy, refundVars, events, order>>

\* The answer times out after the provider acted on the question: verify
\* throws and nothing is written.
CallbackTimesOut(p, o) ==
  /\ txn[p] # "pending"
  /\ adapter.asks # "nothing"
  /\ lost < MaxLost
  /\ lost' = lost + 1
  /\ Asked(o)
  /\ UNCHANGED <<adapter, enabled, price, txn, settledBy, refundVars, events>>

-----------------------------------------------------------------------------
(* The inbound webhook, refunds and redeployments.                         *)

\* adapter.verifyWebhook of the provider's event for a paid order.
verifyWebhook(o) ==
  /\ adapter.webhook \in {"signed", "token", "provider"}
  /\ order[o] \in {"paid", "returned"}

\* POST /webhook/{gateway}: a verified event is recorded once; it completes
\* the payment when the handler finds its trx_id, under the event's own id.
Webhook(o) ==
  /\ enabled
  /\ order[o] # "none"
  /\ verifyWebhook(o)
  /\ o \notin events
  /\ events' = events \union {o}
  /\ \/ adapter.named /\ completeTransaction(o[1], EventId)
     \/ ~adapter.named /\ UNCHANGED <<txn, settledBy>>
  /\ UNCHANGED <<adapter, enabled, price, refundVars, order, lost>>

\* The provider finds a paid order under the reference that is stored.
Returnable(p) == adapter.refunds /\ settledBy[p] \in Orders /\ order[settledBy[p]] = "paid"

\* The money goes back.
Return(p) == order' = [order EXCEPT ![settledBy[p]] = "returned"]

\* Mutant of refundVerdict: success and an id are made up (as upstream did for
\* gateways without a refund call).
FakedSuccess(p) == settledBy[p]

\* RefundResult, when the answer arrives: the id of the provider's refund;
\* NoOrder if it refuses or the adapter has no refund call.
refundVerdict(p) == IF Returnable(p) THEN settledBy[p] ELSE NoOrder

\* createRefund reserves the whole amount: no other refund is pending.  (What
\* is reserved, in parts and by several requests, is Refunds.tla's.)
Refundable(p) == adapter.ported /\ txn[p] = "completed" /\ refund[p] # "pending"

\* The row stays pending with the provider's id, or fails at once.
createRefund(p) ==
  /\ Refundable(p)
  /\ refundId' = [refundId EXCEPT ![p] = refundVerdict(p)]
  /\ refund' = [refund EXCEPT ![p] = IF refundVerdict(p) = NoOrder THEN "failed" ELSE "pending"]
  /\ \/ Returnable(p) /\ Return(p)
     \/ ~Returnable(p) /\ UNCHANGED order
  /\ UNCHANGED <<adapter, enabled, price, txn, settledBy, events, lost>>

\* The provider may have acted, but its answer is lost or has no id, or the id
\* cannot be stored (the row stays pending without one), or the answer is not
\* the JSON of a success (the adapter reports success false: failed).
RefundUnanswered(p) ==
  /\ Refundable(p)
  /\ adapter.refunds
  /\ lost < MaxLost
  /\ lost' = lost + 1
  /\ \E s \in {"pending", "failed"} : refund' = [refund EXCEPT ![p] = s]
  /\ refundId' = [refundId EXCEPT ![p] = NoOrder]
  /\ \/ Returnable(p) /\ Return(p)
     \/ UNCHANGED order
  /\ UNCHANGED <<adapter, enabled, price, txn, settledBy, events>>

\* The refund's workflow takes a row without an id for one that was never
\* initiated.  (A row with one stays pending: no adapter answers the poll.)
MarkRefundFailed(p) ==
  /\ refund[p] = "pending" /\ refundId[p] = NoOrder
  /\ refund' = [refund EXCEPT ![p] = "failed"]
  /\ UNCHANGED <<adapter, enabled, price, txn, settledBy, refundId, events, order, lost>>

\* A deployment with another ENABLED_GATEWAYS: payments in flight stay.
Redeploy ==
  /\ enabled' = ~enabled
  /\ UNCHANGED <<adapter, price, txn, settledBy, refundVars, events, order, lost>>

GatewayNext ==
  \/ \E p \in Payments :
       \/ initiatePayment(p)
       \/ InitiateThrows(p)
       \/ \E cb \in Callbacks : handleCallback(p, cb)
       \/ \E o \in Opened : CallbackTimesOut(p, o)
       \/ CallbackRefused(p)
       \/ createRefund(p)
       \/ RefundUnanswered(p)
       \/ MarkRefundFailed(p)
  \/ \E o \in Orders : Pay(o) \/ Webhook(o)
  \/ Redeploy

GatewaySpec == GatewayInit /\ [][GatewayNext]_gatewayVars

-----------------------------------------------------------------------------
(* Properties.                                                             *)

\* Types of the rows and of the provider's orders.
GatewayTypeOK ==
  /\ adapter \in Adapters
  /\ enabled \in BOOLEAN
  /\ price \in [Payments -> Prices]
  /\ txn \in [Payments -> {"pending", "processing", "completed", "failed"}]
  /\ settledBy \in [Payments -> Orders \union {EventId, NoOrder}]
  /\ refund \in [Payments -> {"none", "pending", "failed"}]
  /\ refundId \in [Payments -> Orders \union {EventId, NoOrder}]
  /\ events \subseteq Orders
  /\ order \in [Orders -> {"none", "open", "approved", "paid", "returned"}]
  /\ lost \in 0..MaxLost

\* The provider took the money for o.
Taken(o) == order[o] \in {"paid", "returned"}

\* Whatever the adapter, whatever the browser carries and whatever answers
\* are lost: a payment is completed only when the provider has taken the
\* exact amount for some order (handleCallback's mandatory amount check over
\* adapters that trust callback fields or report no amount).
CompletedIsPaid ==
  \A p \in Payments : txn[p] = "completed" =>
    \E o \in Orders : Taken(o) /\ PriceOf(o) = price[p]

\* With an adapter that reports a trx_id the provider vouches for, it is the
\* payment's own order that was paid: the reference of another order, paid
\* or not, completes nothing (EDGE-P0-004).
BoundToItsOrder ==
  \A p \in Payments :
    (txn[p] = "completed" /\ adapter.echo \in {"answer", "reference", "signed"}) =>
      \E o \in Orders : o[1] = p /\ Taken(o)

\* The refunds on record and the money that went back agree, through refused,
\* repeated and unanswered calls and payments that share an order (an adapter
\* that binds nothing): a refund with the provider's id returned the payment's
\* price, no two have the same return, and unless an answer was lost nothing
\* was returned that no refund knows of.
RefundsAccounted ==
  /\ \A p \in Payments : refundId[p] # NoOrder =>
       /\ refundId[p] \in Orders
       /\ order[refundId[p]] = "returned" /\ PriceOf(refundId[p]) = price[p]
  /\ \A p, q \in Payments : refundId[p] = refundId[q] /\ refundId[p] # NoOrder => p = q
  /\ lost = 0 => \A o \in Orders : order[o] = "returned" => \E p \in Payments : refundId[p] = o
=============================================================================
