--------------------------- MODULE Evidence_proofs ---------------------------
(***************************************************************************)
(* The two doors by which evidence of a payment comes in, proved for every *)
(* value of their constants.  The components share no state, so each       *)
(* specification keeps an invariant of its own.                            *)
(*                                                                         *)
(* The provider's word (GatewayCheckout), for any number of payments,      *)
(* orders, prices and lost answers, and every set of adapters that vouch   *)
(* for the amounts they report (VouchedAssumption; TLC evaluates it for    *)
(* the registry).  GatewayInv adds to the properties that the order a      *)
(* payment is settled by has its price, without which a refund might       *)
(* return another amount, and that a refund with an id is still pending,   *)
(* without which a second refund might take its place.                     *)
(*                                                                         *)
(* The SMS of the merchant's handsets (MobileDevices), for any number of   *)
(* requests, tokens, handsets, keys, nonces and messages, any policies,    *)
(* deployments and limits.  DevicesInv adds who holds a used token         *)
(* (TokenHeld), what the facts of a pairing were proved by (FactsProved),  *)
(* that the nonce of a signature that was taken stays on record as long    *)
(* as its timestamp is fresh (NonceHeld), and that signatures are taken    *)
(* once (TakenOnce), of which the queue keeps a part (QueueIsTaken).       *)
(***************************************************************************)
EXTENDS GatewayCheckout, MobileDevices, SequenceTheorems, TLAPS

-----------------------------------------------------------------------------
(* The provider's word                                                     *)

SettledAtPrice == \A p \in Payments : settledBy[p] \in Orders => PriceOf(settledBy[p]) = price[p]

\* The provider's id is on a row that is still pending, so no other refund is
\* asked for.
IdIsPending == \A p \in Payments : refund[p] # "pending" => refundId[p] = NoOrder

GatewayInv ==
  /\ GatewayTypeOK /\ IdIsPending
  /\ CompletedIsPaid /\ BoundToItsOrder /\ RefundsAccounted /\ SettledAtPrice

\* Orders are pairs of a payment and a number.
LEMMA OrderIsOfPayment == \A o \in Orders : o[1] \in Payments
  BY DEF Orders

\* What the provider has taken it has taken, and it returns nothing.
Keeps ==
  /\ \A o \in Orders : Taken(o) => Taken(o)'
  /\ \A o \in Orders : order[o] = "returned" <=> order'[o] = "returned"
  /\ price' = price /\ adapter' = adapter /\ (lost' = 0 => lost = 0)

LEMMA AskedKeeps ==
  ASSUME GatewayTypeOK, NEW ref \in Orders \union {NoOrder}, Asked(ref)
  PROVE  /\ order' \in [Orders -> {"none", "open", "approved", "paid", "returned"}]
         /\ \A o \in Orders : Taken(o) => Taken(o)'
         /\ \A o \in Orders : order[o] = "returned" <=> order'[o] = "returned"
  BY DEF GatewayTypeOK, Asked, Taken

LEMMA InitiateKeeps ==
  ASSUME GatewayTypeOK, NEW p \in Payments, initiate(p)
  PROVE  /\ order' \in [Orders -> {"none", "open", "approved", "paid", "returned"}]
         /\ \A o \in Orders : Taken(o) => Taken(o)'
         /\ \A o \in Orders : order[o] = "returned" <=> order'[o] = "returned"
  BY DEF GatewayTypeOK, initiate, NextOrder, Taken

\* A callback that is accepted names an order the provider has taken, of the
\* price of the payment; with an adapter that binds, of the payment itself.
LEMMA AcceptedIsPaid ==
  ASSUME GatewayTypeOK, NEW p \in Payments, NEW cb \in Callbacks, Accepted(p, cb), Asked(cb.ref)
  PROVE  /\ cb.ref \in Orders
         /\ Taken(cb.ref)'
         /\ PriceOf(cb.ref) = price[p]
         /\ adapter.echo \in {"answer", "reference", "signed"} => cb.ref[1] = p
<1>1. Vouches(adapter) /\ price[p] # 0
  BY VouchedAssumption, PricesAssumption DEF GatewayTypeOK
<1>2. Success(cb) /\ Reported(cb) = price[p] /\ Bound(p, cb)
  BY DEF Accepted
<1>3. /\ cb.ref \in Orders \union {NoOrder}
      /\ cb.signed => cb.ref \in Orders /\ order[cb.ref] = "paid"
  BY DEF Callbacks, Opened
<1>4. adapter.needs # "flag" /\ adapter.ok # "never" /\ adapter.amount # "none"
  BY <1>1, <1>2 DEF Success, Readable, Reported
<1>5. \/ adapter.ok = "answer" /\ Confirmed(cb)
      \/ adapter.ok = "signed" /\ cb.signed
  BY <1>1, <1>2, <1>4 DEF Success, Vouches
<1>6. /\ cb.ref \in Orders
      /\ order[cb.ref] = "paid" \/ (order[cb.ref] = "approved" /\ adapter.asks = "capture")
  BY <1>3, <1>5, ReferencesAssumption DEF Confirmed
<1>7. Taken(cb.ref)'
  BY <1>6, ReferencesAssumption DEF GatewayTypeOK, Taken, Asked
<1>8. PriceOf(cb.ref) = price[p]
  <2>1. CASE adapter.amount \in {"answer", "signed"}
    BY <1>2, <2>1 DEF Reported
  <2>2. CASE adapter.amount = "callback"
    BY <1>1, <1>2, <1>4, <1>5, <2>2 DEF Reported, Vouches, Confirmed
  <2> QED BY <1>1, <1>4, <2>1, <2>2 DEF Vouches
<1>9. adapter.echo \in {"answer", "reference", "signed"} => cb.ref[1] = p
  BY <1>2 DEF Bound
<1> QED BY <1>6, <1>7, <1>8, <1>9

\* A step that completes and refunds nothing keeps the invariant.
LEMMA QuietStep ==
  ASSUME GatewayInv, GatewayTypeOK', IdIsPending', Keeps, settledBy' = settledBy,
         \A p \in Payments : txn'[p] = "completed" => txn[p] = "completed", refundId' = refundId
  PROVE  GatewayInv'
<1>1. CompletedIsPaid'
  BY DEF GatewayInv, Keeps, CompletedIsPaid, PriceOf
<1>2. BoundToItsOrder'
  BY DEF GatewayInv, Keeps, BoundToItsOrder
<1>3. RefundsAccounted'
  BY DEF GatewayInv, Keeps, RefundsAccounted, PriceOf
<1>4. SettledAtPrice'
  BY DEF GatewayInv, Keeps, SettledAtPrice, PriceOf
<1> QED BY <1>1, <1>2, <1>3, <1>4 DEF GatewayInv

\* Completing a payment by an order of its price that the provider has taken,
\* or by the event of an order of its own, keeps it too.
LEMMA CompleteStep ==
  ASSUME GatewayInv, GatewayTypeOK', IdIsPending', Keeps, refundId' = refundId,
         NEW p \in Payments, NEW ref, completeTransaction(p, ref),
         ref \in Orders => PriceOf(ref) = price[p],
         \E o \in Orders : /\ Taken(o)' /\ PriceOf(o) = price[p]
                           /\ adapter.echo \in {"answer", "reference", "signed"} => o[1] = p
  PROVE  GatewayInv'
<1>1. \A q \in Payments : q # p => txn'[q] = txn[q] /\ settledBy'[q] = settledBy[q]
  BY DEF completeTransaction, GatewayInv, GatewayTypeOK
<1>2. settledBy'[p] = ref
  BY DEF completeTransaction, GatewayInv, GatewayTypeOK
<1>3. CompletedIsPaid'
  BY <1>1 DEF GatewayInv, Keeps, CompletedIsPaid, PriceOf
<1>4. BoundToItsOrder'
  BY <1>1 DEF GatewayInv, Keeps, BoundToItsOrder
<1>5. RefundsAccounted'
  BY DEF GatewayInv, Keeps, RefundsAccounted, PriceOf
<1>6. SettledAtPrice'
  BY <1>1, <1>2 DEF GatewayInv, Keeps, SettledAtPrice, PriceOf
<1> QED BY <1>3, <1>4, <1>5, <1>6 DEF GatewayInv

\* The provider returns the order a payment is settled by, or does nothing; the
\* rows of the transactions stay.
Refunding(p) ==
  /\ order' = order \/ (Returnable(p) /\ Return(p))
  /\ UNCHANGED <<adapter, enabled, price, txn, settledBy, events>>
  /\ lost' = lost \/ (lost < MaxLost /\ lost' = lost + 1)

LEMMA RefundingKeeps ==
  ASSUME GatewayInv, NEW p \in Payments, Refunding(p)
  PROVE  /\ order' \in [Orders -> {"none", "open", "approved", "paid", "returned"}]
         /\ \A o \in Orders : order[o] = "returned" => order'[o] = "returned"
         /\ \A o \in Orders : order'[o] = "returned" => order[o] = "returned" \/ o = settledBy[p]
         /\ lost' \in 0..MaxLost /\ (lost' = 0 => lost = 0)
         /\ CompletedIsPaid' /\ BoundToItsOrder' /\ SettledAtPrice'
<1>1. GatewayTypeOK
  BY DEF GatewayInv
<1>2. /\ order' \in [Orders -> {"none", "open", "approved", "paid", "returned"}]
      /\ \A o \in Orders : order[o] = "returned" => order'[o] = "returned"
      /\ \A o \in Orders : order'[o] = "returned" => order[o] = "returned" \/ o = settledBy[p]
      /\ \A o \in Orders : Taken(o) => Taken(o)'
  BY <1>1 DEF Refunding, Returnable, Return, GatewayTypeOK, Taken
<1>3. lost' \in 0..MaxLost /\ (lost' = 0 => lost = 0)
  BY <1>1, BoundsAssumption DEF Refunding, GatewayTypeOK
<1>4. CompletedIsPaid' /\ BoundToItsOrder' /\ SettledAtPrice'
  BY <1>2
  DEF Refunding, GatewayInv, CompletedIsPaid, BoundToItsOrder, SettledAtPrice, PriceOf
<1> QED BY <1>2, <1>3, <1>4

\* An answered refund: the order it returned was not returned before, so no
\* other refund has it, and the payment had no refund with an id to forget.
LEMMA Refunded ==
  ASSUME GatewayInv, NEW p \in Payments, createRefund(p) PROVE GatewayInv'
<1>1. GatewayTypeOK /\ RefundsAccounted /\ SettledAtPrice /\ IdIsPending
  BY DEF GatewayInv
<1>2. Refunding(p)
  BY DEF createRefund, Refunding
<1>3. GatewayTypeOK' /\ IdIsPending'
  BY <1>1, <1>2, RefundingKeeps
  DEF createRefund, refundVerdict, Refunding, GatewayTypeOK, IdIsPending
<1>4. refundId[p] = NoOrder
  BY <1>1 DEF createRefund, Refundable, IdIsPending
<1>5. CASE Returnable(p)
  <2>1. /\ settledBy[p] \in Orders /\ order[settledBy[p]] = "paid"
        /\ order'[settledBy[p]] = "returned" /\ price' = price
        /\ PriceOf(settledBy[p]) = price[p]
    BY <1>1, <1>5 DEF createRefund, Returnable, Return, GatewayTypeOK, SettledAtPrice
  <2>2. /\ refundId'[p] = settledBy[p] /\ settledBy[p] # NoOrder
        /\ \A q \in Payments : q # p => refundId'[q] = refundId[q]
    BY <1>1, <1>5, <2>1, ReferencesAssumption DEF createRefund, refundVerdict, GatewayTypeOK
  <2>3. \A q \in Payments : refundId[q] # settledBy[p]
    BY <1>1, <2>1, <2>2 DEF RefundsAccounted
  <2>4. \A q \in Payments : refundId'[q] # NoOrder =>
          /\ refundId'[q] \in Orders
          /\ order'[refundId'[q]] = "returned" /\ price'[refundId'[q][1]] = price'[q]
    BY <1>1, <1>2, <2>1, <2>2, RefundingKeeps DEF RefundsAccounted, PriceOf
  <2>5. \A q, r \in Payments : refundId'[q] = refundId'[r] /\ refundId'[q] # NoOrder => q = r
    BY <1>1, <2>2, <2>3 DEF RefundsAccounted
  <2>6. lost' = 0 => \A o \in Orders : order'[o] = "returned" =>
                       \E q \in Payments : refundId'[q] = o
    BY <1>1, <1>2, <1>4, <2>2, RefundingKeeps, ReferencesAssumption DEF RefundsAccounted
  <2>7. RefundsAccounted'
    BY <2>4, <2>5, <2>6 DEF RefundsAccounted, PriceOf
  <2> QED BY <1>2, <1>3, <2>7, RefundingKeeps DEF GatewayInv
<1>6. CASE ~Returnable(p)
  <2>1. refundId' = refundId /\ order' = order /\ price' = price /\ lost' = lost
    BY <1>1, <1>4, <1>6 DEF createRefund, refundVerdict, GatewayTypeOK
  <2>2. RefundsAccounted'
    BY <1>1, <2>1 DEF RefundsAccounted, PriceOf
  <2> QED BY <1>2, <1>3, <2>2, RefundingKeeps DEF GatewayInv
<1> QED BY <1>5, <1>6

\* An unanswered one leaves no id, and the loss is counted.
LEMMA Unanswered ==
  ASSUME GatewayInv, NEW p \in Payments, RefundUnanswered(p) PROVE GatewayInv'
<1>1. GatewayTypeOK /\ RefundsAccounted /\ IdIsPending
  BY DEF GatewayInv
<1>2. Refunding(p)
  BY DEF RefundUnanswered, Refunding
<1>3. refundId[p] = NoOrder
  BY <1>1 DEF RefundUnanswered, Refundable, IdIsPending
<1>4. refundId' = refundId /\ price' = price /\ lost' # 0
  BY <1>1, <1>3 DEF RefundUnanswered, GatewayTypeOK
<1>5. GatewayTypeOK' /\ IdIsPending'
  BY <1>1, <1>2, <1>3, <1>4, RefundingKeeps
  DEF RefundUnanswered, Refunding, GatewayTypeOK, IdIsPending
<1>6. RefundsAccounted'
  BY <1>1, <1>2, <1>4, RefundingKeeps DEF RefundsAccounted, PriceOf
<1> QED BY <1>2, <1>5, <1>6, RefundingKeeps DEF GatewayInv

LEMMA Abandoned ==
  ASSUME GatewayInv, NEW p \in Payments, MarkRefundFailed(p) PROVE GatewayInv'
<1>1. GatewayTypeOK /\ IdIsPending
  BY DEF GatewayInv
<1>2. GatewayTypeOK' /\ IdIsPending' /\ Keeps /\ refundId' = refundId
  BY <1>1 DEF MarkRefundFailed, GatewayTypeOK, IdIsPending, Keeps, Taken
<1> QED BY <1>2, QuietStep DEF MarkRefundFailed

LEMMA GatewayInvInit == GatewayInit => GatewayInv
  BY ReferencesAssumption, BoundsAssumption
  DEF GatewayInit, GatewayInv, GatewayTypeOK, IdIsPending, CompletedIsPaid, BoundToItsOrder,
      RefundsAccounted, SettledAtPrice

LEMMA GatewayInvStep == GatewayInv /\ [GatewayNext]_gatewayVars => GatewayInv'
<1> SUFFICES ASSUME GatewayInv, [GatewayNext]_gatewayVars PROVE GatewayInv'
  OBVIOUS
<1>1. GatewayTypeOK /\ IdIsPending
  BY DEF GatewayInv
<1>2. ASSUME NEW p \in Payments, initiatePayment(p) PROVE GatewayInv'
  <2>1. GatewayTypeOK' /\ IdIsPending' /\ Keeps
    BY <1>1, <1>2, InitiateKeeps DEF initiatePayment, GatewayTypeOK, refundVars, IdIsPending, Keeps
  <2> QED BY <1>1, <1>2, <2>1, QuietStep DEF initiatePayment, GatewayTypeOK, refundVars, IdIsPending
<1>3. ASSUME NEW p \in Payments, InitiateThrows(p) PROVE GatewayInv'
  <2>1. GatewayTypeOK' /\ IdIsPending' /\ Keeps
    BY <1>1, <1>3, InitiateKeeps, BoundsAssumption DEF InitiateThrows, GatewayTypeOK, refundVars, IdIsPending, Keeps
  <2> QED BY <1>3, <2>1, QuietStep DEF InitiateThrows, refundVars
<1>4. ASSUME NEW p \in Payments, NEW cb \in Callbacks, handleCallback(p, cb) PROVE GatewayInv'
  <2>1. cb.ref \in Orders \union {NoOrder}
    BY DEF Callbacks, Opened
  <2>2. Asked(cb.ref) /\ refundId' = refundId
    BY <1>4 DEF handleCallback, refundVars
  <2>3. Keeps
    BY <1>1, <1>4, <2>1, <2>2, AskedKeeps DEF handleCallback, Keeps
  <2>4. CASE Accepted(p, cb) /\ completeTransaction(p, cb.ref)
    <3>1. /\ cb.ref \in Orders /\ Taken(cb.ref)' /\ PriceOf(cb.ref) = price[p]
          /\ adapter.echo \in {"answer", "reference", "signed"} => cb.ref[1] = p
      BY <1>1, <2>2, <2>4, AcceptedIsPaid
    <3>2. GatewayTypeOK' /\ IdIsPending'
      BY <1>1, <1>4, <2>1, <2>2, <2>4, AskedKeeps
      DEF handleCallback, completeTransaction, GatewayTypeOK, refundVars, IdIsPending
    <3> QED BY <2>2, <2>3, <2>4, <3>1, <3>2, CompleteStep
  <2>5. CASE Fail(p) /\ UNCHANGED settledBy
    <3>1. GatewayTypeOK' /\ IdIsPending'
      BY <1>1, <1>4, <2>1, <2>2, <2>5, AskedKeeps DEF handleCallback, Fail, GatewayTypeOK, refundVars, IdIsPending
    <3> QED BY <1>1, <2>2, <2>3, <2>5, <3>1, QuietStep DEF Fail, GatewayTypeOK, refundVars, IdIsPending
  <2> QED BY <1>4, <2>4, <2>5 DEF handleCallback
<1>5. ASSUME NEW p \in Payments, CallbackRefused(p) PROVE GatewayInv'
  <2>1. GatewayTypeOK' /\ IdIsPending' /\ Keeps
    BY <1>1, <1>5, BoundsAssumption DEF CallbackRefused, Fail, GatewayTypeOK, refundVars, IdIsPending, Keeps, Taken
  <2> QED BY <1>1, <1>5, <2>1, QuietStep DEF CallbackRefused, Fail, GatewayTypeOK, refundVars, IdIsPending
<1>6. ASSUME NEW p \in Payments, NEW o \in Opened, CallbackTimesOut(p, o) PROVE GatewayInv'
  <2>1. o \in Orders \union {NoOrder} /\ Asked(o)
    BY <1>6 DEF Opened, CallbackTimesOut
  <2>2. GatewayTypeOK' /\ IdIsPending' /\ Keeps
    BY <1>1, <1>6, <2>1, AskedKeeps, BoundsAssumption DEF CallbackTimesOut, GatewayTypeOK, refundVars, IdIsPending, Keeps
  <2> QED BY <1>6, <2>2, QuietStep DEF CallbackTimesOut, refundVars
<1>7. ASSUME NEW p \in Payments,
             createRefund(p) \/ RefundUnanswered(p) \/ MarkRefundFailed(p)
      PROVE  GatewayInv'
  BY <1>7, Refunded, Unanswered, Abandoned
<1>8. ASSUME NEW o \in Orders, Pay(o) PROVE GatewayInv'
  <2>1. GatewayTypeOK' /\ IdIsPending' /\ Keeps
    BY <1>1, <1>8 DEF Pay, GatewayTypeOK, refundVars, IdIsPending, Keeps, Taken
  <2> QED BY <1>8, <2>1, QuietStep DEF Pay, refundVars
<1>9. ASSUME NEW o \in Orders, Webhook(o) PROVE GatewayInv'
  <2>1. o[1] \in Payments
    BY OrderIsOfPayment
  <2>2. GatewayTypeOK' /\ IdIsPending' /\ Keeps
    BY <1>1, <1>9, <2>1 DEF Webhook, completeTransaction, GatewayTypeOK, refundVars, IdIsPending, Keeps, Taken
  <2>3. CASE completeTransaction(o[1], EventId)
    <3>1. Taken(o)' /\ PriceOf(o) = price[o[1]] /\ refundId' = refundId
      BY <1>9 DEF Webhook, refundVars, verifyWebhook, Taken, PriceOf
    <3>2. EventId \notin Orders
      BY ReferencesAssumption
    <3> QED BY <2>1, <2>2, <2>3, <3>1, <3>2, CompleteStep
  <2>4. CASE UNCHANGED <<txn, settledBy>>
    BY <1>9, <2>2, <2>4, QuietStep DEF Webhook, refundVars
  <2> QED BY <1>9, <2>3, <2>4 DEF Webhook
<1>10. CASE Redeploy
  <2>1. GatewayTypeOK' /\ IdIsPending' /\ Keeps
    BY <1>1, <1>10 DEF Redeploy, GatewayTypeOK, refundVars, IdIsPending, Keeps, Taken
  <2> QED BY <1>10, <2>1, QuietStep DEF Redeploy, refundVars
<1>11. CASE UNCHANGED gatewayVars
  <2>1. GatewayTypeOK' /\ IdIsPending' /\ Keeps
    BY <1>1, <1>11 DEF gatewayVars, GatewayTypeOK, refundVars, IdIsPending, Keeps, Taken
  <2> QED BY <1>11, <2>1, QuietStep DEF gatewayVars, refundVars
<1> QED BY <1>2, <1>3, <1>4, <1>5, <1>6, <1>7, <1>8, <1>9, <1>10, <1>11 DEF GatewayNext

\* The invariant of initiatePayment, handleCallback, the webhook handler and the
\* refund through any adapter.
THEOREM GatewayInvCorrect == GatewaySpec => []GatewayInv
  BY GatewayInvInit, GatewayInvStep, PTL DEF GatewaySpec

\* Rows and orders keep their types.
THEOREM GatewayTypeCorrect == GatewaySpec => []GatewayTypeOK
<1>1. GatewayInv => GatewayTypeOK
  BY DEF GatewayInv
<1> QED BY <1>1, GatewayInvCorrect, PTL

\* A completed payment was paid its exact amount at the provider, whatever the
\* browser carried to the callback (handleCallback's amount check).
THEOREM Paid == GatewaySpec => []CompletedIsPaid
<1>1. GatewayInv => CompletedIsPaid
  BY DEF GatewayInv
<1> QED BY <1>1, GatewayInvCorrect, PTL

\* Through an adapter that reports a vouched trx_id, by its own order
\* (handleCallback's comparison of trx_id).
THEOREM PaidByItsOrder == GatewaySpec => []BoundToItsOrder
<1>1. GatewayInv => BoundToItsOrder
  BY DEF GatewayInv
<1> QED BY <1>1, GatewayInvCorrect, PTL

\* A refund with the provider's id returned the payment's price, once, and unless
\* an answer was lost the provider returned nothing else (createRefund, and the
\* workflow that fails a row without an id).
THEOREM Accounted == GatewaySpec => []RefundsAccounted
<1>1. GatewayInv => RefundsAccounted
  BY DEF GatewayInv
<1> QED BY <1>1, GatewayInvCorrect, PTL
-----------------------------------------------------------------------------
(* The merchant's handsets                                                 *)

\* A request, whatever it is at.
RequestRows ==
  [pc: Pcs, otp: Otps \union {NoOtp}, body: Handsets \union {NoOtp},
   facts: Facts(Keys) \union {NoOtp}, dev: Devices \union {NoDevice}, todo: Seq(Messages),
   checked: Messages \union {NoMessage}, accepted: SUBSET Messages, row: Nat]

\* Past PairClaim, before the end.
Holding == {"attest", "policy", "insert"}

\* What a request has read by the time it is at its pc.
RequestOK(q) ==
  /\ q.pc \in {"challenge", "attempt", "claim"} \union Holding =>
       q.otp \in Otps /\ q.accepted = {}
  /\ q.pc = "attempt" => q.row < OTP_MAX_ATTEMPTS
  /\ q.pc \in {"claim"} \union Holding => q.body \in Handsets
  /\ q.pc \in {"policy", "insert"} => q.facts \in Facts(Keys)
  /\ q.pc \in {"override", "check", "nonce"} =>
       q.dev \in Devices /\ Exists(q.dev) /\ q.facts \in Facts(Keys)
  /\ q.pc = "nonce" => /\ q.checked \in Messages /\ q.checked.dev = q.dev
                       /\ q.facts.key # NoKey
                       /\ Fresh(q.checked)
                       /\ \A m \in q.accepted : m.nonce # q.checked.nonce
  /\ q.pc \in {"quota", "grant"} => q.dev \in Devices
  /\ q.pc = "revoke" => q.row \in DOMAIN override

RequestsOK == req \in [Requests -> RequestRows] /\ \A r \in Requests : RequestOK(req[r])

\* The messages a request has taken on their signatures.
SignedOf(q) == {m \in q.accepted : q.facts.key # NoKey}
Signatures(r) == SignedOf(req[r])

\* The nonce of each of them is on record as long as its timestamp is fresh:
\* it was stored while it was, and the purge waits longer.
NonceHeld ==
  \A r \in Requests : \A m \in Signatures(r) :
    \/ \E x \in nonces : x.dev = m.dev /\ x.nonce = m.nonce /\ m.ts <= x.at + 1
    \/ m.ts + 1 < clock

Same(m, n) == m.dev = n.dev /\ m.nonce = n.nonce /\ m.ts = n.ts

\* No two requests take one on the same nonce and timestamp, nor one request
\* two.
TakenOnce ==
  \A r, s \in Requests : \A m \in Signatures(r), n \in Signatures(s) :
    Same(m, n) => r = s /\ m = n

\* The queue holds what requests that have ended took.
QueueIsTaken ==
  \A q \in queue : /\ req[q.req].pc \in {"queued", "failed"}
                   /\ q.msg \in req[q.req].accepted
                   /\ q.verified = (req[q.req].facts.key # NoKey)

\* One request holds a token that is used, or one device stems from it.
TokenHeld ==
  /\ \A r \in Requests : req[r].pc \in Holding => otp[req[r].otp]
  /\ \A r, s \in Requests :
       req[r].pc \in Holding /\ req[s].pc \in Holding /\ req[r].otp = req[s].otp => r = s
  /\ \A d \in Devices : Exists(d) /\ device[d].by # NoOtp =>
       /\ otp[device[d].by]
       /\ \A r \in Requests : req[r].pc \in Holding => req[r].otp # device[d].by

\* What a chain has to be for the row to say what it says.
Proves(chain, facts) ==
  /\ chain # NoChain
  /\ chain.root = "google" /\ chain.level # "software"
  /\ <<"origin", "generated">> \in chain.tee
  /\ facts.strong => chain.level = "strongbox"
  /\ ~facts.boot => env.allowUnverifiedBoot

\* The request that used up the token of d proved what its row says.
AttestedRow(d) ==
  \E r \in Requests : /\ req[r].pc = "done" /\ req[r].otp = device[d].by
                      /\ req[r].body \in Handsets
                      /\ Proves(req[r].body.chain, device[d].facts)

FactsProved ==
  /\ \A r \in Requests :
       req[r].pc \in {"policy", "insert"} /\ req[r].facts.verified # "none" =>
         Proves(req[r].body.chain, req[r].facts)
  /\ \A d \in Devices : Exists(d) /\ device[d].by # NoOtp /\ device[d].facts.verified # "none" =>
       AttestedRow(d)

SignatureInv == NonceHeld /\ TakenOnce /\ QueueIsTaken /\ QueuedIsEnqueued
PairingInv == TokenHeld /\ OneDevicePerOtp /\ FactsProved
DevicesInv == TypeOK /\ RequestsOK /\ SignatureInv /\ PairingInv

-----------------------------------------------------------------------------
(* Steps that leave signatures or pairings alone                           *)

\* Devices stay paired, override rows stay, the clock stands.
Remains ==
  /\ clock' = clock
  /\ \A d \in Devices : Exists(d) => Exists(d)'
  /\ DOMAIN override \subseteq DOMAIN override'

\* A request changes, to row.
LEMMA Replaces ==
  ASSUME RequestsOK, Remains, NEW r \in Requests, NEW row \in RequestRows,
         req' = [req EXCEPT ![r] = row], RequestOK(row)'
  PROVE  RequestsOK' /\ req'[r] = row /\ \A s \in Requests : s # r => req'[s] = req[s]
<1>1. /\ req'[r] = row /\ req' \in [Requests -> RequestRows]
      /\ \A s \in Requests : s # r => req'[s] = req[s]
  BY DEF RequestsOK
<1>2. ASSUME NEW s \in Requests PROVE RequestOK(req[s])'
  <2>1. CASE s = r
    BY <1>1, <2>1 DEF RequestOK, Exists, Fresh
  <2>2. CASE s # r
    BY <1>1, <2>2 DEF RequestsOK, RequestOK, Remains, Exists, Fresh
  <2> QED BY <2>1, <2>2
<1> QED BY <1>1, <1>2 DEF RequestsOK

\* No request changes.
LEMMA NoneReplaced ==
  ASSUME RequestsOK, Remains, req' = req PROVE RequestsOK'
BY DEF RequestsOK, RequestOK, Remains, Exists, Fresh

\* Nothing is taken, queued or forgotten.
QuietSignatures ==
  /\ nonces' = nonces /\ clock' = clock /\ queue' = queue
  /\ \A s \in Requests : /\ Signatures(s)' \subseteq Signatures(s)
                         /\ req[s].pc \in {"queued", "failed"} => req'[s] = req[s]
                         /\ req'[s].pc = "queued" => req'[s] = req[s]

LEMMA SignaturesStay ==
  ASSUME TypeOK, SignatureInv, QuietSignatures PROVE SignatureInv'
<1>1. NonceHeld'
  BY DEF SignatureInv, QuietSignatures, NonceHeld
<1>2. TakenOnce'
  BY DEF SignatureInv, QuietSignatures, TakenOnce
<1>3. QueueIsTaken'
  BY DEF SignatureInv, QuietSignatures, QueueIsTaken, TypeOK
<1>4. QueuedIsEnqueued'
  BY DEF SignatureInv, QuietSignatures, QueuedIsEnqueued, At
<1> QED BY <1>1, <1>2, <1>3, <1>4 DEF SignatureInv

\* No token is used, no handset paired, no fact found.
QuietPairings ==
  /\ otp' = otp /\ env' = env
  /\ \A s \in Requests :
       /\ req'[s].pc \in Holding => req[s].pc \in Holding /\ req'[s].otp = req[s].otp
       /\ req'[s].pc \in {"policy", "insert"} =>
            /\ req[s].pc \in {"policy", "insert"}
            /\ req'[s].body = req[s].body /\ req'[s].facts = req[s].facts
       /\ req[s].pc = "done" => req'[s] = req[s]
  /\ \A d \in Devices : Exists(d)' =>
       /\ Exists(d) /\ device'[d].by = device[d].by
       /\ device'[d].facts.verified # "none" => device[d].facts.verified # "none"
       /\ device'[d].facts.strong = device[d].facts.strong
       /\ device'[d].facts.boot = device[d].facts.boot

\* An attested row stays one.
LEMMA AttestedStays ==
  ASSUME NEW d \in Devices, AttestedRow(d), env' = env, device'[d].by = device[d].by,
         device'[d].facts.strong = device[d].facts.strong,
         device'[d].facts.boot = device[d].facts.boot,
         \A s \in Requests : req[s].pc = "done" => req'[s] = req[s]
  PROVE  AttestedRow(d)'
<1>1. PICK s \in Requests : /\ req[s].pc = "done" /\ req[s].otp = device[d].by
                            /\ req[s].body \in Handsets
                            /\ Proves(req[s].body.chain, device[d].facts)
  BY DEF AttestedRow
<1>2. req'[s] = req[s] /\ Proves(req[s].body.chain, device[d].facts)'
  BY <1>1 DEF Proves
<1> QED BY <1>1, <1>2 DEF AttestedRow

LEMMA PairingsStay ==
  ASSUME PairingInv, QuietPairings PROVE PairingInv'
<1>1. TokenHeld'
  BY DEF PairingInv, QuietPairings, TokenHeld
<1>2. OneDevicePerOtp'
  BY DEF PairingInv, QuietPairings, OneDevicePerOtp
<1>3. FactsProved'
  <2>1. ASSUME NEW s \in Requests, req'[s].pc \in {"policy", "insert"},
               req'[s].facts.verified # "none"
        PROVE  Proves(req[s].body.chain, req[s].facts)'
    BY <2>1 DEF PairingInv, QuietPairings, FactsProved, Proves
  <2>2. ASSUME NEW d \in Devices, Exists(d)', device'[d].by # NoOtp,
               device'[d].facts.verified # "none"
        PROVE  AttestedRow(d)'
    BY <2>2, AttestedStays DEF PairingInv, QuietPairings, FactsProved
  <2> QED BY <2>1, <2>2 DEF FactsProved
<1> QED BY <1>1, <1>2, <1>3 DEF PairingInv

-----------------------------------------------------------------------------
(* Steps of one request                                                    *)

\* Of a request that goes on to pc, only that changes.
LEMMA GotoRow ==
  ASSUME RequestsOK, NEW r \in Requests, NEW pc \in Pcs, Goto(r, pc)
  PROVE  \E row \in RequestRows :
           /\ req' = [req EXCEPT ![r] = row]
           /\ row.pc = pc /\ row.otp = req[r].otp /\ row.body = req[r].body
           /\ row.facts = req[r].facts /\ row.dev = req[r].dev /\ row.row = req[r].row
           /\ row.accepted = req[r].accepted
<1>1. PICK row : row = [req[r] EXCEPT !.pc = pc]
  OBVIOUS
<1>2. req[r] \in RequestRows /\ req' = [req EXCEPT ![r] = row]
  BY <1>1 DEF RequestsOK, Goto
<1>3. row \in RequestRows /\ row.pc = pc /\ row.otp = req[r].otp /\ row.body = req[r].body
  BY <1>1, <1>2 DEF RequestRows
<1>4. row.facts = req[r].facts /\ row.dev = req[r].dev /\ row.row = req[r].row
  BY <1>1, <1>2 DEF RequestRows
<1>5. row.accepted = req[r].accepted
  BY <1>1, <1>2 DEF RequestRows
<1> QED BY <1>2, <1>3, <1>4, <1>5

\* An ending, a look-up or a count that lets the request go on.
Passable == {<<"override", "check">>, <<"policy", "insert">>, <<"quota", "grant">>}

LEMMA Goes ==
  ASSUME DevicesInv, Remains, NEW r \in Requests, NEW pc \in Pcs, Goto(r, pc),
         req[r].pc \notin {"idle", "done", "failed", "queued"},
         pc \in {"done", "failed"} \/ <<req[r].pc, pc>> \in Passable
  PROVE  /\ RequestsOK'
         /\ (UNCHANGED <<nonces, queue>> => QuietSignatures)
         /\ (UNCHANGED <<otp, env, device>> => QuietPairings)
         /\ \A s \in Requests : req'[s].pc \in Pcs
<1>0. PICK row \in RequestRows :
        /\ req' = [req EXCEPT ![r] = row]
        /\ row.pc = pc /\ row.otp = req[r].otp /\ row.body = req[r].body
        /\ row.facts = req[r].facts /\ row.dev = req[r].dev /\ row.row = req[r].row
        /\ row.accepted = req[r].accepted
  BY GotoRow DEF DevicesInv
<1>1. RequestOK(req[r])
  BY DEF DevicesInv, RequestsOK
<1>2. /\ <<req[r].pc, pc>> \in Passable => \/ req[r].pc = "override" /\ pc = "check"
                                           \/ req[r].pc = "policy" /\ pc = "insert"
                                           \/ req[r].pc = "quota" /\ pc = "grant"
      /\ <<req[r].pc, pc>> \in Passable => pc \in {"check", "insert", "grant"}
  BY DEF Passable
<1>3. RequestOK(row)'
  BY <1>0, <1>1, <1>2 DEF RequestOK, Remains, Holding, Exists
<1>4. RequestsOK' /\ req'[r] = row /\ \A s \in Requests : s # r => req'[s] = req[s]
  BY <1>0, <1>3, Replaces DEF DevicesInv
<1>5. ASSUME UNCHANGED <<nonces, queue>> PROVE QuietSignatures
  <2>1. Signatures(r)' = Signatures(r)
    BY <1>0, <1>4 DEF Signatures, SignedOf
  <2>2. ASSUME NEW s \in Requests
        PROVE  /\ Signatures(s)' \subseteq Signatures(s)
               /\ req[s].pc \in {"queued", "failed"} => req'[s] = req[s]
               /\ req'[s].pc = "queued" => req'[s] = req[s]
    BY <1>0, <1>2, <1>4, <2>1 DEF Signatures
  <2> QED BY <1>5, <2>2 DEF QuietSignatures, Remains
<1>6. ASSUME UNCHANGED <<otp, env, device>> PROVE QuietPairings
  <2>1. ASSUME NEW s \in Requests
        PROVE  /\ req'[s].pc \in Holding => req[s].pc \in Holding /\ req'[s].otp = req[s].otp
               /\ req'[s].pc \in {"policy", "insert"} =>
                    /\ req[s].pc \in {"policy", "insert"}
                    /\ req'[s].body = req[s].body /\ req'[s].facts = req[s].facts
               /\ req[s].pc = "done" => req'[s] = req[s]
    BY <1>0, <1>2, <1>4 DEF Holding
  <2> QED BY <1>6, <2>1 DEF QuietPairings, Exists
<1>7. \A s \in Requests : req'[s].pc \in Pcs
  BY <1>4 DEF RequestsOK, RequestRows
<1> QED BY <1>4, <1>5, <1>6, <1>7

\* A request starts with fields, or is forgotten and starts over.
LEMMA Starts ==
  ASSUME DevicesInv, Remains, NEW r \in Requests, NEW row \in RequestRows,
         req' = [req EXCEPT ![r] = row], req[r].pc \in {"idle", "challenge"},
         row.accepted = {}, row.pc \notin Holding \union {"queued"}, RequestOK(row)',
         UNCHANGED <<otp, env, device, nonces, queue>>
  PROVE  RequestsOK' /\ QuietSignatures /\ QuietPairings /\ \A s \in Requests : req'[s].pc \in Pcs
<1>1. RequestsOK' /\ req'[r] = row /\ \A s \in Requests : s # r => req'[s] = req[s]
  BY Replaces DEF DevicesInv
<1>2. ASSUME NEW s \in Requests
      PROVE  /\ Signatures(s)' \subseteq Signatures(s)
             /\ req[s].pc \in {"queued", "failed"} => req'[s] = req[s]
             /\ req'[s].pc = "queued" => req'[s] = req[s]
  BY <1>1 DEF Signatures, SignedOf
<1>3. QuietSignatures
  BY <1>2 DEF QuietSignatures, Remains
<1>4. ASSUME NEW s \in Requests
      PROVE  /\ req'[s].pc \in Holding => req[s].pc \in Holding /\ req'[s].otp = req[s].otp
             /\ req'[s].pc \in {"policy", "insert"} =>
                  /\ req[s].pc \in {"policy", "insert"}
                  /\ req'[s].body = req[s].body /\ req'[s].facts = req[s].facts
             /\ req[s].pc = "done" => req'[s] = req[s]
  BY <1>1 DEF Holding
<1>5. QuietPairings
  BY <1>4 DEF QuietPairings, Exists
<1>6. \A s \in Requests : req'[s].pc \in Pcs
  BY <1>1 DEF RequestsOK, RequestRows
<1> QED BY <1>1, <1>3, <1>5, <1>6

-----------------------------------------------------------------------------
(* Pairing                                                                 *)

LEMMA Quiet ==
  ASSUME DevicesInv, TypeOK', RequestsOK', QuietSignatures, QuietPairings PROVE DevicesInv'
BY SignaturesStay, PairingsStay DEF DevicesInv

\* A request that starts leaves the rest of the state.
LEMMA StartsOnly ==
  ASSUME DevicesInv, NEW r \in Requests, NEW row \in RequestRows, Start(r, row),
         row.accepted = {}, row.pc \notin Holding \union {"queued"}, RequestOK(row)',
         UNCHANGED <<world, pairingVars, device, nonces, override, queue>>
  PROVE  DevicesInv'
<1>1. Remains /\ req' = [req EXCEPT ![r] = row] /\ req[r].pc = "idle"
  BY DEF Remains, Start, world, Exists
<1>2. RequestsOK' /\ QuietSignatures /\ QuietPairings /\ \A s \in Requests : req'[s].pc \in Pcs
  BY <1>1, Starts DEF pairingVars, world
<1>3. TypeOK'
  BY <1>2 DEF DevicesInv, TypeOK, world, pairingVars
<1> QED BY <1>2, <1>3, Quiet

LEMMA LimitNumbers ==
  /\ Quota \in Nat /\ OTP_MAX_ATTEMPTS \in Nat /\ OtpWindows \in Nat /\ MaxClock \in Nat
  /\ MaxChallenges \in Nat /\ MaxOverrides \in Nat
BY LimitsAssumption

LEMMA PairInitiates ==
  ASSUME DevicesInv, NEW r \in Requests, NEW o \in Otps, handlePairInitiate(r, o)
  PROVE  DevicesInv'
<1>1. PICK row : row = [Idle EXCEPT !.pc = "challenge", !.otp = o]
  OBVIOUS
<1>2. Start(r, row) /\ UNCHANGED <<world, pairingVars, device, nonces, override, queue>>
  BY <1>1 DEF handlePairInitiate
<1>3. row = [pc |-> "challenge", otp |-> o, body |-> NoOtp, facts |-> NoOtp, dev |-> NoDevice,
             todo |-> <<>>, checked |-> NoMessage, accepted |-> {}, row |-> 0]
  BY <1>1 DEF Idle
<1>4. row \in RequestRows
  BY <1>3 DEF RequestRows, Pcs
<1>5. RequestOK(row)'
  BY <1>3 DEF RequestOK, Holding
<1>6. row.accepted = {} /\ row.pc \notin Holding \union {"queued"}
  BY <1>3 DEF Holding
<1> QED BY <1>2, <1>4, <1>5, <1>6, StartsOnly

LEMMA IdleRequest ==
  Idle \in RequestRows /\ Idle.pc = "idle" /\ Idle.accepted = {} /\ RequestOK(Idle)'
BY DEF Idle, RequestRows, RequestOK, Holding, Pcs

LEMMA PutsChallenge ==
  ASSUME DevicesInv, NEW r \in Requests, PutChallenge(r) PROVE DevicesInv'
<1>1. Remains
  BY DEF Remains, PutChallenge, world, Exists
<1>2. PICK row : row = Idle
  OBVIOUS
<1>3. /\ req' = [req EXCEPT ![r] = row] /\ req[r].pc = "challenge"
      /\ UNCHANGED <<otp, env, device, nonces, queue>>
  BY <1>2 DEF PutChallenge, At, world
<1>4. row.pc \notin Holding \union {"queued"} /\ row \in RequestRows /\ RequestOK(row)'
      /\ row.accepted = {}
  BY <1>2, IdleRequest DEF Holding
<1>5. RequestsOK' /\ QuietSignatures /\ QuietPairings /\ \A s \in Requests : req'[s].pc \in Pcs
  BY <1>1, <1>3, <1>4, Starts
<1>6. req[r].otp \in Otps
  BY <1>3 DEF DevicesInv, RequestsOK, RequestOK
<1>7. issued' \in 0..MaxChallenges /\ clock \in Nat
  BY LimitNumbers DEF PutChallenge, DevicesInv, TypeOK
<1>8. challenge' \in [Otps -> [id: 0..MaxChallenges, at: Nat]]
  BY <1>6, <1>7 DEF PutChallenge, DevicesInv, TypeOK
<1>9. TypeOK'
  BY <1>5, <1>7, <1>8 DEF PutChallenge, DevicesInv, TypeOK, world
<1> QED BY <1>5, <1>9, Quiet

LEMMA PairingStarts ==
  ASSUME DevicesInv, NEW r \in Requests, NEW o \in Otps, NEW h \in Handsets,
         NEW c \in 0..issued, handlePairing(r, o, h, c)
  PROVE  DevicesInv'
<1>1. CASE otp[o]
  <2>1. PICK row : row = [Idle EXCEPT !.pc = "attempt", !.otp = o, !.row = attempt[o]]
    OBVIOUS
  <2>2. /\ Start(r, row) /\ attempt[o] < OTP_MAX_ATTEMPTS
        /\ UNCHANGED <<world, pairingVars, device, nonces, override, queue>>
    BY <1>1, <2>1 DEF handlePairing
  <2>3. row = [pc |-> "attempt", otp |-> o, body |-> NoOtp, facts |-> NoOtp, dev |-> NoDevice,
               todo |-> <<>>, checked |-> NoMessage, accepted |-> {}, row |-> attempt[o]]
    BY <2>1 DEF Idle
  <2>4. attempt[o] \in Nat
    BY DEF DevicesInv, TypeOK
  <2>5. row \in RequestRows
    BY <2>3, <2>4 DEF RequestRows, Pcs
  <2>6. /\ RequestOK(row)' /\ row.accepted = {} /\ row.pc \notin Holding \union {"queued"}
    BY <2>2, <2>3 DEF RequestOK, Holding
  <2> QED BY <2>2, <2>5, <2>6, StartsOnly
<1>2. CASE ~otp[o]
  <2>1. PICK row : row = [Idle EXCEPT !.pc = "claim", !.otp = o, !.body = h, !.row = c]
    OBVIOUS
  <2>2. /\ Start(r, row)
        /\ UNCHANGED <<world, pairingVars, device, nonces, override, queue>>
    BY <1>2, <2>1 DEF handlePairing
  <2>3. row = [pc |-> "claim", otp |-> o, body |-> h, facts |-> NoOtp, dev |-> NoDevice,
               todo |-> <<>>, checked |-> NoMessage, accepted |-> {}, row |-> c]
    BY <2>1 DEF Idle
  <2>4. c \in Nat
    BY DEF DevicesInv, TypeOK
  <2>5. row \in RequestRows
    BY <2>3, <2>4 DEF RequestRows, Pcs
  <2>6. /\ RequestOK(row)' /\ row.accepted = {} /\ row.pc \notin Holding \union {"queued"}
    BY <2>3 DEF RequestOK, Holding
  <2> QED BY <2>2, <2>5, <2>6, StartsOnly
<1> QED BY <1>1, <1>2

LEMMA RecordsAttempt ==
  ASSUME DevicesInv, NEW r \in Requests, recordBadAttempt(r) PROVE DevicesInv'
<1>1. /\ Remains /\ req[r].pc = "attempt" /\ Goto(r, "done")
      /\ UNCHANGED <<world, otp, challenge, issued, device, nonces, override, queue>>
  BY DEF Remains, recordBadAttempt, world, Exists, At
<1>2. RequestsOK' /\ QuietSignatures /\ QuietPairings /\ \A s \in Requests : req'[s].pc \in Pcs
  BY <1>1, Goes DEF world, Pcs
<1>3. req[r].row \in Nat /\ req[r].row < OTP_MAX_ATTEMPTS
  BY <1>1 DEF DevicesInv, RequestsOK, RequestOK, RequestRows
<1>4. req[r].row + 1 \in 0..OTP_MAX_ATTEMPTS
  BY <1>3, LimitNumbers
<1>5. attempt' \in [Otps -> 0..OTP_MAX_ATTEMPTS]
  BY <1>4 DEF recordBadAttempt, DevicesInv, TypeOK
<1>6. TypeOK'
  BY <1>1, <1>2, <1>5 DEF DevicesInv, TypeOK, world
<1> QED BY <1>2, <1>6, Quiet

\* The request that claims a token is the only one that holds it.
LEMMA ClaimsToken ==
  ASSUME DevicesInv, NEW r \in Requests, PairClaim(r) PROVE DevicesInv'
<1>1. /\ Remains /\ req[r].pc = "claim"
      /\ UNCHANGED <<world, challenge, issued, device, nonces, override, queue>>
  BY DEF Remains, PairClaim, world, Exists, At
<1>2. CASE otp[req[r].otp]
  <2>1. Goto(r, "done") /\ UNCHANGED <<otp, attempt>>
    BY <1>2 DEF PairClaim
  <2>2. RequestsOK' /\ QuietSignatures /\ QuietPairings /\ \A s \in Requests : req'[s].pc \in Pcs
    BY <1>1, <2>1, Goes DEF world, Pcs
  <2>3. TypeOK'
    BY <1>1, <2>1, <2>2 DEF DevicesInv, TypeOK, world
  <2> QED BY <2>2, <2>3, Quiet
<1>3. CASE ~otp[req[r].otp]
  <2>1. PICK o : o = req[r].otp
    OBVIOUS
  <2>2. /\ otp' = [otp EXCEPT ![o] = TRUE] /\ attempt' = [attempt EXCEPT ![o] = 0]
        /\ Goto(r, "attest") /\ ~otp[o]
    BY <1>3, <2>1 DEF PairClaim
  <2>3. PICK row \in RequestRows :
          /\ req' = [req EXCEPT ![r] = row]
          /\ row.pc = "attest" /\ row.otp = req[r].otp /\ row.body = req[r].body
          /\ row.facts = req[r].facts /\ row.dev = req[r].dev /\ row.row = req[r].row
          /\ row.accepted = req[r].accepted
    BY <2>2, GotoRow DEF DevicesInv, Pcs
  <2>4. RequestOK(req[r]) /\ o \in Otps /\ req[r].accepted = {} /\ req[r].body \in Handsets
    BY <1>1, <2>1 DEF DevicesInv, RequestsOK, RequestOK
  <2>5. RequestOK(row)'
    BY <2>1, <2>3, <2>4 DEF RequestOK, Holding
  <2>6. RequestsOK' /\ req'[r] = row /\ \A s \in Requests : s # r => req'[s] = req[s]
    BY <1>1, <2>3, <2>5, Replaces DEF DevicesInv
  <2>7. otp' \in [Otps -> BOOLEAN] /\ otp'[o] = TRUE /\ \A p \in Otps : p # o => otp'[p] = otp[p]
    BY <2>2, <2>4 DEF DevicesInv, TypeOK
  <2>8. attempt' \in [Otps -> 0..OTP_MAX_ATTEMPTS]
    BY <2>2, <2>4, LimitNumbers DEF DevicesInv, TypeOK
  <2>9. TypeOK'
    BY <1>1, <2>6, <2>7, <2>8 DEF DevicesInv, TypeOK, world, RequestsOK, RequestRows
  <2>10. QuietSignatures
    <3>1. ASSUME NEW s \in Requests
          PROVE  /\ Signatures(s)' \subseteq Signatures(s)
                 /\ req[s].pc \in {"queued", "failed"} => req'[s] = req[s]
                 /\ req'[s].pc = "queued" => req'[s] = req[s]
      BY <1>1, <2>3, <2>4, <2>6 DEF Signatures, SignedOf
    <3> QED BY <1>1, <3>1 DEF QuietSignatures, Remains
  <2>11. \A s \in Requests : req[s].pc \in Holding =>
           req[s].otp # o /\ s # r /\ req[s].otp \in Otps
    BY <1>1, <2>2 DEF DevicesInv, PairingInv, TokenHeld, RequestsOK, RequestOK, Holding
  <2>12. \A d \in Devices : Exists(d) /\ device[d].by # NoOtp => device[d].by # o
    BY <2>2 DEF DevicesInv, PairingInv, TokenHeld
  <2>13. \A s \in Requests : req'[s].pc \in Holding => s = r \/ (req'[s] = req[s] /\ s # r)
    BY <2>6
  <2>14. TokenHeld'
    <3>1. ASSUME NEW s \in Requests, req'[s].pc \in Holding PROVE otp'[req'[s].otp]
      BY <2>1, <2>3, <2>6, <2>7, <2>11, <3>1 DEF DevicesInv, PairingInv, TokenHeld
    <3>2. ASSUME NEW s \in Requests, NEW q \in Requests, req'[s].pc \in Holding,
                 req'[q].pc \in Holding, req'[s].otp = req'[q].otp
          PROVE  s = q
      BY <2>1, <2>3, <2>6, <2>11, <3>2 DEF DevicesInv, PairingInv, TokenHeld
    <3>3. ASSUME NEW d \in Devices, Exists(d)', device'[d].by # NoOtp
          PROVE  /\ otp'[device'[d].by]
                 /\ \A s \in Requests : req'[s].pc \in Holding => req'[s].otp # device'[d].by
      <4>1. Exists(d) /\ device'[d] = device[d] /\ device[d].by # o
        BY <1>1, <2>12, <3>3 DEF Exists
      <4>2. otp[device[d].by] /\ device[d].by \in Otps
        BY <3>3, <4>1 DEF DevicesInv, PairingInv, TokenHeld, TypeOK, DeviceRows, Unpaired, Exists
      <4> QED BY <2>1, <2>3, <2>6, <2>7, <3>3, <4>1, <4>2 DEF DevicesInv, PairingInv, TokenHeld
    <3> QED BY <3>1, <3>2, <3>3 DEF TokenHeld
  <2>15. OneDevicePerOtp'
    BY <1>1 DEF DevicesInv, PairingInv, OneDevicePerOtp, Exists
  <2>16. FactsProved'
    <3>1. ASSUME NEW s \in Requests, req'[s].pc \in {"policy", "insert"},
                 req'[s].facts.verified # "none"
          PROVE  Proves(req[s].body.chain, req[s].facts)'
      BY <1>1, <2>3, <2>6, <3>1 DEF DevicesInv, PairingInv, FactsProved, Proves, world
    <3>2. \A s \in Requests : req[s].pc = "done" => req'[s] = req[s]
      BY <1>1, <2>6
    <3>3. \A d \in Devices : AttestedRow(d) => AttestedRow(d)'
      BY <1>1, <3>2, AttestedStays DEF world
    <3> QED BY <1>1, <3>1, <3>3 DEF FactsProved, DevicesInv, PairingInv, Exists
  <2> QED BY <2>6, <2>9, <2>10, <2>14, <2>15, <2>16, SignaturesStay DEF DevicesInv, PairingInv
<1> QED BY <1>2, <1>3

\* The facts a pairing goes on with, and what its chain proved of them.
LEMMA AttestRow ==
  ASSUME DevicesInv, NEW r \in Requests, PairAttest(r), req[r].pc = "attest",
         req[r].body \in Handsets
  PROVE  \E row \in RequestRows :
           /\ req' = [req EXCEPT ![r] = row]
           /\ row.otp = req[r].otp /\ row.body = req[r].body /\ row.accepted = req[r].accepted
           /\ \/ row.pc = "done"
              \/ /\ row.pc = "policy" /\ row.facts \in Facts(Keys)
                 /\ row.facts.verified # "none" => Proves(req[r].body.chain, row.facts)
<1>1. PICK h, o, facts, pc :
        /\ h = req[r].body /\ o = req[r].otp
        /\ facts = IF h.chain # NoChain
                     THEN [key |-> h.chain.key, verified |-> "fresh",
                           boot |-> verifiedBoot(h.chain), strong |-> strong(h.chain),
                           patched |-> patchLevel(h.chain)]
                     ELSE Bare(h.key)
        /\ pc \in {"policy", "done"}
        /\ pc = "policy" => (h.chain # NoChain => Attested(o, h, req[r].row))
        /\ req' = [req EXCEPT ![r].pc = pc, ![r].facts = IF pc = "policy" THEN facts ELSE @]
  <2>1. PICK h, o : h = req[r].body /\ o = req[r].otp
    OBVIOUS
  <2>2. PICK facts : facts = IF h.chain # NoChain
                     THEN [key |-> h.chain.key, verified |-> "fresh",
                           boot |-> verifiedBoot(h.chain), strong |-> strong(h.chain),
                           patched |-> patchLevel(h.chain)]
                     ELSE Bare(h.key)
    OBVIOUS
  <2>3. PICK ok \in BOOLEAN : ok <=> /\ h.chain # NoChain => Attested(o, h, req[r].row)
                                     /\ env.signatureRequired => facts.key # NoKey
    OBVIOUS
  <2>4. req' = [req EXCEPT ![r].pc = IF ok THEN "policy" ELSE "done",
                           ![r].facts = IF ok THEN facts ELSE @]
    BY <2>1, <2>2, <2>3 DEF PairAttest
  <2>5. PICK pc : pc = IF ok THEN "policy" ELSE "done"
    OBVIOUS
  <2>6. req' = [req EXCEPT ![r].pc = pc, ![r].facts = IF pc = "policy" THEN facts ELSE @]
    BY <2>4, <2>5
  <2>7. /\ pc \in {"policy", "done"}
        /\ pc = "policy" => (h.chain # NoChain => Attested(o, h, req[r].row))
    BY <2>3, <2>5
  <2> QED BY <2>1, <2>2, <2>6, <2>7
<1>2. PICK row : row = [req[r] EXCEPT !.pc = pc, !.facts = IF pc = "policy" THEN facts ELSE @]
  OBVIOUS
<1>3. req[r] \in RequestRows
  BY DEF DevicesInv, RequestsOK
<1>4. req' = [req EXCEPT ![r] = row]
  BY <1>1, <1>2, <1>3 DEF RequestRows, DevicesInv, RequestsOK
<1>5. h \in [key: Keys \union {NoKey}, chain: Chains(Keys) \union {NoChain}]
  BY <1>1, HandsetsAssumption
<1>6. facts \in Facts(Keys)
  <2>1. CASE h.chain # NoChain
    <3>1. h.chain \in Chains(Keys)
      BY <1>5, <2>1
    <3>2. h.chain.key \in Keys
      BY <3>1 DEF Chains
    <3> QED BY <1>1, <2>1, <3>2 DEF Facts, verifiedBoot, strong, patchLevel
  <2>2. CASE h.chain = NoChain
    BY <1>1, <1>5, <2>2 DEF Facts, Bare
  <2> QED BY <2>1, <2>2
<1>7. /\ row \in RequestRows /\ row.pc = pc /\ row.otp = req[r].otp /\ row.body = req[r].body
      /\ row.accepted = req[r].accepted
      /\ pc = "policy" => row.facts = facts
  BY <1>1, <1>2, <1>3, <1>6 DEF RequestRows, Pcs
<1>8. ASSUME pc = "policy", facts.verified # "none" PROVE Proves(h.chain, facts)
  <2>1. h.chain # NoChain
    BY <1>1, <1>8 DEF Bare
  <2>2. verify([h.chain EXCEPT !.challenge = req[r].row], challenge[o].id, env)
    BY <1>1, <1>8, <2>1 DEF Attested
  <2>3. h.chain \in Chains(Keys)
    BY <1>5, <2>1
  <2>4. PICK chain : chain = [h.chain EXCEPT !.challenge = req[r].row]
    OBVIOUS
  <2>5. chain.root = h.chain.root /\ chain.level = h.chain.level /\ chain.tee = h.chain.tee
    BY <2>3, <2>4 DEF Chains
  <2>6. /\ RootTrusted(chain) /\ HardwareLevel(chain, env)
        /\ KeyAuthorised(chain) /\ BootAccepted(chain, env)
    BY <2>2, <2>4 DEF verify
  <2>7. /\ h.chain.root = "google" /\ h.chain.level # "software"
        /\ <<"origin", "generated">> \in h.chain.tee
        /\ verifiedBoot(h.chain) \/ env.allowUnverifiedBoot
    BY <2>3, <2>5, <2>6
    DEF Chains, Levels, RootTrusted, HardwareLevel, KeyAuthorised, BootAccepted, verifiedBoot
  <2>8. facts.strong = strong(h.chain) /\ facts.boot = verifiedBoot(h.chain)
    BY <1>1, <2>1
  <2> QED BY <2>1, <2>7, <2>8 DEF Proves, strong
<1> QED BY <1>1, <1>4, <1>6, <1>7, <1>8

LEMMA Attests ==
  ASSUME DevicesInv, NEW r \in Requests, PairAttest(r) PROVE DevicesInv'
<1>1. /\ Remains /\ req[r].pc = "attest"
      /\ UNCHANGED <<world, otp, attempt, issued, device, nonces, override, queue>>
  BY DEF Remains, PairAttest, world, Exists, At
<1>2. RequestOK(req[r]) /\ req[r].otp \in Otps /\ req[r].accepted = {} /\ req[r].body \in Handsets
  BY <1>1 DEF DevicesInv, RequestsOK, RequestOK, Holding
<1>3. PICK row \in RequestRows :
        /\ req' = [req EXCEPT ![r] = row]
        /\ row.otp = req[r].otp /\ row.body = req[r].body /\ row.accepted = req[r].accepted
        /\ \/ row.pc = "done"
           \/ /\ row.pc = "policy" /\ row.facts \in Facts(Keys)
              /\ row.facts.verified # "none" => Proves(req[r].body.chain, row.facts)
  BY <1>1, <1>2, AttestRow
<1>4. RequestOK(row)'
  BY <1>2, <1>3 DEF RequestOK, Holding
<1>5. RequestsOK' /\ req'[r] = row /\ \A s \in Requests : s # r => req'[s] = req[s]
  BY <1>1, <1>3, <1>4, Replaces DEF DevicesInv
<1>6. challenge' \in [Otps -> [id: 0..MaxChallenges, at: Nat]]
  <2>1. [id |-> 0, at |-> 0] \in [id: 0..MaxChallenges, at: Nat]
    BY LimitNumbers
  <2>2. \/ challenge' = challenge
        \/ challenge' = [challenge EXCEPT ![req[r].otp] = [id |-> 0, at |-> 0]]
    BY DEF PairAttest
  <2> QED BY <1>2, <2>1, <2>2 DEF DevicesInv, TypeOK
<1>7. TypeOK'
  BY <1>1, <1>5, <1>6 DEF DevicesInv, TypeOK, world, RequestsOK, RequestRows
<1>8. QuietSignatures
  <2>1. ASSUME NEW s \in Requests
        PROVE  /\ Signatures(s)' \subseteq Signatures(s)
               /\ req[s].pc \in {"queued", "failed"} => req'[s] = req[s]
               /\ req'[s].pc = "queued" => req'[s] = req[s]
    BY <1>1, <1>2, <1>3, <1>5 DEF Signatures, SignedOf
  <2> QED BY <1>1, <2>1 DEF QuietSignatures, Remains
<1>9. /\ \A s \in Requests : req'[s].pc \in Holding =>
           req[s].pc \in Holding /\ req'[s].otp = req[s].otp
      /\ \A s \in Requests : req[s].pc = "done" => req'[s] = req[s]
  BY <1>1, <1>3, <1>5 DEF Holding
<1>10. TokenHeld'
  BY <1>1, <1>9 DEF DevicesInv, PairingInv, TokenHeld, Exists
<1>11. OneDevicePerOtp'
  BY <1>1 DEF DevicesInv, PairingInv, OneDevicePerOtp, Exists
<1>12. FactsProved'
  <2>1. ASSUME NEW s \in Requests, req'[s].pc \in {"policy", "insert"},
               req'[s].facts.verified # "none"
        PROVE  Proves(req[s].body.chain, req[s].facts)'
    <3>1. CASE s = r
      BY <1>1, <1>3, <1>5, <2>1, <3>1 DEF Proves, world
    <3>2. CASE s # r
      BY <1>1, <1>5, <2>1, <3>2 DEF DevicesInv, PairingInv, FactsProved, Proves, world
    <3> QED BY <3>1, <3>2
  <2>2. \A d \in Devices : AttestedRow(d) => AttestedRow(d)'
    BY <1>1, <1>9, AttestedStays DEF world
  <2> QED BY <1>1, <2>1, <2>2 DEF FactsProved, DevicesInv, PairingInv, Exists
<1> QED BY <1>5, <1>7, <1>8, <1>10, <1>11, <1>12, SignaturesStay DEF DevicesInv, PairingInv

\* The holder of a token pairs one handset, and is done.
LEMMA InsertsDevice ==
  ASSUME DevicesInv, NEW r \in Requests, NEW d \in Devices, PairInsert(r, d) PROVE DevicesInv'
<1>1. PICK o, facts : o = req[r].otp /\ facts = req[r].facts
  OBVIOUS
<1>2. /\ req[r].pc = "insert" /\ ~Exists(d) /\ Goto(r, "done")
      /\ device' = [device EXCEPT ![d] = Paired(o, facts)]
      /\ UNCHANGED <<world, pairingVars, nonces, override, queue>>
  BY <1>1 DEF PairInsert, At, Free
<1>3. o \in Otps /\ facts \in Facts(Keys) /\ req[r].body \in Handsets
  BY <1>1, <1>2 DEF DevicesInv, RequestsOK, RequestOK, Holding
<1>4. Paired(o, facts) \in DeviceRows
  BY <1>3 DEF Paired, DeviceRows
<1>5. /\ device' \in [Devices -> {Unpaired} \union DeviceRows]
      /\ device'[d] = Paired(o, facts) /\ Exists(d)'
      /\ \A e \in Devices : e # d => device'[e] = device[e] /\ (Exists(e)' <=> Exists(e))
  <2>1. /\ device' \in [Devices -> {Unpaired} \union DeviceRows]
        /\ device'[d] = Paired(o, facts)
        /\ \A e \in Devices : e # d => device'[e] = device[e]
    BY <1>2, <1>4 DEF DevicesInv, TypeOK
  <2>2. device'[d].status # "none"
    BY <2>1 DEF Paired
  <2> QED BY <2>1, <2>2 DEF Exists
<1>6. Remains
  BY <1>2, <1>5 DEF Remains, world
<1>7. /\ RequestsOK' /\ QuietSignatures /\ \A s \in Requests : req'[s].pc \in Pcs
  BY <1>2, <1>6, Goes DEF Pcs
<1>8. TypeOK'
  <2>1. UNCHANGED <<clock, env, policy, otp, attempt, challenge, issued, nonces, override, queue>>
    BY <1>2 DEF world, pairingVars
  <2>2. device' \in [Devices -> {Unpaired} \union DeviceRows]
    BY <1>5
  <2>3. \A s \in Requests : req'[s].pc \in Pcs
    BY <1>7
  <2> QED BY <2>1, <2>2, <2>3 DEF DevicesInv, TypeOK
<1>9. PICK row \in RequestRows :
        /\ req' = [req EXCEPT ![r] = row]
        /\ row.pc = "done" /\ row.otp = req[r].otp /\ row.body = req[r].body
        /\ row.facts = req[r].facts /\ row.dev = req[r].dev /\ row.row = req[r].row
        /\ row.accepted = req[r].accepted
  BY <1>2, GotoRow DEF DevicesInv, Pcs
<1>10. req'[r] = row /\ \A s \in Requests : s # r => req'[s] = req[s]
  BY <1>9 DEF DevicesInv, RequestsOK
<1>11. /\ otp[o] /\ \A s \in Requests : req[s].pc \in Holding /\ req[s].otp = o => s = r
       /\ \A e \in Devices : Exists(e) => device[e].by # o
  BY <1>1, <1>2, <1>3, NothingAssumption DEF DevicesInv, PairingInv, TokenHeld, Holding
<1>12. \A s \in Requests : req'[s].pc \in Holding => req'[s] = req[s] /\ s # r
  BY <1>9, <1>10 DEF Holding
<1>13. device'[d].by = o /\ device'[d].facts = facts /\ otp' = otp /\ env' = env
  BY <1>2, <1>5 DEF Paired, pairingVars, world
<1>14. TokenHeld'
  BY <1>5, <1>11, <1>12, <1>13 DEF DevicesInv, PairingInv, TokenHeld
<1>15. OneDevicePerOtp'
  BY <1>5, <1>11, <1>13 DEF DevicesInv, PairingInv, OneDevicePerOtp
<1>16. FactsProved'
  <2>1. ASSUME NEW s \in Requests, req'[s].pc \in {"policy", "insert"},
               req'[s].facts.verified # "none"
        PROVE  Proves(req[s].body.chain, req[s].facts)'
    BY <1>12, <1>13, <2>1 DEF DevicesInv, PairingInv, FactsProved, Proves, Holding
  <2>2. ASSUME NEW e \in Devices, Exists(e)', device'[e].by # NoOtp,
               device'[e].facts.verified # "none"
        PROVE  AttestedRow(e)'
    <3>1. CASE e = d
      <4>1. Proves(req[r].body.chain, facts)
        BY <1>1, <1>2, <1>13, <2>2, <3>1 DEF DevicesInv, PairingInv, FactsProved
      <4> QED BY <1>1, <1>3, <1>9, <1>10, <1>13, <3>1, <4>1 DEF AttestedRow, Proves
    <3>2. CASE e # d
      <4>1. AttestedRow(e)
        BY <1>5, <2>2, <3>2 DEF DevicesInv, PairingInv, FactsProved
      <4>2. \A s \in Requests : req[s].pc = "done" => req'[s] = req[s]
        BY <1>2, <1>10
      <4> QED BY <1>5, <1>13, <3>2, <4>1, <4>2, AttestedStays
    <3> QED BY <3>1, <3>2
  <2> QED BY <2>1, <2>2 DEF FactsProved
<1> QED BY <1>7, <1>8, <1>14, <1>15, <1>16, SignaturesStay DEF DevicesInv, PairingInv

\* A request that only goes on leaves the rest of the state.
LEMMA GoesOnly ==
  ASSUME DevicesInv, NEW r \in Requests, NEW pc \in Pcs, Goto(r, pc),
         req[r].pc \notin {"idle", "done", "failed", "queued"},
         pc \in {"done", "failed"} \/ <<req[r].pc, pc>> \in Passable,
         UNCHANGED <<world, pairingVars, device, nonces, override, queue>>
  PROVE  DevicesInv'
<1>1. Remains
  BY DEF Remains, world, Exists
<1>2. RequestsOK' /\ QuietSignatures /\ QuietPairings /\ \A s \in Requests : req'[s].pc \in Pcs
  BY <1>1, Goes DEF pairingVars, world
<1>3. TypeOK'
  BY <1>2 DEF DevicesInv, TypeOK, world, pairingVars
<1> QED BY <1>2, <1>3, Quiet

LEMMA AppliesPolicy ==
  ASSUME DevicesInv, NEW r \in Requests, PairPolicy(r) PROVE DevicesInv'
<1>1. /\ req[r].pc = "policy" /\ (Goto(r, "insert") \/ Goto(r, "done"))
      /\ UNCHANGED <<world, pairingVars, device, nonces, override, queue>>
  BY DEF PairPolicy, At
<1>2. <<"policy", "insert">> \in Passable /\ "insert" \in Pcs /\ "done" \in Pcs
  BY DEF Passable, Pcs
<1> QED BY <1>1, <1>2, GoesOnly

LEMMA PairingStep ==
  ASSUME DevicesInv, NEW r \in Requests, Pairing(r) PROVE DevicesInv'
BY PairInitiates, PairingStarts, PutsChallenge, RecordsAttempt, ClaimsToken, Attests,
   AppliesPolicy, InsertsDevice
DEF Pairing

-----------------------------------------------------------------------------
(* Forwarding                                                              *)

LEMMA PairedFacts ==
  ASSUME DevicesInv, NEW d \in Devices, Exists(d) PROVE device[d] \in DeviceRows
BY DEF DevicesInv, TypeOK, Exists, Unpaired

\* A request that starts from a device that is paired, with its facts.
LEMMA Gates ==
  ASSUME DevicesInv, NEW r \in Requests, NEW d \in Devices, Exists(d),
         NEW ms \in Seq(Messages), NEW pc \in {"override", "check"},
         Start(r, [Idle EXCEPT !.pc = pc, !.dev = d, !.facts = device[d].facts, !.todo = ms]),
         UNCHANGED <<world, pairingVars, device, nonces, override, queue>>
  PROVE  DevicesInv'
<1>1. PICK row : row = [Idle EXCEPT !.pc = pc, !.dev = d, !.facts = device[d].facts, !.todo = ms]
  OBVIOUS
<1>2. row = [pc |-> pc, otp |-> NoOtp, body |-> NoOtp, facts |-> device[d].facts, dev |-> d,
             todo |-> ms, checked |-> NoMessage, accepted |-> {}, row |-> 0]
  BY <1>1 DEF Idle
<1>3. device[d].facts \in Facts(Keys)
  BY PairedFacts DEF DeviceRows
<1>4. row \in RequestRows
  BY <1>2, <1>3 DEF RequestRows, Pcs
<1>5. RequestOK(row)'
  BY <1>2, <1>3 DEF RequestOK, Holding, Exists
<1>6. row.accepted = {} /\ row.pc \notin Holding \union {"queued"}
  BY <1>2 DEF Holding
<1> QED BY <1>1, <1>4, <1>5, <1>6, StartsOnly

LEMMA Forwards ==
  ASSUME DevicesInv, NEW r \in Requests, NEW d \in Devices,
         \/ \E m \in Messages : sms(r, d, m) \/ rotateKey(r, d, m)
         \/ \E ms \in Batches : smsBatch(r, d, ms)
  PROVE  DevicesInv'
<1>1. ASSUME NEW ms \in Seq(Messages), Gate(r, d, ms) PROVE DevicesInv'
  <2>1. PICK pc : pc = IF shouldBlock(env, policy, device[d].facts) THEN "override" ELSE "check"
    OBVIOUS
  <2>2. /\ pc \in {"override", "check"} /\ Exists(d)
        /\ Start(r, [Idle EXCEPT !.pc = pc, !.dev = d, !.facts = device[d].facts, !.todo = ms])
        /\ UNCHANGED <<world, pairingVars, device, nonces, override, queue>>
    BY <1>1, <2>1 DEF Gate, requireJwtAuth
  <2> QED BY <2>2, Gates
<1>2. ASSUME NEW m \in Messages PROVE <<m>> \in Seq(Messages)
  OBVIOUS
<1>3. ASSUME NEW m \in Messages, rotateKey(r, d, m) PROVE DevicesInv'
  BY <1>2, <1>3, Gates DEF rotateKey, requireJwtAuth
<1> QED BY <1>1, <1>2, <1>3, BatchesAssumption DEF sms, smsBatch

LEMMA LooksUpOverride ==
  ASSUME DevicesInv, NEW r \in Requests, lookupActiveOverride(r) PROVE DevicesInv'
<1>1. /\ req[r].pc = "override" /\ (Goto(r, "check") \/ Goto(r, "done"))
      /\ UNCHANGED <<world, pairingVars, device, nonces, override, queue>>
  BY DEF lookupActiveOverride, At
<1>2. <<"override", "check">> \in Passable /\ "check" \in Pcs /\ "done" \in Pcs
  BY DEF Passable, Pcs
<1> QED BY <1>1, <1>2, GoesOnly

LEMMA Crashes ==
  ASSUME DevicesInv, NEW r \in Requests, Crash(r) PROVE DevicesInv'
<1>1. "failed" \in Pcs
  BY DEF Pcs
<1> QED BY <1>1, GoesOnly DEF Crash

\* A row that is not at a pairing's pc and whose request was not either.
LEMMA NotPairing ==
  ASSUME NEW r \in Requests, NEW row, req'[r] = row,
         \A s \in Requests : s # r => req'[s] = req[s],
         req[r].pc # "done", row.pc \notin Holding,
         UNCHANGED <<otp, env>>,
         \A d \in Devices : Exists(d)' =>
           /\ Exists(d) /\ device'[d].by = device[d].by
           /\ device'[d].facts.verified # "none" => device[d].facts.verified # "none"
           /\ device'[d].facts.strong = device[d].facts.strong
           /\ device'[d].facts.boot = device[d].facts.boot
  PROVE  QuietPairings
<1>1. ASSUME NEW s \in Requests
      PROVE  /\ req'[s].pc \in Holding => req[s].pc \in Holding /\ req'[s].otp = req[s].otp
             /\ req'[s].pc \in {"policy", "insert"} =>
                  /\ req[s].pc \in {"policy", "insert"}
                  /\ req'[s].body = req[s].body /\ req'[s].facts = req[s].facts
             /\ req[s].pc = "done" => req'[s] = req[s]
  BY DEF Holding
<1> QED BY <1>1 DEF QuietPairings

LEMMA Verifies ==
  ASSUME DevicesInv, NEW r \in Requests, Verify(r) PROVE DevicesInv'
<1>1. PICK q, m : q = req[r] /\ m = Head(q.todo)
  OBVIOUS
<1>2. PICK row : row = [q EXCEPT
           !.todo = Tail(@),
           !.accepted = IF q.facts.key = NoKey THEN @ \union {m} ELSE @,
           !.checked = IF q.facts.key # NoKey /\ Passes(r, m) THEN m ELSE NoMessage,
           !.pc = IF q.facts.key # NoKey /\ Passes(r, m) THEN "nonce" ELSE "check"]
  OBVIOUS
<1>3. /\ q.pc = "check" /\ q.todo # <<>> /\ req' = [req EXCEPT ![r] = row]
      /\ UNCHANGED <<world, pairingVars, device, nonces, override, queue>>
  BY <1>1, <1>2 DEF Verify, At, DevicesInv, RequestsOK
<1>4. q \in RequestRows /\ RequestOK(q)
  BY <1>1 DEF DevicesInv, RequestsOK
<1>5. m \in Messages /\ Tail(q.todo) \in Seq(Messages)
  BY <1>1, <1>3, <1>4 DEF RequestRows
<1>6. row \in RequestRows
  BY <1>2, <1>4, <1>5 DEF RequestRows, Pcs
<1>7. row.dev = q.dev /\ row.facts = q.facts /\ row.pc \in {"nonce", "check"}
  BY <1>2, <1>4 DEF RequestRows
<1>8. /\ q.facts.key # NoKey => row.accepted = q.accepted
      /\ row.pc = "nonce" => q.facts.key # NoKey /\ Passes(r, m) /\ row.checked = m
  BY <1>2, <1>4 DEF RequestRows
<1>9. RequestOK(row)'
  <2>1. row.dev \in Devices /\ Exists(row.dev)' /\ row.facts \in Facts(Keys)
    BY <1>3, <1>4, <1>7 DEF RequestOK, Exists
  <2>2. ASSUME row.pc = "nonce"
        PROVE  /\ row.checked \in Messages /\ row.checked.dev = row.dev
               /\ row.facts.key # NoKey /\ Fresh(row.checked)'
               /\ \A x \in row.accepted : x.nonce # row.checked.nonce
    <3>1. row.checked = m /\ row.facts.key # NoKey /\ Passes(r, m) /\ row.accepted = q.accepted
      BY <1>7, <1>8, <2>2
    <3>2. Fresh(m) /\ m.dev = q.dev /\ \A x \in q.accepted : x.nonce # m.nonce
      BY <1>1, <3>1 DEF Passes, SeenInBatch, verifyDeviceSignature
    <3> QED BY <1>3, <1>5, <1>7, <3>1, <3>2 DEF Fresh, world
  <2> QED BY <1>7, <2>1, <2>2 DEF RequestOK, Holding
<1>10. Remains
  BY <1>3 DEF Remains, world, Exists
<1>11. RequestsOK' /\ req'[r] = row /\ \A s \in Requests : s # r => req'[s] = req[s]
  BY <1>3, <1>6, <1>9, <1>10, Replaces DEF DevicesInv
<1>12. QuietSignatures
  <2>1. Signatures(r)' \subseteq Signatures(r)
    BY <1>1, <1>7, <1>8, <1>11 DEF Signatures, SignedOf
  <2>2. ASSUME NEW s \in Requests
        PROVE  /\ Signatures(s)' \subseteq Signatures(s)
               /\ req[s].pc \in {"queued", "failed"} => req'[s] = req[s]
               /\ req'[s].pc = "queued" => req'[s] = req[s]
    BY <1>1, <1>3, <1>7, <1>11, <2>1 DEF Signatures
  <2> QED BY <1>3, <1>10, <2>2 DEF QuietSignatures, Remains
<1>13. QuietPairings
  BY <1>1, <1>3, <1>7, <1>11, NotPairing DEF Holding, Exists, world, pairingVars
<1>14. TypeOK'
  BY <1>3, <1>11 DEF DevicesInv, TypeOK, world, pairingVars, RequestsOK, RequestRows
<1> QED BY <1>11, <1>12, <1>13, <1>14, Quiet

LEMMA MessageFields ==
  ASSUME NEW m \in Messages
  PROVE  m.dev \in Devices /\ m.nonce \in Nonces /\ m.ts \in Nat /\ m.newKey \in Keys \union {NoKey}
BY MessagesAssumption

\* Storing the nonce of a message takes it: nobody has taken another on it,
\* because their nonce would be on record or their timestamp out of date.
LEMMA StoresNonce ==
  ASSUME DevicesInv, NEW r \in Requests, StoreNonce(r) PROVE DevicesInv'
<1>1. PICK q, m : q = req[r] /\ m = q.checked
  OBVIOUS
<1>2. /\ q.pc = "nonce" /\ Remains
      /\ UNCHANGED <<world, pairingVars, device, override, queue>>
  BY <1>1 DEF StoreNonce, At, Remains, world, Exists
<1>3. q \in RequestRows /\ RequestOK(q)
  BY <1>1 DEF DevicesInv, RequestsOK
<1>4. /\ m \in Messages /\ m.dev = q.dev /\ q.facts.key # NoKey /\ Fresh(m)
      /\ \A n \in q.accepted : n.nonce # m.nonce
      /\ q.dev \in Devices /\ Exists(q.dev) /\ q.facts \in Facts(Keys)
  BY <1>1, <1>2, <1>3 DEF RequestOK
<1>5. CASE Used(q.dev, m.nonce)
  <2>1. Goto(r, "failed") /\ UNCHANGED nonces /\ "failed" \in Pcs
    BY <1>1, <1>5 DEF StoreNonce, Pcs
  <2> QED BY <1>1, <1>2, <2>1, GoesOnly
<1>6. CASE ~Used(q.dev, m.nonce)
  <2>1. PICK x : x = [dev |-> q.dev, nonce |-> m.nonce, at |-> clock]
    OBVIOUS
  <2>2. PICK row : row = [q EXCEPT !.pc = "check", !.accepted = @ \union {m}, !.checked = NoMessage]
    OBVIOUS
  <2>3. nonces' = nonces \union {x} /\ req' = [req EXCEPT ![r] = row]
    BY <1>1, <1>6, <2>1, <2>2 DEF StoreNonce, DevicesInv, RequestsOK
  <2>4. row \in RequestRows /\ row.pc = "check" /\ row.dev = q.dev /\ row.facts = q.facts
    BY <1>3, <1>4, <2>2 DEF RequestRows, Pcs
  <2>5. row.accepted = q.accepted \union {m}
    BY <1>3, <2>2 DEF RequestRows
  <2>6. RequestOK(row)'
    BY <1>2, <1>4, <2>4 DEF RequestOK, Holding, Exists
  <2>7. RequestsOK' /\ req'[r] = row /\ \A s \in Requests : s # r => req'[s] = req[s]
    BY <1>2, <2>3, <2>4, <2>6, Replaces DEF DevicesInv
  <2>8. QuietPairings
    BY <1>1, <1>2, <2>4, <2>7, NotPairing DEF Holding, Exists, world, pairingVars
  <2>9. TypeOK'
    <3>1. x \in [dev: Devices, nonce: Nonces, at: Nat]
      BY <1>4, <2>1, MessageFields DEF DevicesInv, TypeOK
    <3>2. nonces' \subseteq [dev: Devices, nonce: Nonces, at: Nat]
      BY <2>3, <3>1 DEF DevicesInv, TypeOK
    <3> QED BY <1>2, <2>7, <3>2
        DEF DevicesInv, TypeOK, world, pairingVars, RequestsOK, RequestRows
  <2>10. /\ Signatures(r)' = Signatures(r) \union {m}
         /\ \A s \in Requests : s # r => Signatures(s)' = Signatures(s)
    BY <1>1, <1>4, <2>4, <2>5, <2>7 DEF Signatures, SignedOf
  <2>11. /\ x.dev = m.dev /\ x.nonce = m.nonce /\ m.ts <= x.at + 1 /\ clock <= m.ts + 1
         /\ m.ts \in Nat /\ clock \in Nat
    BY <1>4, <2>1, MessageFields DEF Fresh, DevicesInv, TypeOK
  <2>12. NonceHeld'
    <3>1. ASSUME NEW s \in Requests, NEW n \in Signatures(s)'
          PROVE  \/ \E y \in nonces' : y.dev = n.dev /\ y.nonce = n.nonce /\ n.ts <= y.at + 1
                 \/ n.ts + 1 < clock'
      <4>1. CASE n = m
        BY <2>3, <2>11, <4>1
      <4>2. CASE n # m
        <5>1. n \in Signatures(s)
          BY <2>10, <3>1, <4>2
        <5> QED BY <1>2, <2>3, <5>1 DEF DevicesInv, SignatureInv, NonceHeld, world
      <4> QED BY <4>1, <4>2
    <3> QED BY <3>1 DEF NonceHeld
  <2>13. ASSUME NEW s \in Requests, NEW n \in Signatures(s), Same(m, n) PROVE FALSE
    <3>1. \/ \E y \in nonces : y.dev = n.dev /\ y.nonce = n.nonce /\ n.ts <= y.at + 1
          \/ n.ts + 1 < clock
      BY DEF DevicesInv, SignatureInv, NonceHeld
    <3>2. ~(n.ts + 1 < clock)
      BY <2>11, <2>13 DEF Same
    <3>3. Used(q.dev, m.nonce)
      BY <1>4, <2>13, <3>1, <3>2 DEF Used, Same
    <3> QED BY <1>6, <3>3
  <2>14. TakenOnce'
    <3>1. ASSUME NEW s \in Requests, NEW u \in Requests, NEW n \in Signatures(s)',
                 NEW k \in Signatures(u)', Same(n, k)
          PROVE  s = u /\ n = k
      <4>1. /\ n \in Signatures(s) \/ (s = r /\ n = m)
            /\ k \in Signatures(u) \/ (u = r /\ k = m)
        BY <2>10
      <4>2. Same(k, n)
        BY <3>1 DEF Same
      <4>3. CASE n \in Signatures(s) /\ k \in Signatures(u)
        BY <3>1, <4>3 DEF DevicesInv, SignatureInv, TakenOnce
      <4> QED BY <2>13, <3>1, <4>1, <4>2, <4>3
    <3> QED BY <3>1 DEF TakenOnce, Same
  <2>15. QueueIsTaken'
    <3>1. \A s \in Requests : req[s].pc \in {"queued", "failed"} => req'[s] = req[s]
      BY <1>1, <1>2, <2>7
    <3> QED BY <1>2, <3>1 DEF DevicesInv, SignatureInv, QueueIsTaken, TypeOK
  <2>16. QueuedIsEnqueued'
    BY <1>2, <2>4, <2>7 DEF DevicesInv, SignatureInv, QueuedIsEnqueued, At
  <2> QED BY <2>7, <2>8, <2>9, <2>12, <2>14, <2>15, <2>16, PairingsStay
      DEF DevicesInv, SignatureInv
<1> QED BY <1>5, <1>6

\* What is sent is what was taken; the answer says so of all of it or none.
LEMMA SendsSms ==
  ASSUME DevicesInv, NEW r \in Requests, SendSms(r) PROVE DevicesInv'
<1>1. PICK q, signed : q = req[r] /\ signed = (q.facts.key # NoKey)
  OBVIOUS
<1>2. PICK S \in SUBSET q.accepted :
        /\ queue' = queue \union {[req |-> r, msg |-> m, verified |-> signed] : m \in S}
        /\ Goto(r, IF S = q.accepted THEN "queued" ELSE "failed")
  BY <1>1 DEF SendSms
<1>3. /\ q.pc = "check" /\ Remains
      /\ UNCHANGED <<world, pairingVars, device, nonces, override>>
  BY <1>1 DEF SendSms, At, Remains, world, Exists
<1>4. q \in RequestRows /\ q.accepted \subseteq Messages
  BY <1>1 DEF DevicesInv, RequestsOK, RequestRows
<1>5. PICK pc : pc = IF S = q.accepted THEN "queued" ELSE "failed"
  OBVIOUS
<1>6. pc \in Pcs /\ pc \in {"queued", "failed"} /\ Goto(r, pc) /\ (pc = "queued" => S = q.accepted)
  BY <1>2, <1>5 DEF Pcs
<1>7. PICK row \in RequestRows :
        /\ req' = [req EXCEPT ![r] = row]
        /\ row.pc = pc /\ row.otp = req[r].otp /\ row.body = req[r].body
        /\ row.facts = req[r].facts /\ row.dev = req[r].dev /\ row.row = req[r].row
        /\ row.accepted = req[r].accepted
  BY <1>6, GotoRow DEF DevicesInv
<1>8. RequestOK(row)'
  BY <1>6, <1>7 DEF RequestOK, Holding
<1>9. RequestsOK' /\ req'[r] = row /\ \A s \in Requests : s # r => req'[s] = req[s]
  BY <1>3, <1>7, <1>8, Replaces DEF DevicesInv
<1>10. QuietPairings
  BY <1>1, <1>3, <1>6, <1>7, <1>9, NotPairing DEF Holding, Exists, world, pairingVars
<1>11. \A x \in queue' : x \in queue \/ (x.req = r /\ x.msg \in S /\ x.verified = signed)
  BY <1>2
<1>12. TypeOK'
  <2>1. queue' \subseteq [req: Requests, msg: Messages, verified: BOOLEAN]
    <3>1. signed \in BOOLEAN /\ S \subseteq Messages
      BY <1>1, <1>2, <1>4
    <3>2. \A m \in S : [req |-> r, msg |-> m, verified |-> signed]
                      \in [req: Requests, msg: Messages, verified: BOOLEAN]
      BY <3>1
    <3>3. queue \subseteq [req: Requests, msg: Messages, verified: BOOLEAN]
      BY DEF DevicesInv, TypeOK
    <3> QED BY <1>2, <3>2, <3>3
  <2> QED BY <1>3, <1>9, <2>1 DEF DevicesInv, TypeOK, world, pairingVars, RequestsOK, RequestRows
<1>13. \A s \in Requests : Signatures(s)' = Signatures(s)
  BY <1>7, <1>9 DEF Signatures, SignedOf
<1>14. NonceHeld'
  BY <1>3, <1>13 DEF DevicesInv, SignatureInv, NonceHeld, world
<1>15. TakenOnce'
  BY <1>13 DEF DevicesInv, SignatureInv, TakenOnce, Same
<1>16. QueueIsTaken'
  <2>1. ASSUME NEW x \in queue'
        PROVE  /\ req'[x.req].pc \in {"queued", "failed"}
               /\ x.msg \in req'[x.req].accepted
               /\ x.verified = (req'[x.req].facts.key # NoKey)
    <3>1. CASE x \in queue
      <4>1. x.req \in Requests /\ req[x.req].pc \in {"queued", "failed"}
        BY <3>1 DEF DevicesInv, SignatureInv, QueueIsTaken, TypeOK
      <4>2. req'[x.req] = req[x.req]
        BY <1>1, <1>3, <1>9, <4>1
      <4> QED BY <3>1, <4>2 DEF DevicesInv, SignatureInv, QueueIsTaken
    <3>2. CASE x.req = r /\ x.msg \in S /\ x.verified = signed
      BY <1>1, <1>2, <1>6, <1>7, <1>9, <3>2
    <3> QED BY <1>11, <3>1, <3>2
  <2> QED BY <2>1 DEF QueueIsTaken
<1>17. QueuedIsEnqueued'
  <2>1. ASSUME NEW s \in Requests, req'[s].pc = "queued", NEW m \in req'[s].accepted
        PROVE  \E x \in queue' : x.req = s /\ x.msg = m
    <3>1. CASE s # r
      BY <1>2, <1>9, <2>1, <3>1 DEF DevicesInv, SignatureInv, QueuedIsEnqueued, At
    <3>2. CASE s = r
      <4>1. m \in S
        BY <1>1, <1>6, <1>7, <1>9, <2>1, <3>2
      <4>2. PICK x : x = [req |-> r, msg |-> m, verified |-> signed]
        OBVIOUS
      <4>3. x \in queue' /\ x.req = r /\ x.msg = m
        BY <1>2, <4>1, <4>2
      <4> QED BY <3>2, <4>3
    <3> QED BY <3>1, <3>2
  <2> QED BY <2>1 DEF QueuedIsEnqueued, At
<1> QED BY <1>9, <1>10, <1>12, <1>14, <1>15, <1>16, <1>17, PairingsStay
    DEF DevicesInv, SignatureInv

\* A row that changes but for its token and for what its attestation says.
LEMMA DeviceChanges ==
  ASSUME DevicesInv, NEW d \in Devices, Exists(d), NEW row \in DeviceRows,
         device' = [device EXCEPT ![d] = row], row.by = device[d].by,
         row.facts.verified # "none" => device[d].facts.verified # "none",
         row.facts.strong = device[d].facts.strong, row.facts.boot = device[d].facts.boot
  PROVE  /\ device' \in [Devices -> {Unpaired} \union DeviceRows]
         /\ \A e \in Devices : Exists(e) => Exists(e)'
         /\ \A e \in Devices : Exists(e)' =>
              /\ Exists(e) /\ device'[e].by = device[e].by
              /\ device'[e].facts.verified # "none" => device[e].facts.verified # "none"
              /\ device'[e].facts.strong = device[e].facts.strong
              /\ device'[e].facts.boot = device[e].facts.boot
<1>1. /\ device' \in [Devices -> {Unpaired} \union DeviceRows] /\ device'[d] = row
      /\ \A e \in Devices : e # d => device'[e] = device[e]
  BY DEF DevicesInv, TypeOK
<1>2. row.status # "none"
  BY DEF DeviceRows
<1>3. ASSUME NEW e \in Devices
      PROVE  /\ Exists(e) <=> Exists(e)'
             /\ Exists(e)' =>
                  /\ device'[e].by = device[e].by
                  /\ device'[e].facts.verified # "none" => device[e].facts.verified # "none"
                  /\ device'[e].facts.strong = device[e].facts.strong
                  /\ device'[e].facts.boot = device[e].facts.boot
  BY <1>1, <1>2 DEF Exists
<1> QED BY <1>1, <1>3

LEMMA RotatesKey ==
  ASSUME DevicesInv, NEW r \in Requests, RotateKey(r) PROVE DevicesInv'
<1>1. PICK d : d = req[r].dev
  OBVIOUS
<1>2. PICK m \in req[r].accepted :
        ~IsSms(m) /\ device' = [device EXCEPT ![d].facts.key = m.newKey]
  BY <1>1 DEF RotateKey
<1>3. /\ req[r].pc = "check" /\ Goto(r, "done") /\ "done" \in Pcs
      /\ UNCHANGED <<world, pairingVars, nonces, override, queue>>
  BY DEF RotateKey, At, Pcs
<1>4. d \in Devices /\ Exists(d) /\ m \in Messages
  BY <1>1, <1>2, <1>3 DEF DevicesInv, RequestsOK, RequestOK, RequestRows
<1>5. PICK k, old : k = m.newKey /\ old = device[d]
  OBVIOUS
<1>6. k \in Keys /\ old \in DeviceRows
  BY <1>2, <1>4, <1>5, MessageFields, PairedFacts DEF IsSms
<1>7. PICK row : row = [old EXCEPT !.facts.key = k]
  OBVIOUS
<1>8. device' = [device EXCEPT ![d] = row]
  BY <1>2, <1>4, <1>5, <1>7 DEF DevicesInv, TypeOK
<1>9. PICK facts : facts = [old.facts EXCEPT !.key = k]
  OBVIOUS
<1>10. /\ facts \in Facts(Keys) /\ facts.verified = old.facts.verified
       /\ facts.strong = old.facts.strong /\ facts.boot = old.facts.boot
  BY <1>6, <1>9 DEF DeviceRows, Facts
<1>11. row = [old EXCEPT !.facts = facts]
  BY <1>7, <1>9
<1>12. row \in DeviceRows /\ row.by = old.by /\ row.facts = facts
  BY <1>6, <1>10, <1>11 DEF DeviceRows
<1>13. /\ device' \in [Devices -> {Unpaired} \union DeviceRows]
       /\ \A e \in Devices : Exists(e) => Exists(e)'
       /\ \A e \in Devices : Exists(e)' =>
            /\ Exists(e) /\ device'[e].by = device[e].by
            /\ device'[e].facts.verified # "none" => device[e].facts.verified # "none"
            /\ device'[e].facts.strong = device[e].facts.strong
            /\ device'[e].facts.boot = device[e].facts.boot
  BY <1>4, <1>5, <1>8, <1>10, <1>12, DeviceChanges
<1>14. Remains
  BY <1>3, <1>13 DEF Remains, world
<1>15. RequestsOK' /\ QuietSignatures /\ \A s \in Requests : req'[s].pc \in Pcs
  BY <1>3, <1>14, Goes
<1>16. QuietPairings
  <2>1. PICK next \in RequestRows :
          /\ req' = [req EXCEPT ![r] = next]
          /\ next.pc = "done" /\ next.otp = req[r].otp /\ next.body = req[r].body
          /\ next.facts = req[r].facts /\ next.dev = req[r].dev /\ next.row = req[r].row
          /\ next.accepted = req[r].accepted
    BY <1>3, GotoRow DEF DevicesInv
  <2>2. req'[r] = next /\ \A s \in Requests : s # r => req'[s] = req[s]
    BY <2>1 DEF DevicesInv, RequestsOK
  <2>3. UNCHANGED <<otp, env>>
    BY <1>3 DEF world, pairingVars
  <2>4. next.pc \notin Holding /\ req[r].pc # "done"
    BY <1>3, <2>1 DEF Holding
  <2> QED BY <1>13, <2>2, <2>3, <2>4, NotPairing
<1>17. TypeOK'
  BY <1>3, <1>13, <1>15 DEF DevicesInv, TypeOK, world, pairingVars
<1> QED BY <1>15, <1>16, <1>17, Quiet

LEMMA ForwardingStep ==
  ASSUME DevicesInv, NEW r \in Requests, Forwarding(r) PROVE DevicesInv'
<1>1. ASSUME NEW d \in Devices,
             \/ \E m \in Messages : sms(r, d, m) \/ rotateKey(r, d, m)
             \/ \E ms \in Batches : smsBatch(r, d, ms)
      PROVE  DevicesInv'
  BY <1>1, Forwards
<1> QED BY <1>1, LooksUpOverride, Verifies, StoresNonce, SendsSms, RotatesKey, Crashes
    DEF Forwarding

-----------------------------------------------------------------------------
(* Policy, overrides and time                                              *)

LEMMA GrantStarts ==
  ASSUME DevicesInv, NEW r \in Requests, NEW d \in Devices, grantDeviceOverride(r, d)
  PROVE  DevicesInv'
<1>1. PICK row : row = [Idle EXCEPT !.pc = "quota", !.dev = d]
  OBVIOUS
<1>2. Start(r, row) /\ UNCHANGED <<world, pairingVars, device, nonces, override, queue>>
  BY <1>1 DEF grantDeviceOverride
<1>3. row = [pc |-> "quota", otp |-> NoOtp, body |-> NoOtp, facts |-> NoOtp, dev |-> d,
             todo |-> <<>>, checked |-> NoMessage, accepted |-> {}, row |-> 0]
  BY <1>1 DEF Idle
<1>4. row \in RequestRows
  BY <1>3 DEF RequestRows, Pcs
<1>5. RequestOK(row)' /\ row.accepted = {} /\ row.pc \notin Holding \union {"queued"}
  BY <1>3 DEF RequestOK, Holding
<1> QED BY <1>2, <1>4, <1>5, StartsOnly

LEMMA RevokeStarts ==
  ASSUME DevicesInv, NEW r \in Requests, NEW d \in Devices, revokeDeviceOverride(r, d)
  PROVE  DevicesInv'
<1>1. PICK i \in ActiveFor(d) :
        /\ Start(r, [Idle EXCEPT !.pc = "revoke", !.dev = d, !.row = i])
        /\ UNCHANGED <<world, pairingVars, device, nonces, override, queue>>
  BY DEF revokeDeviceOverride
<1>2. PICK row : row = [Idle EXCEPT !.pc = "revoke", !.dev = d, !.row = i]
  OBVIOUS
<1>3. row = [pc |-> "revoke", otp |-> NoOtp, body |-> NoOtp, facts |-> NoOtp, dev |-> d,
             todo |-> <<>>, checked |-> NoMessage, accepted |-> {}, row |-> i]
  BY <1>2 DEF Idle
<1>4. i \in DOMAIN override /\ i \in Nat
  BY DEF ActiveFor, DevicesInv, TypeOK
<1>5. row \in RequestRows
  BY <1>3, <1>4 DEF RequestRows, Pcs
<1>6. RequestOK(row)' /\ row.accepted = {} /\ row.pc \notin Holding \union {"queued"}
  BY <1>1, <1>3, <1>4 DEF RequestOK, Holding
<1> QED BY <1>1, <1>2, <1>5, <1>6, StartsOnly

\* A request ends by changing the overrides.
LEMMA OverrideEnds ==
  ASSUME DevicesInv, NEW r \in Requests, Goto(r, "done"), req[r].pc \in {"grant", "revoke"},
         override' \in Seq([dev: Devices, active: BOOLEAN]),
         DOMAIN override \subseteq DOMAIN override',
         UNCHANGED <<world, pairingVars, device, nonces, queue>>
  PROVE  DevicesInv'
<1>1. Remains /\ "done" \in Pcs
  BY DEF Remains, world, Exists, Pcs
<1>2. RequestsOK' /\ QuietSignatures /\ QuietPairings /\ \A s \in Requests : req'[s].pc \in Pcs
  BY <1>1, Goes DEF pairingVars, world
<1>3. TypeOK'
  BY <1>2 DEF DevicesInv, TypeOK, world, pairingVars
<1> QED BY <1>2, <1>3, Quiet

LEMMA Deactivates ==
  ASSUME DevicesInv, NEW i \in DOMAIN override,
         override' = [override EXCEPT ![i].active = FALSE]
  PROVE  /\ override' \in Seq([dev: Devices, active: BOOLEAN])
         /\ DOMAIN override' = DOMAIN override
<1>1. override \in Seq([dev: Devices, active: BOOLEAN]) /\ i \in 1..Len(override)
  BY DEF DevicesInv, TypeOK
<1>2. PICK old, row : old = override[i] /\ row = [old EXCEPT !.active = FALSE]
  OBVIOUS
<1>3. row \in [dev: Devices, active: BOOLEAN]
  <2>1. old \in [dev: Devices, active: BOOLEAN]
    BY <1>1, <1>2, ElementOfSeq
  <2> QED BY <1>2, <2>1
<1>4. override' = [override EXCEPT ![i] = row]
  BY <1>1, <1>2
<1>5. override' \in Seq([dev: Devices, active: BOOLEAN]) /\ Len(override') = Len(override)
  <2>1. PICK S, seq : S = [dev: Devices, active: BOOLEAN] /\ seq = override
    OBVIOUS
  <2>2. seq \in Seq(S) /\ i \in 1..Len(seq) /\ row \in S
    BY <1>1, <1>3, <2>1
  <2>3. [seq EXCEPT ![i] = row] \in Seq(S) /\ Len([seq EXCEPT ![i] = row]) = Len(seq)
    BY <2>2, ExceptSeq
  <2> QED BY <1>4, <2>1, <2>3
<1> QED BY <1>1, <1>5

LEMMA OverridingStep ==
  ASSUME DevicesInv, NEW r \in Requests, Overriding(r) PROVE DevicesInv'
<1>0. override \in Seq([dev: Devices, active: BOOLEAN])
  BY DEF DevicesInv, TypeOK
<1>1. CASE GrantQuota(r)
  <2>1. /\ req[r].pc = "quota" /\ (Goto(r, "done") \/ Goto(r, "grant"))
        /\ UNCHANGED <<world, pairingVars, device, nonces, override, queue>>
    BY <1>1 DEF GrantQuota, At
  <2>2. <<"quota", "grant">> \in Passable /\ "grant" \in Pcs /\ "done" \in Pcs
    BY DEF Passable, Pcs
  <2> QED BY <2>1, <2>2, GoesOnly
<1>2. CASE GrantInsert(r)
  <2>1. PICK row : row = [dev |-> req[r].dev, active |-> TRUE]
    OBVIOUS
  <2>2. /\ req[r].pc = "grant" /\ Goto(r, "done") /\ override' = Append(override, row)
        /\ UNCHANGED <<world, pairingVars, device, nonces, queue>>
    BY <1>2, <2>1 DEF GrantInsert, At
  <2>3. row \in [dev: Devices, active: BOOLEAN]
    BY <2>1, <2>2 DEF DevicesInv, RequestsOK, RequestOK
  <2>4. /\ override' \in Seq([dev: Devices, active: BOOLEAN])
        /\ DOMAIN override \subseteq DOMAIN override'
    BY <1>0, <2>2, <2>3
  <2> QED BY <2>2, <2>4, OverrideEnds
<1>3. CASE RevokeOverride(r)
  <2>1. PICK i : i = req[r].row
    OBVIOUS
  <2>2. /\ req[r].pc = "revoke" /\ Goto(r, "done")
        /\ override' = [override EXCEPT ![i].active = FALSE]
        /\ UNCHANGED <<world, pairingVars, device, nonces, queue>>
    BY <1>3, <2>1 DEF RevokeOverride, At
  <2>3. /\ override' \in Seq([dev: Devices, active: BOOLEAN])
        /\ DOMAIN override \subseteq DOMAIN override'
    BY <2>1, <2>2, Deactivates DEF DevicesInv, RequestsOK, RequestOK
  <2> QED BY <2>2, <2>3, OverrideEnds
<1> QED BY <1>1, <1>2, <1>3, GrantStarts, RevokeStarts DEF Overriding

\* A change of a device that no request sees.
LEMMA DeviceOnly ==
  ASSUME DevicesInv, NEW d \in Devices, Exists(d), NEW row \in DeviceRows,
         device' = [device EXCEPT ![d] = row], row.by = device[d].by,
         row.facts.verified # "none" => device[d].facts.verified # "none",
         row.facts.strong = device[d].facts.strong, row.facts.boot = device[d].facts.boot,
         UNCHANGED <<world, pairingVars, nonces, override, queue, req>>
  PROVE  DevicesInv'
<1>1. /\ device' \in [Devices -> {Unpaired} \union DeviceRows]
      /\ \A e \in Devices : Exists(e) => Exists(e)'
      /\ \A e \in Devices : Exists(e)' =>
           /\ Exists(e) /\ device'[e].by = device[e].by
           /\ device'[e].facts.verified # "none" => device[e].facts.verified # "none"
           /\ device'[e].facts.strong = device[e].facts.strong
           /\ device'[e].facts.boot = device[e].facts.boot
  BY DeviceChanges
<1>2. Remains
  BY <1>1 DEF Remains, world
<1>3. RequestsOK'
  BY <1>2, NoneReplaced DEF DevicesInv
<1>4. QuietSignatures
  BY DEF QuietSignatures, Signatures, SignedOf, world
<1>5. QuietPairings
  BY <1>1 DEF QuietPairings, world, pairingVars
<1>6. TypeOK'
  BY <1>1 DEF DevicesInv, TypeOK, world, pairingVars
<1> QED BY <1>3, <1>4, <1>5, <1>6, Quiet

\* A step that no request, device or nonce takes part in.
LEMMA Aside ==
  ASSUME DevicesInv, TypeOK', DOMAIN override \subseteq DOMAIN override',
         UNCHANGED <<clock, env, otp, device, nonces, queue, req>>
  PROVE  DevicesInv'
<1>1. Remains
  BY DEF Remains, Exists
<1>2. RequestsOK'
  BY <1>1, NoneReplaced DEF DevicesInv
<1>3. QuietSignatures /\ QuietPairings
  BY DEF QuietSignatures, QuietPairings, Signatures, SignedOf, Exists
<1> QED BY <1>2, <1>3, Quiet

LEMMA Revokes ==
  ASSUME DevicesInv, NEW d \in Devices, handleRevocation(d) PROVE DevicesInv'
<1>1. PICK old : old = device[d]
  OBVIOUS
<1>2. PICK row : row = [old EXCEPT !.status = "revoked"]
  OBVIOUS
<1>3. /\ Exists(d) /\ device' = [device EXCEPT ![d] = row]
      /\ UNCHANGED <<world, pairingVars, nonces, override, queue, req>>
  BY <1>1, <1>2 DEF handleRevocation, DevicesInv, TypeOK
<1>4. old \in DeviceRows
  BY <1>1, <1>3, PairedFacts
<1>5. row \in DeviceRows /\ row.by = old.by /\ row.facts = old.facts
  BY <1>2, <1>4 DEF DeviceRows
<1> QED BY <1>1, <1>3, <1>5, DeviceOnly

LEMMA GrowsStale ==
  ASSUME DevicesInv, NEW d \in Devices, Stale(d) PROVE DevicesInv'
<1>1. PICK old : old = device[d]
  OBVIOUS
<1>2. PICK facts : facts = [old.facts EXCEPT !.verified = "stale"]
  OBVIOUS
<1>3. PICK row : row = [old EXCEPT !.facts = facts]
  OBVIOUS
<1>4. /\ Exists(d) /\ old.facts.verified = "fresh" /\ device' = [device EXCEPT ![d] = row]
      /\ UNCHANGED <<world, pairingVars, nonces, override, queue, req>>
  BY <1>1, <1>2, <1>3 DEF Stale, DevicesInv, TypeOK
<1>5. old \in DeviceRows
  BY <1>1, <1>4, PairedFacts
<1>6. facts \in Facts(Keys) /\ facts.strong = old.facts.strong /\ facts.boot = old.facts.boot
  BY <1>2, <1>5 DEF DeviceRows, Facts
<1>7. row \in DeviceRows /\ row.by = old.by /\ row.facts = facts
  BY <1>3, <1>5, <1>6 DEF DeviceRows
<1> QED BY <1>1, <1>4, <1>6, <1>7, DeviceOnly

\* The purge forgets a nonce only once the timestamps it stood for are out of
\* date.
LEMMA Purges ==
  ASSUME DevicesInv, cleanupExpiredDeviceNonces PROVE DevicesInv'
<1>1. /\ nonces' = {n \in nonces : n.at + 2 >= clock}
      /\ UNCHANGED <<world, pairingVars, device, override, queue, req>>
  BY DEF cleanupExpiredDeviceNonces
<1>2. Remains
  BY <1>1 DEF Remains, world, Exists
<1>3. RequestsOK'
  BY <1>1, <1>2, NoneReplaced DEF DevicesInv
<1>4. QuietPairings
  BY <1>1 DEF QuietPairings, world, pairingVars, Exists
<1>5. TypeOK'
  BY <1>1 DEF DevicesInv, TypeOK, world, pairingVars
<1>6. \A s \in Requests : Signatures(s)' = Signatures(s)
  BY <1>1 DEF Signatures, SignedOf
<1>7. NonceHeld'
  <2>1. ASSUME NEW s \in Requests, NEW m \in Signatures(s)
        PROVE  \/ \E x \in nonces' : x.dev = m.dev /\ x.nonce = m.nonce /\ m.ts <= x.at + 1
               \/ m.ts + 1 < clock'
    <3>1. m.ts \in Nat /\ clock \in Nat /\ clock' = clock
      BY <1>1, MessageFields
      DEF Signatures, SignedOf, DevicesInv, RequestsOK, RequestRows, TypeOK, world
    <3>2. CASE \E x \in nonces : x.dev = m.dev /\ x.nonce = m.nonce /\ m.ts <= x.at + 1
      <4>1. PICK x \in nonces : x.dev = m.dev /\ x.nonce = m.nonce /\ m.ts <= x.at + 1
        BY <3>2
      <4>2. x.at \in Nat
        BY DEF DevicesInv, TypeOK
      <4>3. CASE x.at + 2 >= clock
        BY <1>1, <4>1, <4>3
      <4>4. CASE ~(x.at + 2 >= clock)
        BY <3>1, <4>1, <4>2, <4>4
      <4> QED BY <4>3, <4>4
    <3> QED BY <3>1, <3>2 DEF DevicesInv, SignatureInv, NonceHeld
  <2> QED BY <1>6, <2>1 DEF NonceHeld
<1>8. TakenOnce'
  BY <1>6 DEF DevicesInv, SignatureInv, TakenOnce, Same
<1>9. QueueIsTaken' /\ QueuedIsEnqueued'
  BY <1>1 DEF DevicesInv, SignatureInv, QueueIsTaken, QueuedIsEnqueued, At
<1> QED BY <1>3, <1>4, <1>5, <1>7, <1>8, <1>9, PairingsStay DEF DevicesInv, SignatureInv

\* A window passes while no request checks a timestamp.
LEMMA Ticks ==
  ASSUME DevicesInv, Tick PROVE DevicesInv'
<1>1. /\ clock' = clock + 1 /\ clock \in Nat
      /\ UNCHANGED <<env, policy, pairingVars, device, nonces, override, queue, req>>
      /\ \A r \in Requests : req[r].pc # "nonce"
  BY DEF Tick, DevicesInv, TypeOK
<1>2. RequestsOK'
  BY <1>1 DEF DevicesInv, RequestsOK, RequestOK, Exists
<1>3. QuietPairings
  BY <1>1 DEF QuietPairings, pairingVars, Exists
<1>4. TypeOK'
  BY <1>1 DEF DevicesInv, TypeOK, pairingVars
<1>5. \A s \in Requests : Signatures(s)' = Signatures(s)
  BY <1>1 DEF Signatures, SignedOf
<1>6. NonceHeld'
  <2>1. ASSUME NEW s \in Requests, NEW m \in Signatures(s)
        PROVE  \/ \E x \in nonces' : x.dev = m.dev /\ x.nonce = m.nonce /\ m.ts <= x.at + 1
               \/ m.ts + 1 < clock'
    <3>1. m.ts \in Nat
      BY MessageFields DEF Signatures, SignedOf, DevicesInv, RequestsOK, RequestRows
    <3> QED BY <1>1, <3>1 DEF DevicesInv, SignatureInv, NonceHeld
  <2> QED BY <1>5, <2>1 DEF NonceHeld
<1>7. TakenOnce'
  BY <1>5 DEF DevicesInv, SignatureInv, TakenOnce, Same
<1>8. QueueIsTaken' /\ QueuedIsEnqueued'
  BY <1>1 DEF DevicesInv, SignatureInv, QueueIsTaken, QueuedIsEnqueued, At
<1> QED BY <1>2, <1>3, <1>4, <1>6, <1>7, <1>8, PairingsStay DEF DevicesInv, SignatureInv

LEMMA EnvironmentStep ==
  ASSUME DevicesInv, Environment PROVE DevicesInv'
<1>1. ASSUME NEW p \in Policies, putDevicePolicy(p) PROVE DevicesInv'
  <2>1. p \in PolicyRows
    BY RangesAssumption
  <2>2. TypeOK'
    BY <1>1, <2>1 DEF putDevicePolicy, DevicesInv, TypeOK, pairingVars
  <2> QED BY <1>1, <2>2, Aside DEF putDevicePolicy, pairingVars
<1>2. ASSUME NEW mode \in ModesPut, putEnforcementMode(mode) PROVE DevicesInv'
  <2>1. mode \in Modes
    BY RangesAssumption
  <2>2. policy' \in PolicyRows
    BY <1>2, <2>1 DEF putEnforcementMode, DevicesInv, TypeOK, PolicyRows
  <2>3. TypeOK'
    BY <1>2, <2>2 DEF putEnforcementMode, DevicesInv, TypeOK, pairingVars
  <2> QED BY <1>2, <2>3, Aside DEF putEnforcementMode, pairingVars
<1>3. ASSUME NEW o \in Otps, Unlock(o) PROVE DevicesInv'
  <2>1. attempt' \in [Otps -> 0..OTP_MAX_ATTEMPTS]
    BY <1>3, LimitNumbers DEF Unlock, DevicesInv, TypeOK
  <2>2. TypeOK'
    BY <1>3, <2>1 DEF Unlock, DevicesInv, TypeOK, world
  <2> QED BY <1>3, <2>2, Aside DEF Unlock, world
<1>4. ASSUME NEW i \in DOMAIN override, ExpireOverride(i) PROVE DevicesInv'
  <2>1. /\ override' \in Seq([dev: Devices, active: BOOLEAN])
        /\ DOMAIN override' = DOMAIN override
    BY <1>4, Deactivates DEF ExpireOverride
  <2>2. TypeOK'
    BY <1>4, <2>1 DEF ExpireOverride, DevicesInv, TypeOK, world, pairingVars
  <2> QED BY <1>4, <2>1, <2>2, Aside DEF ExpireOverride, world, pairingVars
<1> QED BY <1>1, <1>2, <1>3, <1>4, Revokes, GrowsStale, Purges, Ticks DEF Environment

-----------------------------------------------------------------------------
LEMMA DevicesInit == Init => DevicesInv
<1> SUFFICES ASSUME Init PROVE DevicesInv
  OBVIOUS
<1>1. \A r \in Requests : req[r] = Idle
  BY DEF Init
<1>2. Idle \in RequestRows /\ Idle.pc = "idle" /\ Idle.accepted = {}
  BY IdleRequest
<1>3. RequestOK(Idle)
  BY <1>2 DEF RequestOK, Holding
<1>4. RequestsOK
  BY <1>1, <1>2, <1>3 DEF Init, RequestsOK
<1>5. device \in [Devices -> {Unpaired} \union DeviceRows] /\ \A d \in Devices : device[d].by = NoOtp
  BY InitialAssumption DEF Init
<1>6. TypeOK
  <2>1. attempt \in [Otps -> 0..OTP_MAX_ATTEMPTS] /\ issued \in 0..MaxChallenges
    BY LimitNumbers DEF Init
  <2>2. challenge \in [Otps -> [id: 0..MaxChallenges, at: Nat]]
    BY LimitNumbers DEF Init
  <2>3. policy \in PolicyRows /\ env \in Environments
    BY RangesAssumption DEF Init
  <2>4. \A r \in Requests : req[r].pc \in Pcs
    BY <1>1, <1>2 DEF Pcs
  <2>5. override \in Seq([dev: Devices, active: BOOLEAN])
    BY DEF Init
  <2>6. /\ clock \in Nat /\ otp \in [Otps -> BOOLEAN]
        /\ nonces \subseteq [dev: Devices, nonce: Nonces, at: Nat]
        /\ queue \subseteq [req: Requests, msg: Messages, verified: BOOLEAN]
    BY DEF Init
  <2> QED BY <1>5, <2>1, <2>2, <2>3, <2>4, <2>5, <2>6 DEF TypeOK
<1>7. \A r \in Requests : Signatures(r) = {}
  BY <1>1, <1>2 DEF Signatures, SignedOf
<1>8. SignatureInv
  BY <1>1, <1>2, <1>7
  DEF Init, SignatureInv, NonceHeld, TakenOnce, QueueIsTaken, QueuedIsEnqueued, At
<1>9. PairingInv
  BY <1>1, <1>2, <1>5 DEF PairingInv, TokenHeld, OneDevicePerOtp, FactsProved, Holding
<1> QED BY <1>4, <1>6, <1>8, <1>9 DEF DevicesInv

LEMMA DevicesStep == DevicesInv /\ [Next]_vars => DevicesInv'
<1> SUFFICES ASSUME DevicesInv, [Next]_vars PROVE DevicesInv'
  OBVIOUS
<1>1. CASE UNCHANGED vars
  <2>1. TypeOK'
    BY <1>1 DEF vars, DevicesInv, TypeOK
  <2> QED BY <1>1, <2>1, Aside DEF vars
<1> QED BY <1>1, PairingStep, ForwardingStep, OverridingStep, EnvironmentStep DEF Next

\* The invariant of the pairing, the forwarding, the policy and the purge.
THEOREM DevicesInvCorrect == Spec => []DevicesInv
  BY DevicesInit, DevicesStep, PTL DEF Spec

\* The rows of the merchant's devices, tokens, nonces and overrides keep their
\* types.
THEOREM DevicesTypeCorrect == Spec => []TypeOK
<1>1. DevicesInv => TypeOK
  BY DEF DevicesInv
<1> QED BY <1>1, DevicesInvCorrect, PTL

\* However many requests present a pairing token at once, it makes one device
\* at most (handlePairing's UPDATE ... WHERE used_at IS NULL).
THEOREM OneDevice == Spec => []OneDevicePerOtp
<1>1. DevicesInv => OneDevicePerOtp
  BY DEF DevicesInv, PairingInv
<1> QED BY <1>1, DevicesInvCorrect, PTL

\* What the row of a paired device says of its attestation, the chain its
\* pairing presented proved (handlePairing over the attestation verifier).
THEOREM Attestation == Spec => []AttestedByItsPairing
<1>1. DevicesInv => AttestedByItsPairing
  <2> SUFFICES ASSUME DevicesInv, NEW d \in Devices, Exists(d), device[d].by # NoOtp,
                      device[d].facts.verified # "none"
               PROVE  \E r \in Requests :
                        /\ req[r].otp = device[d].by /\ req[r].body \in Handsets
                        /\ Proves(req[r].body.chain, device[d].facts)
    BY DEF AttestedByItsPairing, Proves
  <2> QED BY DEF DevicesInv, PairingInv, FactsProved, AttestedRow
<1> QED BY <1>1, DevicesInvCorrect, PTL

\* A nonce and timestamp a handset signed reach the queue in one message at
\* most, through concurrent requests, repeated deliveries and the nightly purge
\* (INSERT of the nonce, cleanupExpiredDeviceNonces).
THEOREM Enqueued == Spec => []EnqueuedOnce
<1>1. DevicesInv => EnqueuedOnce
  <2> SUFFICES ASSUME DevicesInv, NEW a \in queue, NEW b \in queue, a.verified, b.verified,
                      Same(a.msg, b.msg)
               PROVE  a = b
    BY DEF EnqueuedOnce, Same
  <2>1. /\ a \in [req: Requests, msg: Messages, verified: BOOLEAN]
        /\ b \in [req: Requests, msg: Messages, verified: BOOLEAN]
    BY DEF DevicesInv, TypeOK
  <2>2. a.msg \in Signatures(a.req) /\ b.msg \in Signatures(b.req)
    BY DEF DevicesInv, SignatureInv, QueueIsTaken, Signatures, SignedOf
  <2>3. a.req = b.req /\ a.msg = b.msg
    BY <2>1, <2>2 DEF DevicesInv, SignatureInv, TakenOnce
  <2>4. a.verified = b.verified
    BY <2>1
  <2> QED BY <2>1, <2>3, <2>4
<1> QED BY <1>1, DevicesInvCorrect, PTL

\* An answer that says "queued" left every accepted SMS in the queue
\* (the awaited sends of POST /sms and /sms/batch).
THEOREM Queued == Spec => []QueuedIsEnqueued
<1>1. DevicesInv => QueuedIsEnqueued
  BY DEF DevicesInv, SignatureInv
<1> QED BY <1>1, DevicesInvCorrect, PTL
=============================================================================
