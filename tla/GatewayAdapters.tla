-------------------------- MODULE GatewayAdapters --------------------------
(***************************************************************************)
(* The adapters of src/src/gateways, one definition per adapter file.      *)
(* Every adapter has the same four operations (initiate, verify,           *)
(* verifyWebhook, refund); what tells them apart is recorded in a few      *)
(* fields, and GatewayCheckout.tla gives the operations their meaning:     *)
(*                                                                         *)
(*   ported   initiate does something (a planned stub throws)              *)
(*   opens    initiate has the provider open an order of params.amount     *)
(*   page     where the customer is sent: "provider" (the provider's URL   *)
(*            or an auto-submitted form), "own" (the checkout's own        *)
(*            callback URL), "none" (the URL is the constant "")           *)
(*   needs    what verify wants of the callback before anything else: the  *)
(*            "field" it goes by (a reference, a status or an amount), the *)
(*            "flag" _op_webhook_verified (which nothing in the repository *)
(*            sets), or "none"                                             *)
(*   asks     what verify asks the provider: about the "order" referred    *)
(*            to, about the order and the callback's "amount", to          *)
(*            "capture" the order, or "nothing" about an order             *)
(*   ok       success comes from the "answer", from plain "callback"       *)
(*            fields, from a callback "signed" by the provider, or "never" *)
(*   amount   the amount reported: the "answer"'s, the "callback"'s,       *)
(*            the "signed" one, or "none" (null; promptpay: the constant 0)  *)
(*   echo     the trx_id reported: the "answer"'s, the "reference" asked   *)
(*            about, a plain "callback" field, the "signed" one, or "none" *)
(*   webhook  verifyWebhook: "closed" (always false), "signed" (an HMAC of *)
(*            the body), "cased" (an HMAC looked up under a mixed-case     *)
(*            header name, which the handler has lower-cased away),        *)
(*            "token" (a shared token), "provider" (the provider is asked) *)
(*   named    a webhook event names the transaction where the handler      *)
(*            looks for it (extractTransactionId)                          *)
(*   refunds  refund asks the provider; otherwise refund_not_supported     *)
(***************************************************************************)

\* The common shape: a REST order, a hosted page, a query by reference.
RestAdapter ==
  [ported |-> TRUE, opens |-> TRUE, page |-> "provider", needs |-> "field",
   asks |-> "order", ok |-> "answer", amount |-> "answer", echo |-> "none",
   webhook |-> "closed", named |-> FALSE, refunds |-> FALSE]

\* The kinds of adapter.
AdapterKinds ==
  [ported : BOOLEAN, opens : BOOLEAN, page : {"provider", "own", "none"},
   needs : {"field", "flag", "none"},
   asks : {"order", "amount", "capture", "nothing"},
   ok : {"answer", "callback", "signed", "never"},
   amount : {"answer", "callback", "signed", "none"},
   echo : {"answer", "reference", "callback", "signed", "none"},
   webhook : {"closed", "signed", "cased", "token", "provider"},
   named : BOOLEAN, refunds : BOOLEAN]

-----------------------------------------------------------------------------
(* The hand-written adapters.                                              *)

StripeGateway == [RestAdapter EXCEPT !.page = "own", !.webhook = "signed", !.named = TRUE,
  !.refunds = TRUE]
PayPalGateway == [RestAdapter EXCEPT !.asks = "capture", !.webhook = "provider",
  !.refunds = TRUE]
BkashApiGateway == [RestAdapter EXCEPT !.asks = "capture"]
RazorpayGateway == [RestAdapter EXCEPT !.ok = "signed", !.echo = "callback",
  !.webhook = "signed", !.refunds = TRUE]
NagadGateway == [RestAdapter EXCEPT !.echo = "callback"]
RocketGateway == [RestAdapter EXCEPT !.asks = "nothing", !.ok = "signed", !.amount = "signed",
  !.echo = "signed"]
SslCommerzGateway == [RestAdapter EXCEPT !.echo = "answer"]
AamarpayGateway == [RestAdapter EXCEPT !.echo = "answer"]
ShurjopayGateway == [RestAdapter EXCEPT !.echo = "reference"]
PortWalletGateway == [RestAdapter EXCEPT !.asks = "amount", !.amount = "callback"]

-----------------------------------------------------------------------------
(* The generated adapters: those whose order is queried by its reference   *)
(* and counts as paid on the status PAID,                                  *)

Gw2checkoutGateway == RestAdapter
BillerGenieGateway == RestAdapter
BluesnapGateway == RestAdapter
ChasePaymentechGateway == RestAdapter
CybersourceGateway == RestAdapter
DlocalGateway == RestAdapter
ElavonGateway == RestAdapter
FastspringGateway == RestAdapter
FattmerchantGateway == RestAdapter
FirstDataGateway == RestAdapter
FiservGateway == RestAdapter
GlobalPaymentsGateway == RestAdapter
HeartlandGateway == RestAdapter
HelcimGateway == RestAdapter
MonerisGateway == RestAdapter
NetellerGateway == RestAdapter
NmiGateway == RestAdapter
PaylineDataGateway == RestAdapter
PaymentDepotGateway == RestAdapter
PayoneerGateway == RestAdapter
PaytraceGateway == RestAdapter
RapydGateway == RestAdapter
Shift4Gateway == RestAdapter
SkrillGateway == RestAdapter
StaxGateway == RestAdapter
TrustcommerceGateway == RestAdapter
TsysGateway == RestAdapter
WorldpayGateway == RestAdapter

(* and the others.                                                         *)

AdyenGateway == [RestAdapter EXCEPT !.needs = "flag", !.asks = "nothing", !.ok = "never",
  !.amount = "none"]
AffirmGateway == [RestAdapter EXCEPT !.page = "none", !.asks = "nothing", !.ok = "never",
  !.amount = "none"]
AfterpayGateway == [RestAdapter EXCEPT !.page = "none", !.asks = "capture", !.ok = "never",
  !.amount = "none"]
AmazonPayGateway == [RestAdapter EXCEPT !.page = "none", !.needs = "flag", !.asks = "nothing",
  !.ok = "callback", !.amount = "none"]
AuthorizeNetGateway == [RestAdapter EXCEPT !.opens = FALSE, !.page = "none",
  !.webhook = "cased"]
BancontactGateway == [RestAdapter EXCEPT !.echo = "answer"]
BitpayGateway == [RestAdapter EXCEPT !.page = "none", !.ok = "never", !.amount = "none"]
BtcpayGateway == [RestAdapter EXCEPT !.amount = "none", !.echo = "answer"]
CellfinGateway == [RestAdapter EXCEPT !.asks = "amount", !.amount = "callback"]
CoinbaseCommerceGateway == [RestAdapter EXCEPT !.ok = "never", !.amount = "none",
  !.echo = "answer", !.webhook = "cased"]
DanaGateway == [RestAdapter EXCEPT !.echo = "answer"]
EasypaisaGateway == [RestAdapter EXCEPT !.asks = "nothing", !.ok = "callback",
  !.amount = "none"]
EbanxGateway == [RestAdapter EXCEPT !.amount = "none"]
FlutterwaveGateway == [RestAdapter EXCEPT !.echo = "answer", !.webhook = "token"]
GcashGateway == [RestAdapter EXCEPT !.echo = "answer"]
GocardlessGateway == [RestAdapter EXCEPT !.opens = FALSE, !.page = "none", !.needs = "flag",
  !.asks = "nothing", !.ok = "callback", !.amount = "none", !.webhook = "signed"]
GrabpayGateway == [RestAdapter EXCEPT !.page = "none", !.needs = "flag", !.asks = "nothing",
  !.ok = "never", !.amount = "none"]
IdealGateway == [RestAdapter EXCEPT !.echo = "answer"]
KakaopayGateway == [RestAdapter EXCEPT !.page = "none", !.needs = "flag", !.asks = "nothing",
  !.ok = "never", !.amount = "none"]
MayaGateway == [RestAdapter EXCEPT !.page = "none", !.ok = "never", !.amount = "none",
  !.echo = "answer"]
MercadolibreWalletGateway == [RestAdapter EXCEPT !.page = "none", !.needs = "flag",
  !.asks = "nothing", !.ok = "callback", !.amount = "none"]
MercadopagoGateway == [RestAdapter EXCEPT !.page = "none", !.needs = "flag", !.asks = "nothing",
  !.ok = "callback", !.amount = "none", !.echo = "callback"]
MidtransGateway == [RestAdapter EXCEPT !.amount = "none"]
MobikwikGateway == [RestAdapter EXCEPT !.opens = FALSE, !.asks = "nothing", !.ok = "callback",
  !.amount = "none"]
MollieGateway == [RestAdapter EXCEPT !.echo = "answer"]
MomoGateway == [RestAdapter EXCEPT !.needs = "none", !.asks = "nothing", !.amount = "none"]
MpesaGateway == [RestAdapter EXCEPT !.opens = FALSE, !.page = "own", !.needs = "flag",
  !.asks = "nothing", !.ok = "never", !.amount = "none"]
NexuspayGateway == [RestAdapter EXCEPT !.asks = "amount", !.amount = "callback"]
OkWalletGateway == [RestAdapter EXCEPT !.asks = "amount", !.amount = "callback"]
OpayGateway == [RestAdapter EXCEPT !.needs = "flag", !.asks = "nothing", !.ok = "never",
  !.amount = "callback", !.webhook = "cased"]
OpennodeGateway == [RestAdapter EXCEPT !.page = "none", !.ok = "never", !.amount = "none",
  !.echo = "answer"]
OvoGateway == [RestAdapter EXCEPT !.echo = "answer"]
PaymeGateway == [RestAdapter EXCEPT !.opens = FALSE, !.page = "none", !.needs = "flag",
  !.asks = "nothing", !.ok = "never", !.amount = "none"]
PaystackGateway == [RestAdapter EXCEPT !.echo = "reference", !.webhook = "cased"]
PayuGateway == [RestAdapter EXCEPT !.asks = "nothing", !.ok = "callback", !.amount = "none"]
PhonepeGateway == [RestAdapter EXCEPT !.amount = "none", !.echo = "reference"]
PromptpayGateway == [RestAdapter EXCEPT !.opens = FALSE, !.page = "own", !.ok = "never",
  !.amount = "none", !.echo = "answer"]
SezzleGateway == [RestAdapter EXCEPT !.opens = FALSE, !.page = "none", !.needs = "flag",
  !.asks = "nothing", !.ok = "callback", !.amount = "none", !.webhook = "signed"]
ShopeepayGateway == [RestAdapter EXCEPT !.opens = FALSE, !.amount = "none"]
SquareGateway == [RestAdapter EXCEPT !.page = "none", !.needs = "flag", !.asks = "nothing",
  !.ok = "callback", !.amount = "none"]
TapGateway == [RestAdapter EXCEPT !.asks = "amount", !.amount = "callback"]
TouchNGoGateway == [RestAdapter EXCEPT !.amount = "none"]
TruemoneyGateway == [RestAdapter EXCEPT !.opens = FALSE, !.amount = "none"]
UpayGateway == [RestAdapter EXCEPT !.opens = FALSE, !.asks = "nothing", !.echo = "answer"]
WechatPayGateway == [RestAdapter EXCEPT !.opens = FALSE, !.page = "none", !.needs = "flag",
  !.asks = "nothing", !.ok = "never", !.amount = "none", !.echo = "callback"]
WiseGateway == [RestAdapter EXCEPT !.opens = FALSE, !.page = "own", !.needs = "flag",
  !.asks = "nothing", !.ok = "never", !.amount = "none"]
WorldlineGateway == [RestAdapter EXCEPT !.opens = FALSE, !.amount = "none", !.echo = "answer"]
XenditGateway == [RestAdapter EXCEPT !.amount = "none", !.webhook = "token"]

-----------------------------------------------------------------------------
(* The catalog's planned providers share one stub: initiate throws, verify *)
(* answers failed, verifyWebhook answers false.                            *)
PlannedGatewayStub ==
  [RestAdapter EXCEPT !.ported = FALSE, !.opens = FALSE, !.page = "none",
   !.needs = "none", !.asks = "nothing", !.ok = "never", !.amount = "none"]

(* The registry: slug |-> adapter (a slug's hyphens are dropped; planned   *)
(* stands for every planned slug).                                         *)
gatewayRegistry ==
  [stripe |-> StripeGateway, paypal |-> PayPalGateway, bkashApi |-> BkashApiGateway,
   razorpay |-> RazorpayGateway, nagadMerchantApi |-> NagadGateway,
   rocket |-> RocketGateway, sslcommerz |-> SslCommerzGateway,
   aamarpay |-> AamarpayGateway, shurjopay |-> ShurjopayGateway,
   portwallet |-> PortWalletGateway, twoCheckout |-> Gw2checkoutGateway,
   adyen |-> AdyenGateway, affirm |-> AffirmGateway, afterpay |-> AfterpayGateway,
   amazonPay |-> AmazonPayGateway, authorizeNet |-> AuthorizeNetGateway,
   bancontact |-> BancontactGateway, billerGenie |-> BillerGenieGateway,
   bitpay |-> BitpayGateway, bluesnap |-> BluesnapGateway, btcpay |-> BtcpayGateway,
   cellfin |-> CellfinGateway, chasePaymentech |-> ChasePaymentechGateway,
   coinbaseCommerce |-> CoinbaseCommerceGateway, cybersource |-> CybersourceGateway,
   dana |-> DanaGateway, dlocal |-> DlocalGateway, easypaisa |-> EasypaisaGateway,
   ebanx |-> EbanxGateway, elavon |-> ElavonGateway, fastspring |-> FastspringGateway,
   fattmerchant |-> FattmerchantGateway, firstData |-> FirstDataGateway,
   fiserv |-> FiservGateway, flutterwave |-> FlutterwaveGateway, gcash |-> GcashGateway,
   globalPayments |-> GlobalPaymentsGateway, gocardless |-> GocardlessGateway,
   grabpay |-> GrabpayGateway, heartland |-> HeartlandGateway, helcim |-> HelcimGateway,
   ideal |-> IdealGateway, kakaopay |-> KakaopayGateway, maya |-> MayaGateway,
   mercadolibreWallet |-> MercadolibreWalletGateway, mercadopago |-> MercadopagoGateway,
   midtrans |-> MidtransGateway, mobikwik |-> MobikwikGateway, mollie |-> MollieGateway,
   momo |-> MomoGateway, moneris |-> MonerisGateway, mpesa |-> MpesaGateway,
   neteller |-> NetellerGateway, nexuspay |-> NexuspayGateway, nmi |-> NmiGateway,
   okWallet |-> OkWalletGateway, opay |-> OpayGateway, opennode |-> OpennodeGateway,
   ovo |-> OvoGateway, paylineData |-> PaylineDataGateway, payme |-> PaymeGateway,
   paymentDepot |-> PaymentDepotGateway, payoneer |-> PayoneerGateway,
   paystack |-> PaystackGateway, paytrace |-> PaytraceGateway, payu |-> PayuGateway,
   phonepe |-> PhonepeGateway, promptpay |-> PromptpayGateway, rapyd |-> RapydGateway,
   sezzle |-> SezzleGateway, shift4 |-> Shift4Gateway, shopeepay |-> ShopeepayGateway,
   skrill |-> SkrillGateway, square |-> SquareGateway, stax |-> StaxGateway,
   tap |-> TapGateway, touchNGo |-> TouchNGoGateway, truemoney |-> TruemoneyGateway,
   trustcommerce |-> TrustcommerceGateway, tsys |-> TsysGateway, upay |-> UpayGateway,
   wechatPay |-> WechatPayGateway, wise |-> WiseGateway, worldline |-> WorldlineGateway,
   worldpay |-> WorldpayGateway, xendit |-> XenditGateway, planned |-> PlannedGatewayStub]
=============================================================================
