------------------------- MODULE MCGatewayCheckout -------------------------
(* Every adapter of the registry, over small payments.                     *)
EXTENDS GatewayCheckout, GatewayAdapters

Registered == {gatewayRegistry[s] : s \in DOMAIN gatewayRegistry}
\* One payment may be initiated twice.
MCMaxOrders == [p |-> 2, q |-> 1]
=============================================================================
