\* Two payments through each adapter of the registry.
CONSTANTS
  Payments = {"p", "q"}
  Prices = {1, 2}
  Adapters <- Registered
  Kinds <- AdapterKinds
  NoOrder = NoOrder
  EventId = EventId
  MaxOrders <- MCMaxOrders
  MaxLost = 1
SPECIFICATION GatewaySpec
INVARIANTS CompletedIsPaid BoundToItsOrder RefundsAccounted
