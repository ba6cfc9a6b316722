SPECIFICATION FairSpec
CONSTANTS
  Requests = {r1, r2, r3}
  Warehouses = {w1}
  Products <- MCProducts
  Carts <- MCCarts
  InitialStock <- MCStockForTwo
  NoOrder = NoOrder
  NoOne = NoOne
PROPERTIES
  EveryRequestAnswered
  PendingOrderSettled
