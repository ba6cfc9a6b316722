SPECIFICATION Spec
CONSTANTS
  Requests = {r1, r2, r3}
  Warehouses = {w1, w2}
  Products <- MCProducts
  Carts <- MCCarts
  InitialStock <- MCInitialStock
  NoOrder = NoOrder
  NoOne = NoOne
INVARIANT
  ChargeReconstructable
