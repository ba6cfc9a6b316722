SPECIFICATION Spec
CONSTANTS
  Requests = {r1, r2, r3, r4}
  Warehouses = {w1, w2}
  Products <- MCProducts
  Carts <- MCCarts
  InitialStock <- MCInitialStock
  NoOrder = NoOrder
SYMMETRY MCSymmetry
INVARIANTS
  TypeOK
  Conserved
CHECK_DEADLOCK FALSE
