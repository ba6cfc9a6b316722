SPECIFICATION ApiSpec
CONSTANTS
  Requests = {r1, r2, n}
  Keyed = {r1, r2}
  Readers = {g}
  Warehouses = {w}
  Products <- MCProducts
  Carts <- MCCarts
  InitialStock <- MCInitialStock
  NoOrder = NoOrder
  NoOne = NoOne
  Keys = {k}
  PromptKeys = {k}
  NoRow = NoRow
  NoResponse = NoResponse
  Malformed = Malformed
SYMMETRY MCSymmetry
INVARIANTS
  ReplayShowsSale
  OrderBudget
  ReadbackCoherent
