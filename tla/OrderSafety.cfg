SPECIFICATION Spec
CONSTANTS
  Requests = {r1, r2, r3}
  Warehouses = {w1, w2}
  Products <- MCProducts
  Carts <- MCCarts
  InitialStock <- MCInitialStock
  NoOrder = NoOrder
  NoOne = NoOne
SYMMETRY MCSymmetry
INVARIANTS
  TypeOK
  StockConserved
  PaymentMatchesOrder
  AnswerTruthful
  LocksOnlyInTransactions
  NoWaitCycle
  ConflictJustified
PROPERTY
  ImplementsLedger
