SPECIFICATION Spec
CONSTANTS
  NotInt = NotInt
  NotAnObject = NotAnObject
  NotAList = NotAList
  Nothing = Nothing
  Bodies <- MCBodies
  TablesOf <- MCTablesOf
  IntegerMax <- MCIntegerMax
INVARIANTS
  TypeOK
  AcceptedIffFaultless
  FaultyPartsNamed
  CartKeepsUnits
  NearestThatFills
  MistypedCardRefused
  TestCardsDecline
CHECK_DEADLOCK FALSE
