SPECIFICATION Spec
CONSTANTS
  NotInt = NotInt
  NotAnObject = NotAnObject
  NotAList = NotAList
  Nothing = Nothing
  Bodies <- MCBodies
  TablesOf <- MCTablesOf
  IntegerMax <- MCIntegerMax
INVARIANT
  AllProblemsReported
CHECK_DEADLOCK FALSE
