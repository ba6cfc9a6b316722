SPECIFICATION Spec
CONSTANTS
  Requests = {r1, r2, r3}
  Keys = {k1, k2}
  PromptKeys = {k1}
  Bodies = {b1, b2}
  NoRow = NoRow
  NoResponse = NoResponse
SYMMETRY MCSymmetry
INVARIANTS
  TypeOK
  ChargeBudget
  ClaimIsMutex
  ReplayFaithful
  ClientsAgree
PROPERTY
  CompletedStays
