SPECIFICATION Spec
CONSTANTS
  Requests = {r1, r2, r3}
  Keys = {k1}
  Bodies = {b1, b2}
  NoRow = NoRow
  NoResponse = NoResponse
  PromptKeys = {k1}
SYMMETRY MCSymmetry
INVARIANT
  LookupFindsRow
