CONSTANTS
  States = {st1}
  NumKeys = {}
  StrKeys = {}
  Inputs <- NumStr
  Ops = {"len", "push", "shift"}
  CheckLen = FALSE
  MaxCells = 2
  MaxAlloc = 2
  KeyBound = 3
  Nil = Nil
  vN1 = vN1  vN2 = vN2  vS = vS  vB = vB  vT = vT
  st1 = st1  st2 = st2  k1 = k1
SPECIFICATION Spec
INVARIANT JsonRoundTrip
