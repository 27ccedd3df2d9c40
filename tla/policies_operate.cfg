SPECIFICATION Spec
CONSTANTS
  Client = {c1}
  Handle = {h1}
  Together <- Pairs
  None = None
INVARIANT OperateDefaultsHonoured
