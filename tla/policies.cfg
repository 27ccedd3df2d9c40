SPECIFICATION Spec
CONSTANTS
  Client = {c1, c2}
  Handle = {h1}
  Together <- AloneAndInPairs
  None = None
SYMMETRY Symmetry
INVARIANT MostSpecificWins
PROPERTY DefaultsStand
