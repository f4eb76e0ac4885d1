SPECIFICATION PublicationSpec
CONSTANTS
  h1 = h1  h2 = h2
  Handlers = {h1, h2}
  Patches = {filters, viewport}
  ProfilePatches = {filters}
  Suggestions = {s1, s2}
  Null = Null
  Threshold = 2
  MaxVersion = 3
  MaxObserved = 3
SYMMETRY MCSymmetry
INVARIANTS
  ChangeLogGapless
  DatabasesAgree
PROPERTIES
  LosesOnlyOverlapping
