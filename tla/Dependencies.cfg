SPECIFICATION FairGraphSpec
CONSTANTS
  n1 = n1
  n2 = n2
  n3 = n3
  Node = {n1, n2, n3}
  Request = {q1, q2}
  Wanted <- TwoCycles
  Imports <- MutualImport
INVARIANT GraphSound
PROPERTY SearchEnds
