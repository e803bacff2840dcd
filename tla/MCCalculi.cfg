CONSTANTS
  a = a
  a2 = a2
  b = b
  c = c
  d = d
  x = x
  y = y
  z = z
  never = never
  None = None
  Names <- MCNames
  Caps <- MCCaps
  Candidates <- MCCandidates
  ExtendedNames = {a, b, c, d}
  ExtendedCaps = {a, b, c, d, never}
  ExtendedCandidates <- SelfNamedPool
  Unsatisfiable = never
  Errors = {e}
  MaxIterations = 1
SPECIFICATION CalculiSpec
INVARIANTS WellFormed ConfluentAtRest CommittedViewsStand NeverStuck PrecedenceAcyclic
PROPERTIES LifecycleTerminates ImplementsKeyTable
