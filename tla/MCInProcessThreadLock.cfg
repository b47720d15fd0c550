SPECIFICATION FairSpec
CONSTANTS
  Callers = {c1, c2, c3}
  Keys = {k1, k2}
  Objects = {o1, o2, o3, o4, o5}
  Tokens = {t1, t2, t3}
  NoObject = NoObject
  NoToken = NoToken
  NoCaller = NoCaller
  NoKey = NoKey
INVARIANTS
  MutualExclusion
  RegistryBounded
PROPERTIES
  AcquireAnswers
  ImplementsContract
CHECK_DEADLOCK FALSE
