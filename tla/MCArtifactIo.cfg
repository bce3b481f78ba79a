CONSTANTS
  n1 = n1
  n2 = n2
  a = a
  b = b
  None = None
  Names = {n1, n2}
  Contents = {a, b}
  MaxRev = 3
  Faults = {"io"}
SPECIFICATION Spec
SYMMETRY Symmetry
INVARIANTS TypeOK NeverSilent CrashAtomic AckNeverReverted OldBytesSurvive
PROPERTIES ImplementsAtomicUpdate
