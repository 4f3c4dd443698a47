\* Two concurrent submission goroutines, a restart and two failed calls.
SPECIFICATION Spec
CONSTANTS
  MaxHeight = 3
  Submitters = {s1, s2}
  MaxCrashes = 1
  MaxFaults = 2
  NoMeta = NoMeta
SYMMETRY SubmitterSymmetry
INVARIANTS
  TypeOK
  AckLanded
  InOrder
PROPERTIES
  ImplementsAbstractSafe
