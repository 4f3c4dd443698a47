\* Two submission goroutines calling removeSubmittedBlocks concurrently.
SPECIFICATION Spec
CONSTANTS
  MaxHeight = 2
  Submitters = {s1, s2}
  MaxCrashes = 0
  MaxFaults = 0
  NoMeta = NoMeta
SYMMETRY SubmitterSymmetry
PROPERTIES
  MetaMonotone
