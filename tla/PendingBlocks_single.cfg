\* The node's single submission loop, a restart and two failed calls.
SPECIFICATION Spec
CONSTANTS
  MaxHeight = 3
  Submitters = {s1}
  MaxCrashes = 1
  MaxFaults = 2
  NoMeta = NoMeta
PROPERTIES
  MetaMonotone
  EventuallySubmitted
