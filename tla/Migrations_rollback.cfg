SPECIFICATION Spec
CONSTANTS
  r1 = r1
  r2 = r2
  Runners = {r1}
  Repeatable <- ThreeFiles
  MaxVersion = 1
  MaxFaults = 1
INVARIANTS
  AllOrNothing
