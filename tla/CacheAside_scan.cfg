SPECIFICATION Spec
CONSTANTS
  Instances = {i1, i2}
  Calls = {c1, c2}
  MaxWrites = 1
INVARIANTS
  TargetedInvalidation
