SPECIFICATION Spec
CONSTANTS
  k1 = k1
  k2 = k2
  k3 = k3
  never = never
  missing = missing
  text = text
  Keys = {k1, k2, k3}
  Never = never
  Missing = missing
  Text = text
  Half = 4
  Deltas = {1}
  Ttls = {0, 1}
  MaxEntries = 1
  PerSecond = 2
  MaxLag = 1
  MaxClock = 3
  MaxWrites = 4
SYMMETRY Symmetry
INVARIANTS
  TypeOK
  GrowthBounded
PROPERTIES
  ImplementsKeyValue
CHECK_DEADLOCK FALSE
