\* Four keys in a cache of two.
SPECIFICATION Spec
CONSTANTS
  Keys = {k1, k2, k3, k4}
  Values = {v1, v2}
  Capacity = 2
INVARIANTS
  TypeOK
  HoldsTheLastUsed
PROPERTY
  ImplementsPolicy
