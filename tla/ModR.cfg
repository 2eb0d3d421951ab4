SPECIFICATION Spec
CONSTANTS
  Base = 6
  Limbs = 4
  Moduli <- MCModuli
\* The function returns.
CHECK_DEADLOCK FALSE
INVARIANTS
  ReturnsRemainder
  NothingIsOwed
