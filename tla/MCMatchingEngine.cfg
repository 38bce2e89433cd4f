SPECIFICATION Spec
CONSTANTS
  Users = {alice, bob}
  Prices = {1, 2, 3}
  Quantities = {1, 2}
  MaxSubmits = 3
INVARIANTS LevelsSorted Uncrossed
PROPERTY ImplementsPriceTimePriority
SYMMETRY UserSymmetry
