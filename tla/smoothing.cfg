SPECIFICATION Spec
CONSTANTS
  MaxMinutes = 4
  MaxCount = 4
  MaxOutside = 1
  Radii = {0, 1, 2}
INVARIANTS NothingLost BothEdgesAlike EvenStaysEven
