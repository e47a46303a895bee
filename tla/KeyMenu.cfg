\* A main loop of any speed; keys pressed alone, or two whose handlers meet.
SPECIFICATION Spec
CONSTANTS
  Together = {{1, 4}, {2}, {3, 4}}
  ShockScans = 1
  LongScans = 2
  Numbers = 1
  MaxLevel = 2
INVARIANT TypeOK
PROPERTY ShortPressActsOnce
PROPERTY NoPressLost
