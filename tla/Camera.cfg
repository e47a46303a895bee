\* An interrupt may come a frame late once; a row may arrive during the copy.
SPECIFICATION Spec
CONSTANTS
  Rows = 3
  MaxFrames = 9
  MaxRaces = 1
  MaxSkips = 1
INVARIANT NothingPilesUp
INVARIANT PictureOfTwo
INVARIANT NoneMissed
PROPERTY NeverOlder
