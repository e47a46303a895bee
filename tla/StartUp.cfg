\* The board comes up at any time or never; the car alone is switched off and
\* on, twice, at any time; a lost byte; missed interrupts.
SPECIFICATION BootFairSpec
CONSTANTS
  TimeOut = 12
  ReadBufferSize = 4
  MaxLost = 1
  MaxResets = 2
  OffsetWait = 6
  OffsetSamples = 3
  MaxMissed = 3
INVARIANT GivesUpOnLateBoard
INVARIANT LoopsHaveOffset
PROPERTY BootEnds
INVARIANT BothAgree
