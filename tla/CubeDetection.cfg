\* A row of four overruns a counter of 0 to 3, a column of two does not.
SPECIFICATION FairSpec
CONSTANTS
  W = 4
  H = 2
  CounterSize = 4
  MIN_PIXEL_COUNT = 3
  MIN_X_PIXEL_COUNT = 2
  MIN_Y_PIXEL_COUNT = 2
INVARIANT BoxIsRed
INVARIANT NothingLeftOut
PROPERTY PictureAnswered
