\* The closed loop: positioning before a cube, going round it, pushing it off.
SPECIFICATION FairLoopSpec
CONSTANTS
  Readings <- ThreeReadings
  Faces <- Mouse
  Headings <- TwoHeadings
  IdentifyWait = 2
  ListSize = 1
INVARIANT StandsStillToIdentify
PROPERTY EpisodeEnds
