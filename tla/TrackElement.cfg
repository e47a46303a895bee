SPECIFICATION FairSpec
INVARIANT CopiesAgree
INVARIANT LoopsAllowed
PROPERTY CarSetsOff
PROPERTY CycleSpec
PROPERTY SearchEnds
