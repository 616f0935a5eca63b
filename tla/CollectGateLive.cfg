CONSTANTS
  Threads = {main, t1}
  Main = main
  None = None
  MaxFrames = 2
SPECIFICATION FairSpec
PROPERTIES
  CollectReturns
  StartedThreadRuns
