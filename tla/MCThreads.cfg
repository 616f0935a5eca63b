CONSTANTS
  Threads = {main, t1, t2}
  Main = main
  None = None
  MaxFrames = 2
  Part = {"gate", "holes", "small", "heap", "roots", "delegates"}
  Objects = {a, b, c}
  Reborn = d
  Raisers = {main, u}
  Storers = {main}
  MaxDelegates = 4
SPECIFICATION ThreadsSpec
INVARIANTS
  TypeOK
  OneCollector
  CounterExact
  LocksGivenBack
  MonitorExcludes
  HolderOwnsItsLock
  SmallFoundIsFlagged
  ListSound
  RegistryAgrees
  DelegatesAgree
PROPERTY
  FramesChangeByThrowOnly
SYMMETRY Symmetric
