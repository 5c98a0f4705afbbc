SPECIFICATION FairSpec
CONSTANTS
  Threads = {t1, t2}
  NoThread = NoThread
  Requests = 4
  MaxFiles = 3
  Shapes <- Damaged
  FileLists <- MCFileLists
INVARIANTS
  TypeOK
  EachHitOnce
  OneWorkerLostPerMissingFile
PROPERTIES
  ThreadsSeeRecordedOrder
  ImplementsHitQueue
  EveryThreadStops
  AllHitsReplayed
