SPECIFICATION BulkSpec
CONSTANTS
  RelationIds <- MCRelationIds
  InvalidRid <- MCInvalidRid
  Elements = {1, 2}
  NUM_SAVED_PURCHASE_IDS = 5
  Users = {1, 2, 3}
  Batches <- MCBatches
  SavedBefore <- MCSavedBefore
  Buckets <- MCBuckets
  HitTimes = {1}
  NoRecord = NoRecord
  Garbage = Garbage
  MaxCalls = 2
INVARIANTS
  HandlersFit
  NoMixUp
PROPERTIES
  ReportsTellTheLoad
  LoadedHasItsRecord
  LastCookieIsSaved
