SPECIFICATION MemorySpec
CONSTANTS
  RelationIds <- MCRelationIds
  InvalidRid <- MCInvalidRid
  Elements = {}
  NUM_SAVED_PURCHASE_IDS = 5
  KeySets <- Unordered
  Times = {1, 2}
  NoCookie = NoCookie
  NoNode = NoNode
  MaxRecords = 3
PROPERTY
  SavedIsFound
