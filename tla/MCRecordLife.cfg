SPECIFICATION Spec
CONSTANTS
  RelationIds <- MCRelationIds
  InvalidRid <- MCInvalidRid
  Elements = {1, 2}
  NUM_SAVED_PURCHASE_IDS = 3
  Cookies <- MCCookies
  Compared <- MCCompared
  Added <- MCAdded
  HitEvars <- MCHitEvars
INVARIANTS
  RoundTrip
  EqualIsExactForSameIds
  RejectedIsPartOfSaved
  SecondLoadKeepsTheRecord
PROPERTIES
  EvarsOfAHit
