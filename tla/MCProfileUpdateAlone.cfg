SPECIFICATION Spec
CONSTANTS
  Threads = {t1}
  Users = {u1, u2}
  Visitors = {v1, v2}
  PurchaseIds = {p1, p2, p3}
  u1 = u1
  u2 = u2
  v1 = v1
  v2 = v2
  p1 = p1
  p2 = p2
  p3 = p3
  NoPurchase = NoPurchase
  NoRecord = NoRecord
  NUM_SAVED_PURCHASE_IDS = 2
  Replays <- Alone
  Requests = 5
  MaxFaulty = 0
PROPERTIES
  ImplementsProfileLog
