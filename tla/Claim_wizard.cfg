SPECIFICATION FairSpec
CONSTANTS
  t1 = t1
  t2 = t2
  nobody = nobody
  Tabs = {t1}
  Nobody = nobody
  MaxEdits = 1
  MaxOrders = 2
  MaxDrafts = 4
  MaxActs = 3
  MaxLost = 1
  Overlap = TRUE
PROPERTIES DraftsKeepTheirOrder
CHECK_DEADLOCK FALSE
