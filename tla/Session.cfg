SPECIFICATION FairSpec
CONSTANTS
  ann = ann
  bea = bea
  none = none
  None = none
  Tabs = {1}
  People <- OnlyAnn
  MaxTokens = 2
  MaxStrays = 1
  Temporary <- OnlyAnn
INVARIANTS AGuardHasItsCheck
PROPERTIES StraysEndNothing DeadWorkspacesClose
