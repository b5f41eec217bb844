SPECIFICATION Spec
CONSTANTS
  g1 = g1
  g2 = g2
  owner = owner
  master = master
  tailor = tailor
  tailor2 = tailor2
  karigar = karigar
  nobody = nobody
  none = none
  part1 = part1
  part2 = part2
  Path <- QualityPath
  PerGarment <- AllButCreated
  Optional <- NoKeys
  Waived <- NoKeys
  Allowed <- DefaultRoles
  Garments = {g1, g2}
  NoGarment = none
  Carries <- CarriesAll
  PlacedWith <- AnyStart
  People = {owner, master, tailor}
  RoleOf <- Roles
  Staff = {master, tailor}
  Nobody = nobody
  PartIds = {}
  DataItems = {"tailor"}
CONSTRAINT BareUnlessSingle
INVARIANTS
  PrerequisitesSettled
PROPERTIES
  OrderTellsItsRows
  ReversalLeavesNothingAhead
  CompletionIsSignedOff
  
CHECK_DEADLOCK FALSE
