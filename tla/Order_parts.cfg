SPECIFICATION Spec
CONSTANTS
  g1 = g1
  g2 = g2
  owner = owner
  master = master
  tailor = tailor
  tailor2 = tailor2
  karigar = karigar
  nobody = nobody
  none = none
  part1 = part1
  part2 = part2
  Path <- ReworkPath
  PerGarment <- AllButCreated
  Optional <- NoKeys
  Waived <- NoKeys
  Allowed <- DefaultRoles
  Garments = {g1}
  NoGarment = none
  Carries <- CarriesAll
  PlacedWith <- AllGarments
  People = {owner, tailor, tailor2}
  RoleOf <- Roles
  Staff = {tailor, tailor2}
  Nobody = nobody
  PartIds = {part1, part2}
  DataItems = {}
SYMMETRY PartSymmetry
INVARIANTS
  SettledStepsHaveDoneParts
  TasksTellTheirStage
