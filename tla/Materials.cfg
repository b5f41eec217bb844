SPECIFICATION PlansSpec
CONSTANTS
  store = store
  nowhere = nowhere
  first = first
  second = second
  blouse = blouse
  skirt = skirt
  gown = gown
  Places = {store}
  Default = store
  Nowhere = nowhere
  Spots = {}
  PlaceOf <- NoShelves
  WalkOrder <- NoShelves
  ShopFloor = {}
  MaxStock = 3
  MaxStep = 1
  Orders = {first}
  Lines = {blouse, skirt}
  OrderOf <- OrderOfGarment
  Sequence <- PlaceInPlan
  Required <- TwoForSkirt
  Packaging = TRUE
  MaxLine = 2
INVARIANTS
  ReservationsAddUp
PROPERTIES
  PlansKeepReservations
  NothingDrawnTwice
