SPECIFICATION Spec
CONSTANTS
  store = store
  workshop = workshop
  floor = floor
  back1 = back1
  back2 = back2
  bench = bench
  nowhere = nowhere
  Places = {store, workshop}
  Default = store
  Nowhere = nowhere
  Spots = {floor, back1, back2, bench}
  PlaceOf <- Where
  WalkOrder <- Walk
  ShopFloor = {floor}
  MaxStock = 5
  MaxStep = 2
INVARIANTS
  ReservedIsInStock
  
PROPERTIES
  NotShelvedFirst
