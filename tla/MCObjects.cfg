SPECIFICATION Spec
CONSTANTS
  ann = ann
  bob = bob
  bag = bag
  bag2 = bag2
  flask = flask
  well = well
  coins = coins
  corpse = corpse
  here = here
  donation = donation
  Null = Null
  Objs = {bag, flask, well, coins, corpse}
  Chars = {ann, bob}
  Rooms = {here, donation}
  Here = here
  Kind <- MCKind
  EmptyWeight <- MCEmpty
  Capacity <- MCCapacity
  MaxItems = 3
  MaxLoad = 5
  Full = 2
  May = {}
SYMMETRY Symmetry
INVARIANTS
  TypeOK
  PlacedOnce
  WeightsAddUp
