CONSTANTS
  IntBits = 4
  MaxItem = 2
  CharBits = 1
  ShortBits = 2
  HalfBits = 1
  FloatBits = 2
  Lanes = {2, 3, 4}
  Devices = 2
  Lengths = {1, 9, 17}
  MaxBuilds = 2
SPECIFICATION MarshallingSpec
INVARIANTS
  InfoArrives
  SizesArrive
  TriplesArrive
  ArgumentsArrive
  WaysToSet
  BinariesArrive
  WritesInside
CHECK_DEADLOCK FALSE
