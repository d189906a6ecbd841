SPECIFICATION Spec
CONSTANTS
  G1 = G1
  G2 = G2
  north = north
  middle = middle
  south = south
  TrainNames = {G1, G2}
  Lines <- MCLines
  MaxTrains = 3
  MaxLog = 6
  MaxTime = 2
SYMMETRY MCNames
INVARIANTS IndicesExact NamesUnique LogTellsEachLife QueryTicketExact
