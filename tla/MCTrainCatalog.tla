--------------------------- MODULE MCTrainCatalog ---------------------------
(* Small instances of TrainCatalog: an express that runs on one day, and a *)
(* night train that calls at the same stations the other way round, runs   *)
(* on two days and leaves its second stop after midnight.                  *)
EXTENDS TrainCatalog

CONSTANTS G1, G2, north, middle, south

Express == [stops |-> <<north, south>>, days |-> <<0>>, seats |-> 1, dates |-> {1}]
NightTrain ==
  [stops |-> <<south, middle, north>>, days |-> <<0, 1>>, seats |-> 2, dates |-> {1, 2}]

MCLines == {Express, NightTrain}
MCNames == Permutations(TrainNames)

=============================================================================
