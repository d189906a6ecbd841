SPECIFICATION Spec
CONSTANTS
  north = north
  middle = middle
  other = other
  south = south
  Timetables <- MCTimetables
  Queries <- MCQueries
CHECK_DEADLOCK FALSE
INVARIANTS QueueExact AnswerIsJourney BestWhereNoThroughTrain
