SPECIFICATION CallbackSpec
CONSTANTS
  Capacity = 3
  Producers = {game, other}
  Game = game
  Worker = worker
  Nobody = nobody
  MaxPush = 2
  MaxFill = 2
  MaxAccepted = 4
  PositionModulus = 16
  FirstPosition = 12
INVARIANTS PlaysInOrder SlotsApart HistoryNotPlayed
PROPERTIES FillReturns StopSparesLaterPushes QueueSpec
