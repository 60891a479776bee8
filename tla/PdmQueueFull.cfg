SPECIFICATION QueueSpec
CONSTANTS
  TaskId = {ot, matter, app}
  IsrId = {}
  QueueSize = 3
  MayRefuse = FALSE
  NoId = NoId
INVARIANTS SaveOnItsWay
