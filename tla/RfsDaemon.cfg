SPECIFICATION Spec
CONSTANTS
  c1 = c1
  c2 = c2
  c3 = c3
  NOBODY = NOBODY
  GARBAGE = GARBAGE
  Clients <- MCClients
  Commands <- MCCommands
  Pieces = 2
  MaxFds = 2
  MaxBacklog = 5
  MaxKills = 1
  MaxFailures = 1
INVARIANTS
  OneAtATime
  AnswersAreOwn

  
CHECK_DEADLOCK FALSE
