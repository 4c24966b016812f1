CHECK_DEADLOCK FALSE
CONSTANTS
  Clients = {c1, c2}
  Fds <- ThreeFds
  MaxFrames = 1
  MaxErrors = 1
SPECIFICATION FairSpec
PROPERTY AnsweredIsClosed
