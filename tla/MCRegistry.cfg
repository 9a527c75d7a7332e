SPECIFICATION FairSpec
CONSTANTS
  MAXSERVERS = 2
  Links = {l1}
  MaxCreates = 3
  maxc = 2
  Configured <- OneOfEach
  Interleaved = {"probe", "wipe", "create"}
  l1 = l1
INVARIANTS
  CountsLive
  LinksKeepServer
PROPERTIES
  NoServerLost
  DeletedRemoved
  CloneModeRecovers
