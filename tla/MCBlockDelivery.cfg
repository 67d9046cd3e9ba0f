SPECIFICATION FairSpec
CONSTANTS
  Reasons = {"network", "serverError"}
  MaxTotal = 2
  Limit <- MCLimit
  Policies = {"block", "full", "until-tool-use"}
  Clients = {"anthropic", "responses", "chat"}
  Upstreams = {"anthropic", "responses", "chat", "commandcode"}
  Cap = 2
  Sizes = {1, 2}
  MaxUnits = 3
  MaxGroup = 2
  ToolConfigured = TRUE
  Unterminated = "incomplete"
INVARIANTS
  TypeOK
  AttemptsFunded
  InOrder
  OpensOnce
  OneEnding
  NothingLost
  CallFollowsReply
  DeadlineSaid
PROPERTIES
  PromiseKept
