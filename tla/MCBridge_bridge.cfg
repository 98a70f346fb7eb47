\* A request, two clicks on cards old or new, a restart by the supervisor, and
\* three failures among List, Post, Decide and the link to Slack.
SPECIFICATION BridgeFairSpec
CONSTANTS
  Ids = {i1}
  Users = {"u1"}
  Clickers = {"c1", "c2"}
  identity <- Map
  Capacity = 1
  MaxFaults = 3
  MaxClicks = 2
  MaxRestarts = 1
  NoOne = NoOne  NoDecision = NoDecision
INVARIANT FourEyes
PROPERTY Presented
\* The supervisor gives up after MaxRestarts.
CHECK_DEADLOCK FALSE
