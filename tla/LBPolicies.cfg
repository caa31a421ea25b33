SPECIFICATION FairSpec
CONSTANTS
  Servers <- TwoServers
  KeyOrder <- TwoKeys
  Clients <- OneClient
  Tasks <- ThreeTasks
  Loads = {0, 1}
  MaxDeaths = 1
  MaxLeaseLosses = 1
  Policies = {"PF", "RR", "LL"}
INVARIANTS TypeOK LoadsMatchServers PanicNeedsLoss AnswerIsRight
PROPERTIES LeastLoadChosen UnregisteredLeave KeptServersListed CallsSucceed PanicEndsServers
