SPECIFICATION FairSpec
CONSTANTS
  Servers <- TwoServers
  KeyOrder <- TwoKeys
  Clients <- OneClient
  Tasks <- ThreeTasks
  Loads = {1}
  MaxDeaths = 0
  MaxLeaseLosses = 0
  Policies = {"RR"}
PROPERTIES RoundRobinVisitsAll
