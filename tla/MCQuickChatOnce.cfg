CONSTANTS
  Requests = {q1, q2, q3, q4}
  Actions = {a1}
  Tools <- OneTool
  Mentions <- OneMention
  Policies <- OnePolicy
  Milliseconds = {1}
  MaxInFlight = 1
  MaxFaults = 0
  NoKey = NoKey
SPECIFICATION ChatSpec
INVARIANT ActionRunsOnce
CHECK_DEADLOCK FALSE
