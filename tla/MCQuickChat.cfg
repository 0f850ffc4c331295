CONSTANTS
  Requests = {q1, q2, q3, q4}
  Actions = {a1, a2}
  Tools <- MCTools
  Mentions <- MCMentions
  Policies <- MCPolicies
  Milliseconds = {1}
  MaxInFlight = 2
  MaxFaults = 1
  NoKey = NoKey
SPECIFICATION ChatSpec
SYMMETRY ChatSymmetry
INVARIANTS ChatTypeOK ExecutedIsLogged EffectsTraced RepeatsBounded ToolsWereSanctioned
CHECK_DEADLOCK FALSE
