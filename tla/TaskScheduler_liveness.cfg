SPECIFICATION FairSpec
CONSTANTS
  watch = watch
  brief = brief
  w = w
  h = h
  None = None
  Task = {watch}
  Agent = {w, h}
  Once = {}
  DeleteAfter = {}
  AlertAgents = {w}
  MaxRuns = 2
  MaxEdits = 1
  MaxFaults = 1
  AgentOf <- MCAgentOf
  Handler <- MCHandler
PROPERTIES
  CallsEnd
  DueRuns
