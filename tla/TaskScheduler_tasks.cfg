SPECIFICATION Spec
CONSTANTS
  watch = watch
  brief = brief
  w = w
  h = h
  None = None
  Task = {watch, brief}
  Agent = {w, h}
  Once = {brief}
  DeleteAfter = {brief}
  AlertAgents = {}
  MaxRuns = 3
  MaxEdits = 0
  MaxFaults = 0
  AgentOf <- MCAgentOf
  Handler <- MCHandler
INVARIANTS
  ReservationsOwned
  NothingStranded
  NoResidue
  SweepSparesLive
