SPECIFICATION PipelineSpec
CONSTANTS
  w1 = w1
  form = form
  Manager = Manager
  Dispatcher = Dispatcher
  NoProc = NoProc
  Orphan = Orphan
  Web <- MCWeb
  Sources <- MCSources
  Faults <- MCNone
  Dashboard <- MCNone
  Appointments <- MCAppointments
  ColdFollowups <- MCPlans
  Dispatched <- MCNurture
  MaxLeads = 1
  MaxOutreach = 1
  MaxEscalations = 1
  MaxAttempts = 1
  TurnCap = 0
  MaxTurns = 1
  MaxPolls = 1
PROPERTY StopTakesEffect
