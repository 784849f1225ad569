SPECIFICATION ConductorSpec
CONSTANTS
  w1 = w1
  w2 = w2
  form = form
  Manager = Manager
  Dispatcher = Dispatcher
  NoProc = NoProc
  Orphan = Orphan
  Web <- MCWeb
  Sources <- MCSources
  Faults <- MCLiveFaults
  MaxLeads = 1
  MaxOutreach = 1
  MaxEscalations = 1
  MaxAttempts = 1
  TurnCap = 2
  MaxTurns = 1
  MaxPolls = 1
  Dashboard <- MCArchive
  Appointments <- MCAppointments

PROPERTIES RequestsEnd StopTakesEffect
