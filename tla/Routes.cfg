SPECIFICATION RoutesSpec
CONSTANTS
  Conn = {c1, c2}
  Channel = {jobs, done}
  MaxNotes = 1
  MaxBatch = 1
CHECK_DEADLOCK FALSE
SYMMETRY RoutesSymmetry
INVARIANTS ListenerStaysRouted NoNotificationLost
