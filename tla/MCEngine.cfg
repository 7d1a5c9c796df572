SPECIFICATION LiveSpec
CONSTANTS
  p1 = p1
  p2 = p2
  NoPath = NoPath
  Paths <- OnePath
  Errors = {"offline", "403", "404"}
  FaultKinds = {"socket", "noSocket", "peer", "expiry"}
  MaxFaults = 1
  MaxEdits = 1
  Commands = {"reconnect", "task", "disconnect", "resume", "signIn", "signOut", "unload"}
  MaxCommands = 1
PROPERTIES EditsReachServer TasksRun
INVARIANTS NeverStranded NoSilentEdit Quiet
CHECK_DEADLOCK FALSE
