SPECIFICATION CoreFairSpec
CONSTANTS
  engine = engine
  ui = ui
  finalizer = finalizer
  Clients = {engine, ui}
  Scripts <- MCPlainScripts
  Failures = {}
  Builds = {"reread"}
PROPERTY StopHonoured
