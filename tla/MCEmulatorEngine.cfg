CONSTANTS
  UI = UI
  Emulator = Emulator
  Controllers = {UI}
  Workers = {Emulator}
  MaxStatusTasks = 2
SPECIFICATION FairSpec
INVARIANTS NoLostWakeup PauseLeakBounded AtMostOneTask StopLatency StartBarrier
PROPERTIES UsesGate ResumeReleases PauseTakesHold StopEndsRunningTask
