CONSTANTS
  UI = UI
  Emulator = Emulator
  Controllers = {UI}
  Workers = {Emulator}
  MaxStatusTasks = 2
SPECIFICATION FairSpec
PROPERTY StopKillsTasks
