SPECIFICATION Spec
CONSTANTS
  AddressSpace = 16
  Instructions <- SystemInstructions
  SlotInstructions <- SystemSlots
  BootAddresses <- MCReset
  WrittenStatus <- MCStatus
  WrittenAddresses <- MCAddresses
  DeviceInterrupts = FALSE
  Vector = 12
  ResetEPC = 15
PROPERTY EretResumes
