\* irq_mode is on from the start: insmod edac_cortex_ref.ko irq_mode=1
CONSTANTS
  NrCsrows = 1
  NrChannels = 1
  CeLimit = 1
  UeLimit = 1
  HalfRange = 2
  CountRange = 2
  MaxQueued = 1
  IrqModes = {TRUE}
SPECIFICATION FairSpec
PROPERTY DrainedInIrqMode
