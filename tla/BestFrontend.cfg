SPECIFICATION Spec
CONSTANTS
  MaxFe = 3
  Priority = {0, 1}
INVARIANTS SpectrumChoice StaysOnOwnFrontend
CHECK_DEADLOCK FALSE
