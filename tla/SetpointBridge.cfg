SPECIFICATION FairSpec
CONSTANTS
  None = None
  Scenes <- MCBridgeScenes
  Idle = 10
  Round = 50
  MaxDischarge = 5000
  SafeDischarge = 4020
  SafeDischargeOn = FALSE
  BatteryWh = 1000
  Baseload = 50
  ExportSoc = 80
  FullChargeExportSoc = 100
  DischargeSoc = 20
  FullChargeDischargeSoc = 57
  DrainThreshold = 100
  RelaxStep = 100
  KpPercent = 100
  Probe = 50
  HardClamp = 50
  ImportLimit = 60
  ExportMax = 6000
  ImportMax = 13000
  Deadband = 25
  Tolerance = 50
PROPERTIES
  DeadBridgeTightens
