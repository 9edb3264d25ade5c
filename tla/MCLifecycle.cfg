SPECIFICATION LifecycleSpec
CONSTANTS
  Copies = {c1, c2}
  Others = {o}
INVARIANTS
  LifecycleTypeOK
  ChainsLive
  NobodyCutOff
  NoCaptureLeft
PROPERTY
  ReportHonest
