SPECIFICATION MCSpec
CONSTANTS
  Clients = {c1, c2}
  Puts = {w1, w2}
  Callers = {c1, c2, w1, w2}
  Old = Old
  NoFile = NoFile
  AtOnce = 1
  Units = {"bluealsa-aplay", "sshd"}
  Allow = {"bluealsa-aplay"}
  Installed = {"bluealsa-aplay", "sshd"}
  BoundUnit = "bluealsa-aplay"
  MaxActions = 2
  A2dpUnit = "bluealsa-aplay"
  A2dpEnabled = TRUE
  SystemdUnits = {}
  Controls = {"PCM"}
  HasVolume = {"PCM"}
  HasSwitch = {"PCM"}
  Lo = 3
  Hi = 90
  Percents = {0, 15, 250}
  Services = {"units", "mixer", "config"}
SYMMETRY Symmetry
INVARIANTS HostTypeOK EventIsFresh OnlyListed OkIsDone NeverLouder
  FileIntact AppliedIsRead
PROPERTY KeepsPromise
CHECK_DEADLOCK FALSE
