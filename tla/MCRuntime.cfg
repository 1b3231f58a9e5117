SPECIFICATION Spec
CONSTANTS
  l1 = l1
  l2 = l2
  Launcher = {l1, l2}
  Pid = {1, 2}
  ImageSize = 2
  MaxOpen = 1
  MaxCommands = 3
  MaxReboots = 1
SYMMETRY Alike
INVARIANTS
  TermsOnlyServers
  RunsOneImage
PROPERTIES
  StoppedMeansGone
  StartRefusalsExplained
