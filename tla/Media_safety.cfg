SPECIFICATION MediaSpec
CONSTANTS
  r1 = r1
  r2 = r2
  i1 = i1
  i2 = i2
  setter = setter
  none = none
  Disc <- MCDisc
  LcHalf = 2
  OutSectors = 2
  MaxLength = 3
  MaxPages = 2
  AuthThread = {"v1", "v2"}
  MountThread = "main"
  EventThread = "event"
  PresentDisc = {"d1"}
  MaxSwaps = 1
  MaxAuths = 3
  Ps2Image = {"i1", "i2", "i3"}
  OnCd = {"i2", "i3"}
  Raw = {"i2"}
  Slots = {1, 2}
  Reader = {r1, r2}
  Setter = setter
  Umd = {i1, i2}
  NoUmd = none
  Sector = {1}
  MaxMutexes = 2
  MaxRuns = 2
  Content = {i1, i2, "ps2"}
  Launcher = {"ps2"}
  User = {"u1", "u2"}
  WithId = {"u1"}
  OpenThread = {r1, r2}
  WithBackup = {"u2"}
  MaxActs = 4
  NoRifThread = "nobody"
  Medium = {"cd", "dvd", "ps3", "other"}
  Recorded = {"psx", "ps2", "volume", "sector1", "plain"}
  MaxFailed = 4
  Base = 4
  KeySize = 3
  Rounds = 2
  Xor <- MCXor
  RapPbox <- MCPbox
  RapE1 <- MCE1
  RapE2 <- MCE2
SYMMETRY Symmetric
INVARIANTS AnswersDescribeImage DiscsAreKnown BootsWhatIsMounted UmdReadsAreWhole LicencesAreRight
CHECK_DEADLOCK FALSE
