SPECIFICATION LicenceSpec
CONSTANTS
  Content = {"a", "b", "ps2"}
  Launcher = {"ps2"}
  User = {"u1", "u2"}
  WithId = {"u1"}
  OpenThread = {"vsh"}
  WithBackup = {"u2"}
  MaxActs = 5
  NoRifThread = "nobody"
INVARIANTS CachedRapIsOfId
CHECK_DEADLOCK FALSE
