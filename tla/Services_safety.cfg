SPECIFICATION ServicesSpec
CONSTANTS
  c1 = c1
  c2 = c2
  a1 = a1
  a2 = a2
  t1 = t1
  t2 = t2
  boot = boot
  p1 = p1
  p2 = p2
  Client = {c1, c2}
  BootThread = boot
  MaxPlugins = 2
  MaxKernel = 1
  Prx = {p1, p2}
  Name = {"a", "b"}
  NameOf <- MCNameOf
  MaxLines = 1
  AccessKey = {0, 1}
  NoKey = 0
  HenSyscall = {6, 7, 8}
  GameId = {"hb", "game", "psp"}
  RetailId = {"game"}
  LauncherId = {"psp"}
  ListFile <- MCListFile
  Loader = {t1, t2}
  Mod = {"vsh", "plug", "game"}
  NoMod = "none"
  ModuleKind <- MCModuleKind
  Shape <- MCShape
  Entry <- MCEntry
  PatchTable <- MCPatchTable
  Condition = {"psp"}
  AudioEntry = 2
  MaxTotal = 3
  Kernel = {"k1"}
  HookKind = {"plain", "precall", "precall_success", "postcall", "cond_postcall"}
  NParams = {0, 1, 2, 3, 4, 5, 6, 7, 8}
  Stacked = FALSE
  PsRegion = {1, 2, 3}
  DvdRegion = {0, 1, 2, 4}
  BdRegion = {0, 1, 2}
  DvdRegionOf <- MCDvdOf
  BdRegionOf <- MCBdOf
  HomeRegion = 1
  ConfigSize = {0, 1, 2}
  ApiClient = {a1, a2}
  Pid = {"game"}
  Page = {"g1"}
  SecondIdps = TRUE
  HenUser = {"u1", "u2"}
  Enough = 3
  FirstChoice <- MCFirstChoice
  FirstWeb <- MCFirstWeb
  MaxSwitches = 1
  MaxToggles = 1
SYMMETRY Symmetric
INVARIANTS TableIsTrue  OwnKeysAndPatches HooksAreSound SettingsServed ProcessCallsClean KernelCodeAgrees
CHECK_DEADLOCK FALSE
