CONSTANTS
  ntsc = ntsc
  pal = pal
  Image = {ntsc, pal}
  Png = {ntsc}
  Protected = {pal}
  Proxy = proxy
  Drive = drive
  None = none
  Raw = 2352
  SectorSize = {2048, 2352}
  ModeOf <- MCModeOf
  NameMode <- PalNamed
  UserMode = {0, 1}
SPECIFICATION VideoSpec
CONSTRAINT FewTypes
INVARIANTS ReadsOwnImage AddressedByImage NothingLeftBehind ProxyHasPort TypesAgree PatchTakenBack
