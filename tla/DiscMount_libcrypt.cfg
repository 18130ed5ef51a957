CONSTANTS
  Image = {png, protected, plain}
  Png = {png}
  Protected = {protected}
  Proxy = proxy
  Drive = drive
  None = none
  Raw = 2352
  SectorSize = {2048, 2352}
SPECIFICATION Spec
INVARIANTS LibCryptGameKeepsItsSize
