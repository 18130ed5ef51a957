SPECIFICATION ReadsSpec
CONSTANTS
  split = split
  enc = enc
  dvd = dvd
  rip = rip
  net = net
  Image = {split, enc, dvd}
  Bound <- MCBound
  Header <- MCHeader
  Junk <- MCJunk
  Searched = {enc}
  KeyFile = {enc}
  NoImage = noimage
  NoKey = nokey
  BufSize = 2
  MaxOffset = 6
  MaxSize = 4
  NumSectors = 5
  CacheSize = 3
  CdBufSize = 4
  MaxStart = 6
  MaxCount = 6
  Disc = {enc, rip, net}
  Ntfs = {enc, rip}
  ProxyKeyFile = {enc}
  Region <- MCRegion
  NoDisc = nodisc
  ProxyNoKey = nokey
  ChunkSize = 2
  ProxyMaxOffset = 4
  ProxyMaxSize = 4
  TextLength = 5
  LineSize = 4
  MaxTaken = 2
  TrackCount = {1, 9, 40}
  SectorHeader = {0, 8, 24}
INVARIANTS DeliveredInPlace OpenOnActivePart Decoded CdDelivered ServedAsStored
