CONSTANTS
  GroupOf <- MCGroupOf
  AngleOf <- MCAngleOf
  MinChunks = 1
  Interval = 2
  MaxFaults = 1
  Threads = {t1, t2}
  RecycleInterval = 2
  MaxGeneration = 3
  MaxHangs = 1
  MaxBreaks = 1
  Sites = {s1}
  MaxVolume = 3
  MaxMishaps = 2
  Stamps = {1, 2, 3}
  Products = {p1, p2}
  MaxKept = 2
  MaxUpsets = 1
  Cycle = 7
  FirstChunks = 2
  MaxChunks = 4
  MaxRecords = 4
SPECIFICATION MCSpec
INVARIANTS
  NothingLostOrTorn
  NeverRenderedTorn
  ParsingIsSound
PROPERTIES
  VolumeIsShown
  ExpiredThreadReturns
  InHandIsAccountedFor
CHECK_DEADLOCK FALSE
