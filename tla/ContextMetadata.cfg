SPECIFICATION FairSpec
CONSTANTS
  Threads = {t1, t2}
  Contexts = {c1}
  Consumers = {k1}
  Nobody = Nobody
  StallReasons <- TwoReasons
INVARIANTS MTypeOK RoomForStallReasons TableWhole
PROPERTY MetadataComes
