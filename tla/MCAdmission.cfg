SPECIFICATION FairSpec
CONSTANTS
  Holder = {h1, h2}
  Slug = {acme, beta}
  Ref = {r1, r2, r3}
  PoolSize = 4
  ReservedHeadroom = 2
  MonitorCallers = TRUE
  MaxGeneration = 1
  MaxHeld = 1
  Global = Global
  NoCall = NoCall
INVARIANTS TypeOK Accounting NoOrphanSlot
PROPERTIES FairShareAtGrant SlotReclaimed
