SPECIFICATION FairSpec
CONSTANTS
  t1 = t1
  Free = Free
  Turns = {t1}
  QuietPolls = 3
  MaxFaults = 2
INVARIANTS TypeOK TurnsRecorded DeliveredOnce
PROPERTY RunTaskMovesOn
