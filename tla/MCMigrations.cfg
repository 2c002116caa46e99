SPECIFICATION FairSpec
CONSTANTS
  r1 = r1  r2 = r2  r3 = r3
  meta = meta  pdl = pdl  later = later  changed = changed
  Runners = {r1, r2, r3}
  Bundles <- MCBundles
  Versions = {1, 2, 3}
  Texts = {meta, pdl, later, changed}
  None = None
  MaxFaults = 1
INVARIANTS
  TypeOK
  LedgerIsExecuted
  SucceededIsCurrent
  RefusedForCause
  ExecutedInOrder
PROPERTIES
  EveryRunnerEnds
