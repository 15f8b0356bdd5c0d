SPECIFICATION Spec
CONSTANTS
  l1 = l1
  l2 = l2
  c1 = c1
  c2 = c2
  c3 = c3
  t1 = t1
  None = None
  Reqs = {1, 2, 3, 4}
  Plans <- MCPlans
  Licenses = {l1, l2}
  Codes = {c1, c2, c3}
  Transfers = {t1}
  Stock <- MCStock
  FreshWindow = 1
  KeyLife = 2
  LeaseLife = 1
  TrialLife = 2
  TransferLife = 2
  CodeLife = 3
  MaxTime = 3
INVARIANTS TypeOK SingleWinner ExecutedOnce SameAnswer RevocationFades
PROPERTIES RedeemRecovers
