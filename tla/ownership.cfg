SPECIFICATION FairSpec
CONSTANTS
  Cameras = {c1}
  Accounts = {a1, a2}
  Reports = {a1, Nobody}
  Operators = {o1, o2}
  MaxKeys = 2
  MaxOps = 3
  None = None
  Nobody = Nobody
INVARIANTS
  OwnershipTypeOK
  AdminBindingIsOwners
  LockboxesVouchedFor
PROPERTIES
  BindingSticky
  RowFollows
