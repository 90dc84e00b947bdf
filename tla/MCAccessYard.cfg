\* Two browsers act for two accounts: every race between what a request has read and
\* what the other does meanwhile, over the time a session and a recovery take to expire.  And the yard:
\* three pieces, two mechanics, three documents.
SPECIFICATION ScenesSpec
CONSTANTS
  Users = {u1, u2}
  Browsers = {b1, b2}
  Tokens = {t1, t2}
  Recoveries = {r1}
  SessionTTL = 1
  RecoveryTTL = 1
  MaxTime = 1
  MaxHash = 3
  Items <- YardItems
  Categories <- Kinds
  CatOf <- KindOf
  Assemblies <- Composed
  FirstCatalogs <- Catalogs
  Receipts <- AllReceipts
  Growth <- Edits
  Renames <- NewNames
  ManualOrders <- PullAndPut
  Sellable = {"E", "P"}
  Protectable = {"T", "E"}
  Mechanics = {"m1", "m2"}
  Products = {"oil"}
  MaxInvoices = 3
  MaxOrders = 2
  MaxUnits = 2
  Recovery = TRUE
SYMMETRY Interchangeable
INVARIANTS CredentialsAreCurrent AnAdministratorRemains HoldsAgree
PROPERTIES AccountsChangeByRight TreeIsSound
CHECK_DEADLOCK FALSE
