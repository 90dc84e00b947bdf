\* Every page, with two queries, three loads and a command; lists of four and five rows in pages of
\* two; two tabs and two users; three requests on three accounts.
SPECIFICATION WebSpec
CONSTANTS
    Queries = {"q1", "q2"}
    MaxVersion = 2
    MaxPageLoads = 3
    MaxSent = 1
    ListRows = {1, 2, 3, 4, 5}
    FirstRows <- FourRows
    PageSize = 2
    MaxPage = 4
    Tabs = {"t1", "t2"}
    Usernames = {"ana", "sam"}
    RoleOf <- AccountRoles
    Capabilities = {"sales", "users"}
    FirstPaths = {"/users"}
    Links = {"/profile"}
    FirstTemporary = {}
    MaxSessions = 2
    Budgets <- SessionBudgets
    Accounts = {"ana", "bea", "eva"}
    Changes <- RoleChanges
    MaxAttempts = 4
INVARIANTS WalksAreWhole SomeAdministratorRemains
PROPERTIES ListsAreCurrent SessionIsShown EffectsAreAtomic EverythingIsAnswered
CHECK_DEADLOCK FALSE
