\* One tab of the point of sale, a customer on credit; nothing is lost.
SPECIFICATION Spec
CONSTANTS d1 = d1 d2 = d2 api = api t1 = t1 t2 = t2
  Desks = {} Scripts = {}
  InvoiceTotal = 1 MaxModals = 1 MaxCommands = 1 MaxScripted = 0 MaxOpens = 0 MaxLostCommands = 0
  Tabs = {t1} Credit = TRUE Prices = {1} Kinds = {"DRAFT"}
  MaxDrafts = 3 MaxLines = 2 MaxForms = 2 MaxCalls = 5 MaxVisits = 3 MaxLost = 0
INVARIANTS ConfirmedDraftWasShown
CHECK_DEADLOCK FALSE
