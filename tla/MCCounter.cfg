\* Two pages of one invoice and a script that calls the API; two tabs of the point of
\* sale.  A command or its answer is lost.
SPECIFICATION Spec
CONSTANTS d1 = d1 d2 = d2 api = api t1 = t1 t2 = t2
  Desks = {d1, d2} Scripts = {api}
  InvoiceTotal = 2 MaxModals = 2 MaxCommands = 3 MaxScripted = 1 MaxOpens = 2 MaxLostCommands = 1
  Tabs = {t1, t2} Credit = FALSE Prices = {1} Kinds = {"DRAFT"}
  MaxDrafts = 2 MaxLines = 2 MaxForms = 1 MaxCalls = 4 MaxVisits = 2 MaxLost = 1
SYMMETRY Interchangeable
INVARIANTS DeskTellsTheLedger DraftsAreAsReviewed
CHECK_DEADLOCK FALSE
