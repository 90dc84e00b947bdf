\* A caller of the API that sends any command under any key; no page is open.
SPECIFICATION Spec
CONSTANTS d1 = d1 d2 = d2 api = api t1 = t1 t2 = t2
  Desks = {} Scripts = {api}
  InvoiceTotal = 2 MaxModals = 2 MaxCommands = 3 MaxScripted = 3 MaxOpens = 0 MaxLostCommands = 0
  Tabs = {} Credit = FALSE Prices = {1} Kinds = {"DRAFT"}
  MaxDrafts = 1 MaxLines = 1 MaxForms = 1 MaxCalls = 1 MaxVisits = 1 MaxLost = 0
INVARIANTS ExecutedCancellationIsAcknowledged
CHECK_DEADLOCK FALSE
