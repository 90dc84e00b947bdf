SPECIFICATION SceneSpec
CONSTANTS
    d1 = d1
    walkin = walkin
    acme = acme
    own = own
    k1 = k1
    r1 = r1
    r2 = r2
    Docs = {d1}
    Customers = {walkin, acme}
    DefaultCustomer = walkin
    Keys = {own, k1}
    ConfirmKey = own
    ClientKeys = {own, k1}
    Currencies = {"DOP", "USD"}
    FiscalChoices = {TRUE, FALSE}
    MaxAmount = 2
    Limits = {1, 2}
    Terms = {1}
    QuoteValidity = 1
    MaxDay = 3
    Requests = {r1, r2}
    Faults = {"DATABASE", "PROCESS"}
INVARIANTS ACTypeOK RowShape MoneyBounded MovementsAddUp FiscalIdentityFrozen CreditHonoured OutcomesBelongToTheirSale
PROPERTIES RecognitionFinal LedgerImplemented OutcomesFinal InvoiceGetsDocument
