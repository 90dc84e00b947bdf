\* A sale of two lines with every discount; two sales over three days; two dialogs opened
\* one after the other on every page; two attributes and one piece.
SPECIFICATION RulesSpec
CONSTANTS
    Entries <- TestEntries
    Percents = {0, 1050, 10000}
    Costs = {10}
    Rates = {6150}
    ManualProfits = {7}
    MaxLines = 2
    Ids = {"s1", "s2"}
    Deal <- Deals
    DopPerUsd = 2
    LastDay = 3
    MaxPayments = 2
    DialogPages = {"users", "customers", "catalogs", "pos", "invoice", "workOrders", "workOrder", "item", "qty"}
    MaxDialogs = 2
    MaxEdits = 2
    MaxAttributes = 2
    MaxItems = 1
    MaxSchemaEdits = 2
    MaxFactEdits = 3
PROPERTIES FiguresAddUp ReportsAgree DialogsTellTheirRows FactsFollowTheirAttributes
CHECK_DEADLOCK FALSE
