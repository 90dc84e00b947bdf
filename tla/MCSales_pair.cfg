\* Two documents of one customer against one credit limit, which draw on the three
\* series over two days.
SPECIFICATION Spec
CONSTANTS
    d1 = d1
    d2 = d2
    walkin = walkin
    acme = acme
    own = own
    Docs = {d1, d2}
    Customers = {walkin, acme}
    DefaultCustomer = walkin
    Keys = {own}
    ConfirmKey = own
    ClientKeys = {own}
    Currencies = {"DOP"}
    FiscalChoices = {FALSE}
    MaxAmount = 1
    Limits = {1}
    Terms = {1}
    QuoteValidity = 0
    MaxDay = 2
SYMMETRY Interchangeable
INVARIANTS NoCreditLeftBehind NumbersSound NumbersChronological
PROPERTIES ExposureGrowsWithinLimit
