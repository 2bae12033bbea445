SPECIFICATION FairSpec
CONSTANTS
    Users = {u1, u2}
    Payments = {p1}
    Rides = {r1}
    Prices = {1}
    Handlers = {h1, h2}
    Credits = {c1, c2}
    None = None
INVARIANTS
    TypeOK
    BalanceIsSumOfLines
    TopupIsPaid
PROPERTIES
    ImplementsLedger
    CreditEnds
CHECK_DEADLOCK FALSE
