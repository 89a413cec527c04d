SPECIFICATION Spec
CONSTANTS
    u1 = u1  u2 = u2  e1 = e1
    Null = Null
    Users = {u1, u2}
    Events = {e1}
    Tickets = {t1, t2}
    HoldIds = {h1, h2}
    HoldKeys = {}
    Keys = {k1}
    KeysOf <- SharedKeys
    Claimers = {c1}
    Callers = {b1}
    Reapers = {r1}
    EventOf <- MCEventOf
    Price <- MCPrice
    OnsaleAt <- MCOnsaleAt
    HoldTTL = 1
    PaymentBudget = 1
    MaxTicketsPerHold = 2
    MaxActiveHoldsPerUser = 1
    reapBatchSize = 1
    maxReapBatches = 1
    LastCall = 0
    MaxTime = 0
INVARIANT PayerIsBuyer
SYMMETRY Symmetry
