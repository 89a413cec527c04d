SPECIFICATION PaySpec
CONSTANTS
    t1 = t1  e1 = e1
    Null = Null
    Users = {u1, u2}
    Events = {e1}
    Tickets = {t1}
    HoldIds = {}
    HoldKeys = {}
    Keys = {k1, k2}
    Callers = {b1, b2, b3}
    EventOf <- MCEventOf
    Price <- MCPrice
    OnsaleAt <- MCOnsaleAt
    MaxRefunds = 1
INVARIANTS PayTypeOK ChargedOncePerKey OutcomeIsTheProviders RefundsAreOfCharges
PROPERTY OutcomeIsFinal
SYMMETRY Symmetry
