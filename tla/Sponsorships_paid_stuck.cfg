\* A paid proposal for an orphan the donor sponsors already.
CONSTANTS
    Slots = {s1}
    Rows = {r1, r2}
    Donors = {d1}
    Orphans = {o1}
    Amounts = {1}
    Ops = {"create", "propose"}
    MaxRequests = 2
SPECIFICATION FairSpec
PROPERTY PaidActivates
CHECK_DEADLOCK FALSE
