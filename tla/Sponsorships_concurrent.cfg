\* Two requests at a time on the sponsorships of one donor and one orphan.
CONSTANTS
    Slots = {s1, s2}
    Rows = {r1, r2}
    Donors = {d1}
    Orphans = {o1}
    Amounts = {1}
    Ops = {"create", "propose", "change", "donor", "orphan", "close", "redeliver", "crash"}
    MaxRequests = 5
SPECIFICATION Spec
SYMMETRY Interchangeable
INVARIANTS TypeOK OnePerPair PaidBeforeLive SettledIsNotPending
CHECK_DEADLOCK FALSE
