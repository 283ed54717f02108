\* One request at a time, beside the nightly worker and the gateway.
CONSTANTS
    Slots = {s1}
    Rows = {r1, r2}
    Donors = {d1}
    Orphans = {o1}
    Amounts = {1, 2}
    Ops = {"create", "propose", "change", "edit", "donor", "close", "redeliver", "crash"}
    MaxRequests = 5
SPECIFICATION FairSpec
PROPERTIES KeepsPromise PaidActivatesUnlessTwin
CHECK_DEADLOCK FALSE
