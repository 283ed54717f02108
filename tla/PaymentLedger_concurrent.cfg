\* Two requests at a time, all the operations; i1 is minted by /initiate or
\* quoted by nobody, i2 was minted on the gateway's portal.
CONSTANTS
    Slots = {s1, s2}
    Rows = {r1, r2}
    Invoices = {i1, i2}
    Linked = {i1, i2}
    Legacy = {i2}
    ManualRefs = {i2}
    NoInvoice = NoInvoice
    Kinds = {"Paid", "Refunded"}
    Overrides = {"pending"}
    StaffOps = {"initiate", "manual", "refund", "override", "replay", "crash"}
    Amount = 2
    Opening = 0
    MaxExtras = 3
SPECIFICATION Spec
SYMMETRY Interchangeable
INVARIANTS TypeOK NeverOverCredited OneRowPerInvoice
CHECK_DEADLOCK FALSE
