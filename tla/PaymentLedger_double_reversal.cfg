\* Two overlapping deliveries of one refund report.
CONSTANTS
    Slots = {s1, s2}
    Rows = {r1, r2}
    Invoices = {i1}
    Linked = {i1}
    Legacy = {}
    ManualRefs = {}
    NoInvoice = NoInvoice
    Kinds = {"Paid", "Refunded"}
    Overrides = {}
    StaffOps = {"initiate"}
    Amount = 1
    Opening = 1
    MaxExtras = 3
SPECIFICATION Spec
INVARIANT RefundReversesOnce
CHECK_DEADLOCK FALSE
