\* One request at a time, every report on one checkout, manual payments beside
\* it; ops set no status by hand.
CONSTANTS
    Slots = {s1}
    Rows = {r1, r2}
    Invoices = {i1}
    Linked = {i1}
    Legacy = {}
    ManualRefs = {}
    NoInvoice = NoInvoice
    Kinds = {"Paid", "Authorized", "Failed", "Refunded", "RefundFailed"}
    Overrides = {}
    StaffOps = {"initiate", "manual", "refund", "replay", "crash"}
    Amount = 1
    Opening = 1
    MaxExtras = 2
SPECIFICATION FairSpec
INVARIANTS AcknowledgedChargeIsSettled BooksCoverCompleted
PROPERTIES ReceiptOnFlip PaidIsSettled
CHECK_DEADLOCK FALSE
