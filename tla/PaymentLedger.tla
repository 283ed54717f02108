--------------------------- MODULE PaymentLedger ---------------------------
(***************************************************************************)
(* The payments of one sponsorship and the books the sponsorship keeps of  *)
(* them (sponsorships.total_paid, payments_count): hosted checkout,        *)
(* MyFatoorah webhooks and their replay, manual entry, refunds and the     *)
(* status override of ops (api/v1/payments.py, api/v1/webhooks.py).        *)
(*                                                                         *)
(* Every handler is one READ COMMITTED transaction that reads rows with    *)
(* plain SELECTs, decides, and writes ABSOLUTE column values computed from *)
(* what it read.  A request is therefore a short program: one step per     *)
(* read, and a last step that writes and commits.  Row locks are held only *)
(* from the flush to the commit, so flush and commit are one step: whoever *)
(* reads in between sees the old row, whoever writes in between waits.     *)
(***************************************************************************)
EXTENDS Integers, FiniteSets

CONSTANTS
    Slots,        \* requests the API can be serving at the same moment
    Rows,         \* ids the payments table can hand out (a bound)
    Invoices,     \* invoices MyFatoorah can mint
    Linked,       \* those whose CustomerReference is this sponsorship's code
    Legacy,       \* those minted outside /initiate (MyFatoorah's own portal)
    ManualRefs,   \* those staff may quote when they enter a payment by hand
    NoInvoice,    \* the NULL gateway_transaction_id
    Kinds,        \* what MyFatoorah reports in this instance
    Overrides,    \* statuses ops set by hand in this instance
    StaffOps,     \* staff operations in use, and "crash"
    Amount,       \* every payment is of this amount
    Opening,      \* payments on the books before the first step
    MaxExtras     \* bound on staff requests, redeliveries, replays, crashes

PaymentKinds == {"Paid", "Authorized", "Failed", "Unknown"}
RefundKinds  == {"Refunded", "PartiallyRefunded", "RefundFailed"}
Open         == {"pending", "processing"}
\* on_hold stands for chargeback and disputed too: no code tells them apart.
Statuses     == Open \cup {"completed", "failed", "refunded",
                           "partially_refunded", "on_hold"}

ASSUME LedgerAssumption ==
    /\ Linked \subseteq Invoices
    /\ Legacy \subseteq Invoices
    /\ ManualRefs \subseteq Invoices
    /\ NoInvoice \notin Invoices
    /\ Kinds \subseteq PaymentKinds \cup RefundKinds
    /\ Overrides \subseteq Statuses
    /\ Amount \in Nat \ {0}
    /\ Opening \in Nat
    /\ MaxExtras \in Nat

VARIABLES
    payments,     \* the payments table
    books,        \* the sponsorship: its status, total_paid, payments_count
    reqs,         \* what each slot is doing, with all it has read so far
    minted,       \* invoices that exist at the gateway
    payable,      \* invoices whose payment URL somebody holds
    events,       \* what happened at the gateway, to be reported to us
    log,          \* inbound_webhook_log: payloads and whether answered 200
    receipts,     \* history: receipt e-mails sent per invoice
    completions,  \* history: times a payment of this account got completed
    extras        \* bound counter for MaxExtras

vars == <<payments, books, reqs, minted, payable, events, log, receipts,
          completions, extras>>

Payment == [status : Statuses \cup {"absent"},
            txn : Invoices \cup {NoInvoice}, sponsored : BOOLEAN]
Books   == [status : {"pending", "active"}, total : Int, count : Nat]
PaymentEvent == [inv : Invoices, kind : PaymentKinds]
RefundEvent  == [inv : Invoices, kind : RefundKinds]
Event   == PaymentEvent \cup RefundEvent
Entry   == [inv : Invoices, kind : PaymentKinds \cup RefundKinds, ok : BOOLEAN]

Idle == [pc |-> "idle"]
Request ==
    {Idle}
    \cup [pc : {"sponsorshipRead", "inserting"}, ev : PaymentEvent, snap : Books]
    \cup [pc : {"flipping"}, ev : PaymentEvent, snap : Books, row : Rows,
          seen : Open]
    \cup [pc : {"refundRead"}, ev : RefundEvent, row : Rows, seen : Statuses]
    \cup [pc : {"reversing"}, ev : RefundEvent, row : Rows, snap : Books]
    \cup [pc : {"sending"}, sponsored : BOOLEAN]
    \cup [pc : {"invoiced"}, inv : Invoices]
    \cup [pc : {"recording"}, txn : ManualRefs \cup {NoInvoice},
          sponsored : BOOLEAN, snap : Books]
    \cup [pc : {"refunding", "refunded"}, row : Rows, full : BOOLEAN]

TypeOK ==
    /\ payments \in [Rows -> Payment]
    /\ books \in Books
    /\ reqs \in [Slots -> Request]
    /\ minted \subseteq Invoices
    /\ payable \subseteq Invoices
    /\ events \subseteq Event
    /\ log \subseteq Entry
    /\ receipts \in [Invoices -> Nat]
    /\ completions \in Nat
    /\ extras \in Nat

Absent == [status |-> "absent", txn |-> NoInvoice, sponsored |-> FALSE]

Init ==
    /\ payments = [r \in Rows |-> Absent]
    /\ books \in [status : {"pending", "active"}, total : {Opening * Amount},
                  count : {Opening}]
    /\ reqs = [s \in Slots |-> Idle]
    /\ minted = Legacy
    /\ payable = Legacy
    /\ events = {}
    /\ log = {}
    /\ receipts = [i \in Invoices |-> 0]
    /\ completions = 0
    /\ extras = 0

-----------------------------------------------------------------------------
(* Reading and writing the two tables.                                     *)

\* mutant: the lookup skips the rows that have settled
OpenRowsOf(inv) == {r \in Rows : payments[r].status \in Open /\ payments[r].txn = inv}

\* SELECT ... WHERE gateway_transaction_id = inv.  The column is indexed but
\* not UNIQUE, and db.scalar takes whichever row comes first.
RowsOf(inv) == {r \in Rows : payments[r].status # "absent" /\ payments[r].txn = inv}

\* Each INSERT takes an id no row has (uuid4).
FreeRows == {r \in Rows : payments[r].status = "absent"}

\* A payment of this account, by its sponsorship_id or by its reference.
OnAccount(p) == p.sponsored \/ p.txn \in Linked

\* A commit that leaves row r as p: the history of completions.
Completed(r, p) ==
    IF p.status = "completed" /\ payments[r].status # "completed" /\ OnAccount(p)
    THEN completions + 1 ELSE completions

\* mutant: UPDATE ... SET total_paid = total_paid + amount
CreditedInPlace(snap) == [books EXCEPT !.total = @ + Amount, !.count = @ + 1]

\* total_paid and payments_count written from the values read earlier.
Credited(snap) == [books EXCEPT !.total = snap.total + Amount,
                                !.count = snap.count + 1]

\* The webhook also activates a sponsorship it READ as pending.
CreditedAndActivated(snap) ==
    [Credited(snap) EXCEPT !.status = IF snap.status = "pending" THEN "active" ELSE @]

\* mutant: no max
ReversedBelowZero(snap) == [books EXCEPT !.total = snap.total - Amount,
                                         !.count = snap.count - 1]

\* max(count - 1, 0); an unchanged column is not in the UPDATE.
Reversed(snap) == [books EXCEPT !.total = snap.total - Amount,
                                !.count = IF snap.count > 0 THEN snap.count - 1 ELSE @]

OurStatus == [Paid |-> "completed", Authorized |-> "processing",
              Failed |-> "failed", Unknown |-> "pending"]
RefundStatus == [Refunded |-> "refunded", PartiallyRefunded |-> "partially_refunded",
                 RefundFailed |-> "failed"]

Goto(s, req) == reqs' = [reqs EXCEPT ![s] = req]

\* _run_and_log: one log row with the outcome, in the same commit.
Answer(s, ev, ok) ==
    /\ Goto(s, Idle)
    /\ log' = log \cup {[inv |-> ev.inv, kind |-> ev.kind, ok |-> ok]}

Extra == extras < MaxExtras /\ extras' = extras + 1

-----------------------------------------------------------------------------
(* MyFatoorah (external).                                                  *)

\* Something happens to an invoice a donor can pay; a refund needs a charge.
GatewayReports(inv, kind) ==
    /\ inv \in payable
    /\ kind \in RefundKinds => [inv |-> inv, kind |-> "Paid"] \in events
    /\ events' = events \cup {[inv |-> inv, kind |-> kind]}
    /\ events' # events
    /\ UNCHANGED <<payments, books, reqs, minted, payable, log, receipts,
                   completions, extras>>

Acknowledged(ev) == [inv |-> ev.inv, kind |-> ev.kind, ok |-> TRUE] \in log
InFlight(ev) == \E s \in Slots : "ev" \in DOMAIN reqs[s] /\ reqs[s].ev = ev

-----------------------------------------------------------------------------
(* The webhook: a charge changed its state.                                *)

\* _process_myfatoorah_payload reads the sponsorship BEFORE the payment.
ReceivePayment(s, ev) ==
    /\ ev.kind \in PaymentKinds
    /\ Goto(s, [pc |-> "sponsorshipRead", ev |-> ev, snap |-> books])
    /\ UNCHANGED log

\* _process_refund_event reads the payment first, and 404s without one; a
\* repeated refund status is a duplicate.
ReceiveRefund(s, ev) ==
    /\ ev.kind \in RefundKinds
    /\ \/ RowsOf(ev.inv) = {} /\ Answer(s, ev, FALSE)
       \/ \E r \in RowsOf(ev.inv) :
            IF /\ payments[r].status \in {"refunded", "partially_refunded"}
               /\ payments[r].status = RefundStatus[ev.kind]
            THEN Answer(s, ev, TRUE)
            ELSE /\ Goto(s, [pc |-> "refundRead", ev |-> ev, row |-> r,
                             seen |-> payments[r].status])
                 /\ UNCHANGED log

Receive(s, ev) ==
    /\ reqs[s] = Idle
    /\ ReceivePayment(s, ev) \/ ReceiveRefund(s, ev)
    /\ UNCHANGED <<payments, books, minted, payable, events, receipts, completions>>

\* The gateway delivers a report nobody has answered with a 200 yet.
Deliver(s, ev) ==
    /\ ev \in events /\ ~Acknowledged(ev) /\ ~InFlight(ev)
    /\ Receive(s, ev)
    /\ UNCHANGED extras

\* The same report once more: answered already, or still being processed.
Redeliver(s, ev) ==
    /\ ev \in events /\ (Acknowledged(ev) \/ InFlight(ev))
    /\ Receive(s, ev)
    /\ Extra

\* replay_inbound_webhook: an operator re-feeds a logged payload.
Replay(s, ev) ==
    /\ "replay" \in StaffOps
    /\ \E ok \in BOOLEAN : [inv |-> ev.inv, kind |-> ev.kind, ok |-> ok] \in log
    /\ Receive(s, ev)
    /\ Extra

\* mutants: a pending row is not awaited; no check for a settled row at all
OnlyProcessing(p) == p.status = "processing"
AnyRow(p)         == p.status # "refunded"

AwaitsOutcome(p) == p.status \in Open

\* An open row is going to be flipped; any other, a failed or a refunded one too,
\* makes the delivery a duplicate answered 200; and without a row the legacy path
\* is going to insert one.
LookUpPayment(s) ==
    /\ reqs[s].pc = "sponsorshipRead"
    /\ LET ev == reqs[s].ev IN
       \/ /\ RowsOf(ev.inv) = {}
          /\ Goto(s, [reqs[s] EXCEPT !.pc = "inserting"])
          /\ UNCHANGED log
       \/ \E r \in RowsOf(ev.inv) :
            IF AwaitsOutcome(payments[r])
            THEN /\ Goto(s, [pc |-> "flipping", ev |-> ev, snap |-> reqs[s].snap,
                             row |-> r, seen |-> payments[r].status])
                 /\ UNCHANGED log
            ELSE Answer(s, ev, TRUE)
    /\ UNCHANGED <<payments, books, minted, payable, events, receipts,
                   completions, extras>>

\* The row as the webhook's UPDATE leaves it: none is emitted for a status
\* equal to the one read, so a concurrent change then survives.
Flipped(req) ==
    [payments[req.row] EXCEPT !.status =
        IF OurStatus[req.ev.kind] = req.seen THEN @ ELSE OurStatus[req.ev.kind]]

Credits(ev) == ev.kind = "Paid" /\ ev.inv \in Linked

\* Flush, refresh, receipt if the refreshed row is completed, log, commit.
FlipPayment(s) ==
    /\ reqs[s].pc = "flipping"
    /\ LET req == reqs[s]
           p   == Flipped(req)
       IN  /\ payments' = [payments EXCEPT ![req.row] = p]
           /\ completions' = Completed(req.row, p)
           /\ books' = IF Credits(req.ev) THEN CreditedAndActivated(req.snap) ELSE books
           /\ receipts' = IF p.status = "completed"
                          THEN [receipts EXCEPT ![req.ev.inv] = @ + 1] ELSE receipts
           /\ Answer(s, req.ev, TRUE)
    /\ UNCHANGED <<minted, payable, events, extras>>

\* The legacy path: a charge that no /initiate announced.
InsertPayment(s) ==
    /\ reqs[s].pc = "inserting"
    /\ \E r \in FreeRows :
         LET ev == reqs[s].ev
             p  == [status |-> OurStatus[ev.kind], txn |-> ev.inv,
                    sponsored |-> ev.inv \in Linked]
         IN  /\ payments' = [payments EXCEPT ![r] = p]
             /\ completions' = Completed(r, p)
             /\ books' = IF Credits(ev) THEN CreditedAndActivated(reqs[s].snap) ELSE books
             /\ receipts' = IF p.status = "completed"
                            THEN [receipts EXCEPT ![ev.inv] = @ + 1] ELSE receipts
             /\ Answer(s, ev, TRUE)
    /\ UNCHANGED <<minted, payable, events, extras>>

\* mutant: whatever the payment was before
ReversesAnyway(req) == req.ev.kind = "Refunded" /\ payments[req.row].sponsored

\* Totals are reversed for a full refund of a row READ as completed.
ReversesTotals(req) ==
    /\ req.ev.kind = "Refunded" /\ req.seen = "completed"
    /\ payments[req.row].sponsored

ReadForReversal(s) ==
    /\ reqs[s].pc = "refundRead"
    /\ ReversesTotals(reqs[s])
    /\ Goto(s, [pc |-> "reversing", ev |-> reqs[s].ev, row |-> reqs[s].row,
                snap |-> books])
    /\ UNCHANGED <<payments, books, minted, payable, events, log, receipts,
                   completions, extras>>

WriteRefund(s, status) ==
    /\ payments' = [payments EXCEPT ![reqs[s].row].status = status]
    /\ Answer(s, reqs[s].ev, TRUE)
    /\ UNCHANGED <<minted, payable, events, receipts, completions, extras>>

ReverseAndRefund(s) ==
    /\ reqs[s].pc = "reversing"
    /\ books' = Reversed(reqs[s].snap)
    /\ WriteRefund(s, "refunded")

\* Every other refund report leaves the books alone.
RecordRefund(s) ==
    /\ reqs[s].pc = "refundRead"
    /\ ~ReversesTotals(reqs[s])
    /\ WriteRefund(s, IF RefundStatus[reqs[s].ev.kind] = reqs[s].seen
                      THEN payments[reqs[s].row].status
                      ELSE RefundStatus[reqs[s].ev.kind])
    /\ UNCHANGED books

-----------------------------------------------------------------------------
(* Hosted checkout: initiate_payment, admin_initiate_on_behalf.            *)

Begin(s, op, req) ==
    /\ op \in StaffOps
    /\ reqs[s] = Idle
    /\ Goto(s, req)
    /\ Extra

\* The pending row is flushed but not committed: no one else can see it.
Initiate(s, sponsored) ==
    /\ Begin(s, "initiate", [pc |-> "sending", sponsored |-> sponsored])
    /\ UNCHANGED <<payments, books, minted, payable, events, log, receipts, completions>>

\* SendPayment returns a new invoice; its CustomerReference is the code of the
\* sponsorship when there is one.
GatewayMints(s) ==
    /\ reqs[s].pc = "sending"
    /\ \E inv \in Invoices \ minted :
         /\ (inv \in Linked) = reqs[s].sponsored
         /\ minted' = minted \cup {inv}
         /\ Goto(s, [pc |-> "invoiced", inv |-> inv])
    /\ UNCHANGED <<payments, books, payable, events, log, receipts, completions, extras>>

\* PaymentGatewayError: rollback, an audit row, 502.
GatewayDeclines(s) ==
    /\ reqs[s].pc = "sending"
    /\ Goto(s, Idle)
    /\ UNCHANGED <<payments, books, minted, payable, events, log, receipts,
                   completions, extras>>

\* Commit, then answer with the URL: only now can the donor pay.
CommitInitiate(s) ==
    /\ reqs[s].pc = "invoiced"
    /\ \E r \in FreeRows :
         payments' = [payments EXCEPT ![r] =
            [status |-> "pending", txn |-> reqs[s].inv,
             sponsored |-> reqs[s].inv \in Linked]]
    /\ payable' = payable \cup {reqs[s].inv}
    /\ Goto(s, Idle)
    /\ UNCHANGED <<books, minted, events, log, receipts, completions, extras>>

-----------------------------------------------------------------------------
(* Staff: manual entry, refund through the gateway, status override.       *)

\* create_payment reads the sponsorship.
StartManual(s, txn, sponsored) ==
    /\ Begin(s, "manual", [pc |-> "recording", txn |-> txn, sponsored |-> sponsored,
                           snap |-> books])
    /\ UNCHANGED <<payments, books, minted, payable, events, log, receipts, completions>>

RecordManual(s) ==
    /\ reqs[s].pc = "recording"
    /\ \E r \in FreeRows :
         LET p == [status |-> "completed", txn |-> reqs[s].txn,
                   sponsored |-> reqs[s].sponsored]
         IN  /\ payments' = [payments EXCEPT ![r] = p]
             /\ completions' = Completed(r, p)
    /\ books' = IF reqs[s].sponsored THEN Credited(reqs[s].snap) ELSE books
    /\ Goto(s, Idle)
    /\ UNCHANGED <<minted, payable, events, log, receipts, extras>>

\* refund_payment checks the row it has read, then awaits MakeRefund.
StartRefund(s, r, full) ==
    /\ payments[r].status = "completed" /\ payments[r].txn # NoInvoice
    /\ Begin(s, "refund", [pc |-> "refunding", row |-> r, full |-> full])
    /\ UNCHANGED <<payments, books, minted, payable, events, log, receipts, completions>>

\* MyFatoorah gives back at most what was charged, and will report it too.
GatewayRefunds(s) ==
    /\ reqs[s].pc = "refunding"
    /\ LET inv  == payments[reqs[s].row].txn
           kind == IF reqs[s].full THEN "Refunded" ELSE "PartiallyRefunded"
       IN  /\ [inv |-> inv, kind |-> "Paid"] \in events
           /\ [inv |-> inv, kind |-> "Refunded"] \notin events
           /\ reqs[s].full => [inv |-> inv, kind |-> "PartiallyRefunded"] \notin events
           /\ events' = events \cup {[inv |-> inv, kind |-> kind]}
    /\ Goto(s, [reqs[s] EXCEPT !.pc = "refunded"])
    /\ UNCHANGED <<payments, books, minted, payable, log, receipts, completions, extras>>

GatewayRefusesRefund(s) ==
    /\ reqs[s].pc = "refunding"
    /\ Goto(s, Idle)
    /\ UNCHANGED <<payments, books, minted, payable, events, log, receipts,
                   completions, extras>>

\* The new status is written whatever became of the row; no totals change.
CommitRefund(s) ==
    /\ reqs[s].pc = "refunded"
    /\ payments' = [payments EXCEPT ![reqs[s].row].status =
                      IF reqs[s].full THEN "refunded" ELSE "partially_refunded"]
    /\ Goto(s, Idle)
    /\ UNCHANGED <<books, minted, payable, events, log, receipts, completions, extras>>

\* update_payment_status: read, compare, write, with nothing awaited between.
Override(s, r, status) ==
    /\ "override" \in StaffOps /\ reqs[s] = Idle /\ Extra
    /\ payments[r].status \notin {"absent", status}
    /\ payments' = [payments EXCEPT ![r].status = status]
    /\ completions' = Completed(r, [payments[r] EXCEPT !.status = status])
    /\ UNCHANGED <<books, reqs, minted, payable, events, log, receipts>>

-----------------------------------------------------------------------------
(* The worker dies: the transaction is rolled back and nothing is logged.  *)
(* A receipt is mailed before the commit, so it may be out already.        *)
Crash(s) ==
    /\ "crash" \in StaffOps /\ reqs[s] # Idle /\ Extra
    /\ Goto(s, Idle)
    /\ \/ UNCHANGED receipts
       \/ /\ \/ reqs[s].pc = "flipping" /\ Flipped(reqs[s]).status = "completed"
             \/ reqs[s].pc = "inserting" /\ reqs[s].ev.kind = "Paid"
          /\ receipts' = [receipts EXCEPT ![reqs[s].ev.inv] = @ + 1]
    /\ UNCHANGED <<payments, books, minted, payable, events, log, completions>>

-----------------------------------------------------------------------------
Webhook(s) == LookUpPayment(s) \/ FlipPayment(s) \/ InsertPayment(s)
              \/ ReadForReversal(s) \/ ReverseAndRefund(s) \/ RecordRefund(s)
Checkout(s) == GatewayMints(s) \/ GatewayDeclines(s) \/ CommitInitiate(s)
StaffStep(s) == RecordManual(s) \/ GatewayRefunds(s) \/ GatewayRefusesRefund(s)
                \/ CommitRefund(s)

Next ==
    \/ \E inv \in Invoices, kind \in Kinds : GatewayReports(inv, kind)
    \/ \E s \in Slots :
         \/ \E ev \in Event : Deliver(s, ev) \/ Redeliver(s, ev) \/ Replay(s, ev)
         \/ Webhook(s) \/ Checkout(s) \/ StaffStep(s) \/ Crash(s)
         \/ \E sponsored \in BOOLEAN : Initiate(s, sponsored)
         \/ \E txn \in ManualRefs \cup {NoInvoice}, sponsored \in BOOLEAN :
              StartManual(s, txn, sponsored)
         \/ \E r \in Rows, full \in BOOLEAN : StartRefund(s, r, full)
         \/ \E r \in Rows, status \in Overrides : Override(s, r, status)

Spec == Init /\ [][Next]_vars

(* A handler that started runs on; the gateway keeps delivering what it has *)
(* not had a 200 for (docs/architecture/notifications.md, "the gateway would *)
(* retry"): whenever a slot frees up again and again, the report gets one.  *)
Fairness ==
    /\ \A s \in Slots : WF_vars(Webhook(s)) /\ WF_vars(Checkout(s)) /\ WF_vars(StaffStep(s))
    /\ \A ev \in Event : SF_vars(\E s \in Slots : Deliver(s, ev))

FairSpec == Spec /\ Fairness
-----------------------------------------------------------------------------
(* Properties.                                                             *)

\* However requests overlap, crash, repeat or are replayed, the books never
\* count more payments, nor more money, than payments that became completed:
\* reading the sponsorship before the payment and writing absolute values
\* makes two deliveries of one charge credit it once
\* (webhooks.py, _process_myfatoorah_payload; payments.py, create_payment).
NeverOverCredited ==
    /\ books.count <= Opening + completions
    /\ books.total <= Amount * (Opening + completions)

\* An invoice minted by /initiate has one payment row at most, with any number
\* of deliveries at once, though no UNIQUE index says so: the row is committed
\* before anyone can pay (payments.py, initiate_payment; webhooks.py).
OneRowPerInvoice ==
    \A inv \in Invoices \ (Legacy \cup ManualRefs) :
        \A r1, r2 \in RowsOf(inv) : r1 = r2

\* A row says the donor's money was taken: it completed, whatever came of it since.
Taken == {"completed", "refunded", "partially_refunded", "on_hold"}

TakenOn(inv) == \E r \in RowsOf(inv) : payments[r].status \in Taken

\* MyFatoorah told us, and got its 200, that the charge or its refund failed.
\* A row either report has marked failed stays so: a Paid report that comes later
\* is answered as a duplicate, and the charge is never recorded.
FailureReported(inv) ==
    \E kind \in {"Failed", "RefundFailed"} : Acknowledged([inv |-> inv, kind |-> kind])

\* A charge we have acknowledged with a 200 is on a row that says the money was
\* taken, for the gateway will not tell us again; the one exception is an invoice
\* of which a failure was reported as well (webhooks.py, _run_and_log and
\* _process_myfatoorah_payload, the "duplicate" branch).
AcknowledgedChargeIsSettled ==
    \A inv \in Invoices : Acknowledged([inv |-> inv, kind |-> "Paid"]) =>
        TakenOn(inv) \/ FailureReported(inv)

\* Every completed payment of the sponsorship is on its books: what refunds take
\* off the books is never the money of a payment still held (webhooks.py,
\* _process_refund_event; payments.py, create_payment).
BooksCoverCompleted ==
    books.count >= Opening +
        Cardinality({r \in Rows : payments[r].sponsored /\ payments[r].status = "completed"})

\* A receipt goes out with the delivery that completes the payment, never for
\* one completed before: "the flip happened in this very request"
\* (webhooks.py, _process_myfatoorah_payload).
ReceiptOnFlip ==
    [][\A inv \in Invoices : receipts'[inv] > receipts[inv] =>
        \A r \in RowsOf(inv) : payments[r].status # "completed"]_vars

\* "Duplicate deliveries ... do not double-adjust totals" (myfatoorah.md): with
\* a single charge, its refund never eats into the payments made before it.
RefundReversesOnce == books.count >= Opening

\* A charge the gateway has made is on a row that says the money was taken in the
\* end, through crashes, retries and early refunds, unless a failure is reported
\* of the same invoice (webhooks.py, myfatoorah_webhook).
PaidIsSettled ==
    \A inv \in Invoices :
        [inv |-> inv, kind |-> "Paid"] \in events ~> TakenOn(inv) \/ FailureReported(inv)
=============================================================================
