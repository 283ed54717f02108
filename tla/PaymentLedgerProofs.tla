------------------------ MODULE PaymentLedgerProofs ------------------------
(***************************************************************************)
(* TLAPS proofs about PaymentLedger, for any number of requests, invoices, *)
(* rows, crashes and redeliveries; in the last part, of what holds when    *)
(* the API serves one request at a time.                                   *)
(***************************************************************************)
EXTENDS PaymentLedger, FiniteSetTheorems, TLAPS

\* What a request record holds at each of its program points (PaymentLedger!Request).
LEMMA RequestFields ==
    ASSUME NEW req \in Request
    PROVE  /\ req.pc \in {"sponsorshipRead", "inserting", "flipping"}
              => req.ev \in PaymentEvent /\ req.snap \in Books
           /\ req.pc = "reversing" => req.ev \in RefundEvent /\ req.snap \in Books
           /\ req.pc = "refundRead" => req.ev \in RefundEvent /\ req.seen \in Statuses
           /\ req.pc = "flipping" => req.seen \in Open
           /\ req.pc \in {"flipping", "refundRead", "reversing", "refunding", "refunded"}
              => req.row \in Rows
           /\ req.pc \in {"sending", "recording"} => req.sponsored \in BOOLEAN
           /\ req.pc = "invoiced" => req.inv \in Invoices
           /\ req.pc = "recording"
              => req.txn \in ManualRefs \cup {NoInvoice} /\ req.snap \in Books
           /\ req.pc \in {"refunding", "refunded"} => req.full \in BOOLEAN
  BY DEF Request, Idle

\* A slot that goes to a request record leaves the slots well typed.
LEMMA GotoType ==
    ASSUME reqs \in [Slots -> Request], NEW s \in Slots, NEW req \in Request, Goto(s, req)
    PROVE  /\ reqs' \in [Slots -> Request]
           /\ reqs'[s] = req
           /\ \A t \in Slots : t # s => reqs'[t] = reqs[t]
  BY DEF Goto

\* Answering a report frees the slot and logs a well-typed entry.
LEMMA AnswerType ==
    ASSUME TypeOK, NEW s \in Slots, NEW ev \in Event, NEW ok \in BOOLEAN, Answer(s, ev, ok)
    PROVE  /\ reqs' \in [Slots -> Request]
           /\ reqs'[s] = Idle
           /\ \A t \in Slots : t # s => reqs'[t] = reqs[t]
           /\ log' \subseteq Entry
  <1>1. Idle \in Request
    BY DEF Request
  <1>2. /\ reqs' \in [Slots -> Request] /\ reqs'[s] = Idle
        /\ \A t \in Slots : t # s => reqs'[t] = reqs[t]
    BY <1>1, GotoType DEF TypeOK, Answer
  <1>3. [inv |-> ev.inv, kind |-> ev.kind, ok |-> ok] \in Entry
    BY DEF Event, PaymentEvent, RefundEvent, Entry
  <1> QED
    BY <1>2, <1>3 DEF TypeOK, Answer

\* The new values of the books stay books (Credited, Reversed).
LEMMA BooksType ==
    ASSUME books \in Books, NEW snap \in Books
    PROVE  /\ Credited(snap) \in Books
           /\ CreditedAndActivated(snap) \in Books
           /\ Reversed(snap) \in Books
  <1>1. Amount \in Nat
    BY LedgerAssumption
  <1>2. /\ snap.count \in Nat /\ snap.total \in Int
        /\ snap.total + Amount \in Int /\ snap.total - Amount \in Int
        /\ snap.count + 1 \in Nat /\ (snap.count > 0 => snap.count - 1 \in Nat)
    BY <1>1 DEF Books
  <1>3. Credited(snap) \in Books
    BY <1>2 DEF Books, Credited
  <1>4. CreditedAndActivated(snap) \in Books
    BY <1>3 DEF Books, CreditedAndActivated
  <1>5. Reversed(snap) \in Books
    BY <1>2 DEF Books, Reversed
  <1> QED
    BY <1>3, <1>4, <1>5

\* Statuses the gateway's words are mapped to (_STATUS_MAP, _REFUND_STATUS_MAP).
LEMMA MappedStatus ==
    /\ \A kind \in PaymentKinds : OurStatus[kind] \in Statuses
    /\ \A kind \in RefundKinds : /\ RefundStatus[kind] \in Statuses
                                 /\ RefundStatus[kind] # "completed"
    /\ OurStatus["Paid"] = "completed"
    /\ \A kind \in PaymentKinds : OurStatus[kind] = "completed" => kind = "Paid"
    /\ \A kind \in PaymentKinds : OurStatus[kind] = "failed" => kind = "Failed"
  BY DEF PaymentKinds, RefundKinds, OurStatus, RefundStatus, Statuses, Open

-----------------------------------------------------------------------------
(* Type correctness.                                                       *)

\* A payments table with one row rewritten, and the history of completions.
LEMMA RowType ==
    ASSUME TypeOK, NEW r \in Rows, NEW p \in Payment
    PROVE  /\ [payments EXCEPT ![r] = p] \in [Rows -> Payment]
           /\ Completed(r, p) \in {completions, completions + 1}
           /\ Completed(r, p) \in Nat
  BY DEF TypeOK, Completed

\* A payment with its status replaced is a payment.
LEMMA StatusType ==
    ASSUME TypeOK, NEW r \in Rows, NEW status \in Statuses
    PROVE  /\ [payments[r] EXCEPT !.status = status] \in Payment
           /\ [payments EXCEPT ![r].status = status] \in [Rows -> Payment]
           /\ [payments EXCEPT ![r].status = status]
                = [payments EXCEPT ![r] = [payments[r] EXCEPT !.status = status]]
  BY DEF TypeOK, Payment

\* One more receipt for an invoice.
LEMMA ReceiptType ==
    ASSUME TypeOK, NEW inv \in Invoices
    PROVE  [receipts EXCEPT ![inv] = @ + 1] \in [Invoices -> Nat]
  BY DEF TypeOK

\* The row a webhook flips.
LEMMA FlippedType ==
    ASSUME TypeOK, NEW s \in Slots, reqs[s].pc = "flipping"
    PROVE  /\ Flipped(reqs[s]) \in Payment
           /\ Flipped(reqs[s]).txn = payments[reqs[s].row].txn
           /\ Flipped(reqs[s]).status
                \in {payments[reqs[s].row].status, OurStatus[reqs[s].ev.kind]}
           /\ reqs[s].ev.kind = "Paid" => Flipped(reqs[s]).status = "completed"
  <1>1. reqs[s] \in Request
    BY DEF TypeOK
  <1>2. /\ reqs[s].row \in Rows /\ reqs[s].seen \in Open
        /\ reqs[s].ev.kind \in PaymentKinds
    BY <1>1, RequestFields DEF PaymentEvent
  <1>3. payments[reqs[s].row] \in Payment
    BY <1>2 DEF TypeOK
  <1>4. OurStatus[reqs[s].ev.kind] \in Statuses
    BY <1>2, MappedStatus
  <1>5. reqs[s].seen # "completed"
    BY <1>2 DEF Open
  <1> QED
    BY <1>3, <1>4, <1>5, MappedStatus DEF Flipped, Payment

\* Every step of a webhook keeps the types (webhooks.py).
LEMMA WebhookType ==
    ASSUME TypeOK, NEW s \in Slots, Webhook(s)
    PROVE  TypeOK'
  <1> DEFINE req == reqs[s]
  <1>0. req \in Request /\ PaymentEvent \subseteq Event /\ RefundEvent \subseteq Event
    BY DEF TypeOK, Event
  <1>1. CASE LookUpPayment(s)
    <2>1. req.ev \in PaymentEvent /\ req.snap \in Books
      BY <1>0, <1>1, RequestFields DEF LookUpPayment
    <2>2. CASE RowsOf(req.ev.inv) = {} /\ Goto(s, [req EXCEPT !.pc = "inserting"])
               /\ UNCHANGED log
      <3>1. [req EXCEPT !.pc = "inserting"] \in Request
        BY <1>0, <1>1, <2>1 DEF LookUpPayment, Request, Idle
      <3> QED
        BY <1>1, <2>2, <3>1, GotoType DEF LookUpPayment, TypeOK
    <2>3. CASE \E r \in RowsOf(req.ev.inv) :
                 IF AwaitsOutcome(payments[r])
                 THEN /\ Goto(s, [pc |-> "flipping", ev |-> req.ev, snap |-> req.snap,
                                  row |-> r, seen |-> payments[r].status])
                      /\ UNCHANGED log
                 ELSE Answer(s, req.ev, TRUE)
      <3>1. PICK r \in RowsOf(req.ev.inv) :
                 IF AwaitsOutcome(payments[r])
                 THEN /\ Goto(s, [pc |-> "flipping", ev |-> req.ev, snap |-> req.snap,
                                  row |-> r, seen |-> payments[r].status])
                      /\ UNCHANGED log
                 ELSE Answer(s, req.ev, TRUE)
        BY <2>3
      <3>2. r \in Rows
        BY DEF RowsOf
      <3>3. CASE AwaitsOutcome(payments[r])
        <4>1. [pc |-> "flipping", ev |-> req.ev, snap |-> req.snap,
               row |-> r, seen |-> payments[r].status] \in Request
          BY <2>1, <3>2, <3>3 DEF Request, AwaitsOutcome
        <4> QED
          BY <1>1, <3>1, <3>3, <4>1, GotoType DEF LookUpPayment, TypeOK
      <3>4. CASE ~AwaitsOutcome(payments[r])
        BY <1>0, <1>1, <2>1, <3>1, <3>4, AnswerType DEF LookUpPayment, TypeOK
      <3> QED
        BY <3>3, <3>4
    <2> QED
      BY <1>1, <2>2, <2>3 DEF LookUpPayment
  <1>2. CASE FlipPayment(s)
    <2>1. /\ req.ev \in PaymentEvent /\ req.snap \in Books /\ req.row \in Rows
          /\ req.ev.inv \in Invoices
      BY <1>0, <1>2, RequestFields DEF FlipPayment, PaymentEvent
    <2>2. Flipped(req) \in Payment
      BY <1>2, FlippedType DEF FlipPayment
    <2>3. /\ payments' \in [Rows -> Payment] /\ completions' \in Nat
      BY <1>2, <2>1, <2>2, RowType DEF FlipPayment
    <2>4. books' \in Books
      BY <1>2, <2>1, BooksType DEF FlipPayment, TypeOK
    <2>5. receipts' \in [Invoices -> Nat]
      BY <1>2, <2>1, ReceiptType DEF FlipPayment, TypeOK
    <2>6. reqs' \in [Slots -> Request] /\ log' \subseteq Entry
      BY <1>0, <1>2, <2>1, AnswerType DEF FlipPayment
    <2> QED
      BY <1>2, <2>3, <2>4, <2>5, <2>6 DEF FlipPayment, TypeOK
  <1>3. CASE InsertPayment(s)
    <2>1. /\ req.ev \in PaymentEvent /\ req.snap \in Books
          /\ req.ev.inv \in Invoices /\ req.ev.kind \in PaymentKinds
      BY <1>0, <1>3, RequestFields DEF InsertPayment, PaymentEvent
    <2> DEFINE p == [status |-> OurStatus[req.ev.kind], txn |-> req.ev.inv,
                     sponsored |-> req.ev.inv \in Linked]
    <2>2. p \in Payment
      BY <2>1, MappedStatus DEF Payment
    <2>3. PICK r \in FreeRows :
            /\ payments' = [payments EXCEPT ![r] = p]
            /\ completions' = Completed(r, p)
            /\ books' = IF Credits(req.ev) THEN CreditedAndActivated(req.snap) ELSE books
            /\ receipts' = IF p.status = "completed"
                           THEN [receipts EXCEPT ![req.ev.inv] = @ + 1] ELSE receipts
            /\ Answer(s, req.ev, TRUE)
      BY <1>3 DEF InsertPayment
    <2>4. r \in Rows
      BY DEF FreeRows
    <2>5. payments' \in [Rows -> Payment] /\ completions' \in Nat
      BY <2>2, <2>3, <2>4, RowType
    <2>6. books' \in Books
      BY <2>1, <2>3, BooksType DEF TypeOK
    <2>7. receipts' \in [Invoices -> Nat]
      BY <2>1, <2>3, ReceiptType DEF TypeOK
    <2>8. reqs' \in [Slots -> Request] /\ log' \subseteq Entry
      BY <1>0, <2>1, <2>3, AnswerType
    <2> QED
      BY <1>3, <2>5, <2>6, <2>7, <2>8 DEF InsertPayment, TypeOK
  <1>4. CASE ReadForReversal(s)
    <2>1. req.ev \in RefundEvent /\ req.row \in Rows
      BY <1>0, <1>4, RequestFields DEF ReadForReversal
    <2>2. [pc |-> "reversing", ev |-> req.ev, row |-> req.row, snap |-> books] \in Request
      BY <2>1 DEF Request, TypeOK
    <2> QED
      BY <1>4, <2>2, GotoType DEF ReadForReversal, TypeOK
  <1>5. CASE ReverseAndRefund(s)
    <2>1. req.ev \in RefundEvent /\ req.row \in Rows /\ req.snap \in Books
      BY <1>0, <1>5, RequestFields DEF ReverseAndRefund
    <2>2. books' \in Books
      BY <1>5, <2>1, BooksType DEF ReverseAndRefund, TypeOK
    <2>3. payments' \in [Rows -> Payment]
      BY <1>5, <2>1, StatusType DEF ReverseAndRefund, WriteRefund, Statuses
    <2>4. reqs' \in [Slots -> Request] /\ log' \subseteq Entry
      BY <1>0, <1>5, <2>1, AnswerType DEF ReverseAndRefund, WriteRefund
    <2> QED
      BY <1>5, <2>2, <2>3, <2>4 DEF ReverseAndRefund, WriteRefund, TypeOK
  <1>6. CASE RecordRefund(s)
    <2>1. req.ev \in RefundEvent /\ req.row \in Rows /\ req.ev.kind \in RefundKinds
      BY <1>0, <1>6, RequestFields DEF RecordRefund, RefundEvent
    <2>2. RefundStatus[req.ev.kind] \in Statuses
      BY <2>1, MappedStatus
    <2>3. payments' \in [Rows -> Payment]
      BY <1>6, <2>1, <2>2 DEF RecordRefund, WriteRefund, TypeOK, Payment
    <2>4. reqs' \in [Slots -> Request] /\ log' \subseteq Entry
      BY <1>0, <1>6, <2>1, AnswerType DEF RecordRefund, WriteRefund
    <2> QED
      BY <1>6, <2>3, <2>4 DEF RecordRefund, WriteRefund, TypeOK
  <1> QED
    BY <1>1, <1>2, <1>3, <1>4, <1>5, <1>6 DEF Webhook

\* Starting a request, or a request's going idle, with the tables unchanged.
LEMMA StartType ==
    ASSUME TypeOK, NEW s \in Slots, NEW req \in Request, Goto(s, req), Extra,
           UNCHANGED <<payments, books, minted, payable, events, log, receipts, completions>>
    PROVE  TypeOK'
  BY GotoType, LedgerAssumption DEF TypeOK, Extra

\* Every step of a checkout, of a staff request and of the gateway keeps the
\* types (payments.py).
LEMMA StaffType ==
    ASSUME TypeOK, NEW s \in Slots,
           \/ Checkout(s) \/ StaffStep(s) \/ Crash(s)
           \/ \E ev \in Event : Deliver(s, ev) \/ Redeliver(s, ev) \/ Replay(s, ev)
           \/ \E sponsored \in BOOLEAN : Initiate(s, sponsored)
           \/ \E txn \in ManualRefs \cup {NoInvoice}, sponsored \in BOOLEAN :
                StartManual(s, txn, sponsored)
           \/ \E r \in Rows, full \in BOOLEAN : StartRefund(s, r, full)
           \/ \E r \in Rows, status \in Overrides : Override(s, r, status)
    PROVE  TypeOK'
  <1> DEFINE req == reqs[s]
  <1>0. req \in Request /\ Idle \in Request
    BY DEF TypeOK, Request
  <1>1. CASE GatewayMints(s)
    <2>1. PICK inv \in Invoices \ minted :
            minted' = minted \cup {inv} /\ Goto(s, [pc |-> "invoiced", inv |-> inv])
      BY <1>1 DEF GatewayMints
    <2>2. [pc |-> "invoiced", inv |-> inv] \in Request
      BY DEF Request
    <2> QED
      BY <1>1, <2>1, <2>2, GotoType DEF GatewayMints, TypeOK
  <1>2. CASE GatewayDeclines(s) \/ GatewayRefusesRefund(s)
    BY <1>0, <1>2, GotoType DEF GatewayDeclines, GatewayRefusesRefund, TypeOK
  <1>3. CASE CommitInitiate(s)
    <2>1. req.inv \in Invoices
      BY <1>0, <1>3, RequestFields DEF CommitInitiate
    <2>2. [status |-> "pending", txn |-> req.inv, sponsored |-> req.inv \in Linked] \in Payment
      BY <2>1 DEF Payment, Statuses, Open
    <2>3. payments' \in [Rows -> Payment]
      BY <1>3, <2>2, RowType DEF CommitInitiate, FreeRows
    <2> QED
      BY <1>0, <1>3, <2>1, <2>3, GotoType DEF CommitInitiate, TypeOK
  <1>4. CASE RecordManual(s)
    <2>1. /\ req.txn \in Invoices \cup {NoInvoice} /\ req.sponsored \in BOOLEAN
          /\ req.snap \in Books
      BY <1>0, <1>4, RequestFields, LedgerAssumption DEF RecordManual
    <2> DEFINE p == [status |-> "completed", txn |-> req.txn, sponsored |-> req.sponsored]
    <2>2. p \in Payment
      BY <2>1 DEF Payment, Statuses
    <2>3. payments' \in [Rows -> Payment] /\ completions' \in Nat
      BY <1>4, <2>2, RowType DEF RecordManual, FreeRows
    <2>4. books' \in Books
      BY <1>4, <2>1, BooksType DEF RecordManual, TypeOK
    <2> QED
      BY <1>0, <1>4, <2>3, <2>4, GotoType DEF RecordManual, TypeOK
  <1>5. CASE GatewayRefunds(s)
    <2>1. req.row \in Rows /\ req.full \in BOOLEAN
      BY <1>0, <1>5, RequestFields DEF GatewayRefunds
    <2>2. [req EXCEPT !.pc = "refunded"] \in Request
      BY <1>0, <1>5, <2>1 DEF GatewayRefunds, Request, Idle
    <2>3. PICK inv, kind :
            /\ [inv |-> inv, kind |-> "Paid"] \in events
            /\ kind \in {"Refunded", "PartiallyRefunded"}
            /\ events' = events \cup {[inv |-> inv, kind |-> kind]}
      BY <1>5 DEF GatewayRefunds
    <2>4. inv \in Invoices
      BY <2>3 DEF TypeOK, Event, PaymentEvent, RefundEvent
    <2>5. events' \subseteq Event
      BY <2>3, <2>4 DEF TypeOK, Event, RefundEvent, RefundKinds
    <2> QED
      BY <1>5, <2>2, <2>5, GotoType DEF GatewayRefunds, TypeOK
  <1>6. CASE CommitRefund(s)
    <2>1. req.row \in Rows
      BY <1>0, <1>6, RequestFields DEF CommitRefund
    <2>2. (IF req.full THEN "refunded" ELSE "partially_refunded") \in Statuses
      BY DEF Statuses
    <2>3. payments' \in [Rows -> Payment]
      BY <1>6, <2>1, <2>2, StatusType DEF CommitRefund
    <2> QED
      BY <1>0, <1>6, <2>3, GotoType DEF CommitRefund, TypeOK
  <1>7. CASE Crash(s)
    <2>1. receipts' \in [Invoices -> Nat]
      <3>1. CASE UNCHANGED receipts
        BY <3>1 DEF TypeOK
      <3>2. CASE /\ req.pc \in {"flipping", "inserting"}
                 /\ receipts' = [receipts EXCEPT ![req.ev.inv] = @ + 1]
        <4>1. req.ev.inv \in Invoices
          BY <1>0, <3>2, RequestFields DEF PaymentEvent
        <4> QED
          BY <3>2, <4>1, ReceiptType
      <3> QED
        BY <1>7, <3>1, <3>2 DEF Crash
    <2> QED
      BY <1>0, <1>7, <2>1, GotoType, LedgerAssumption DEF Crash, Extra, TypeOK
  <1>8. ASSUME NEW ev \in Event, Receive(s, ev), extras' \in Nat
        PROVE  TypeOK'
    <2>1. CASE ReceivePayment(s, ev)
      <3>1. [pc |-> "sponsorshipRead", ev |-> ev, snap |-> books] \in Request
        BY <2>1 DEF Request, ReceivePayment, Event, PaymentEvent, RefundEvent, TypeOK
      <3> QED
        BY <1>8, <2>1, <3>1, GotoType DEF Receive, ReceivePayment, TypeOK
    <2>2. CASE ReceiveRefund(s, ev)
      <3>1. ev \in RefundEvent
        BY <2>2 DEF ReceiveRefund, Event, PaymentEvent, RefundEvent
      <3>2. CASE \E ok \in BOOLEAN : Answer(s, ev, ok)
        BY <1>8, <3>2, AnswerType DEF Receive, TypeOK
      <3>3. CASE \E r \in RowsOf(ev.inv) :
                   /\ Goto(s, [pc |-> "refundRead", ev |-> ev, row |-> r,
                               seen |-> payments[r].status])
                   /\ UNCHANGED log
        <4>1. PICK r \in RowsOf(ev.inv) :
                   /\ Goto(s, [pc |-> "refundRead", ev |-> ev, row |-> r,
                               seen |-> payments[r].status])
                   /\ UNCHANGED log
          BY <3>3
        <4>2. r \in Rows /\ payments[r].status \in Statuses
          BY DEF RowsOf, TypeOK, Payment
        <4>3. [pc |-> "refundRead", ev |-> ev, row |-> r,
               seen |-> payments[r].status] \in Request
          BY <3>1, <4>2 DEF Request
        <4> QED
          BY <1>8, <4>1, <4>3, GotoType DEF Receive, TypeOK
      <3> QED
        BY <2>2, <3>2, <3>3 DEF ReceiveRefund
    <2> QED
      BY <1>8, <2>1, <2>2 DEF Receive
  <1>9. CASE \E ev \in Event : Deliver(s, ev) \/ Redeliver(s, ev) \/ Replay(s, ev)
    BY <1>8, <1>9 DEF Deliver, Redeliver, Replay, Extra, TypeOK
  <1>10. CASE \E sponsored \in BOOLEAN : Initiate(s, sponsored)
    <2>1. \A sponsored \in BOOLEAN : [pc |-> "sending", sponsored |-> sponsored] \in Request
      BY DEF Request
    <2> QED
      BY <1>10, <2>1, StartType DEF Initiate, Begin
  <1>11. CASE \E txn \in ManualRefs \cup {NoInvoice}, sponsored \in BOOLEAN :
                StartManual(s, txn, sponsored)
    <2>1. \A txn \in ManualRefs \cup {NoInvoice}, sponsored \in BOOLEAN :
            [pc |-> "recording", txn |-> txn, sponsored |-> sponsored,
             snap |-> books] \in Request
      BY DEF Request, TypeOK
    <2> QED
      BY <1>11, <2>1, StartType DEF StartManual, Begin
  <1>12. CASE \E r \in Rows, full \in BOOLEAN : StartRefund(s, r, full)
    <2>1. \A r \in Rows, full \in BOOLEAN :
            [pc |-> "refunding", row |-> r, full |-> full] \in Request
      BY DEF Request
    <2> QED
      BY <1>12, <2>1, StartType DEF StartRefund, Begin
  <1>13. CASE \E r \in Rows, status \in Overrides : Override(s, r, status)
    <2>1. PICK r \in Rows, status \in Overrides : Override(s, r, status)
      BY <1>13
    <2>2. /\ [payments[r] EXCEPT !.status = status] \in Payment
          /\ payments' \in [Rows -> Payment]
      BY <2>1, StatusType, LedgerAssumption DEF Override
    <2>3. completions' \in Nat
      BY <2>1, <2>2, RowType DEF Override
    <2> QED
      BY <2>1, <2>2, <2>3 DEF Override, Extra, TypeOK
  <1> QED
    BY <1>1, <1>2, <1>3, <1>4, <1>5, <1>6, <1>7, <1>9, <1>10, <1>11, <1>12, <1>13
    DEF Checkout, StaffStep

\* Whatever the requests do, the tables, the requests and the log keep their
\* types; payments_count stays a natural number, by the max in
\* _process_refund_event.
THEOREM TypeCorrect == Spec => []TypeOK
  <1>1. Init => TypeOK
    BY LedgerAssumption DEF Init, TypeOK, Payment, Absent, Books, Request
  <1>2. TypeOK /\ [Next]_vars => TypeOK'
    <2> SUFFICES ASSUME TypeOK, [Next]_vars PROVE TypeOK'
      OBVIOUS
    <2>1. CASE \E inv \in Invoices, kind \in Kinds : GatewayReports(inv, kind)
      <3>1. \A inv \in Invoices, kind \in Kinds : [inv |-> inv, kind |-> kind] \in Event
        BY LedgerAssumption DEF Event, PaymentEvent, RefundEvent
      <3> QED
        BY <2>1, <3>1 DEF GatewayReports, TypeOK
    <2>2. CASE \E s \in Slots : Webhook(s)
      BY <2>2, WebhookType
    <2>3. CASE \E s \in Slots :
           \/ Checkout(s) \/ StaffStep(s) \/ Crash(s)
           \/ \E ev \in Event : Deliver(s, ev) \/ Redeliver(s, ev) \/ Replay(s, ev)
           \/ \E sponsored \in BOOLEAN : Initiate(s, sponsored)
           \/ \E txn \in ManualRefs \cup {NoInvoice}, sponsored \in BOOLEAN :
                StartManual(s, txn, sponsored)
           \/ \E r \in Rows, full \in BOOLEAN : StartRefund(s, r, full)
           \/ \E r \in Rows, status \in Overrides : Override(s, r, status)
      BY <2>3, StaffType
    <2>4. CASE UNCHANGED vars
      BY <2>4 DEF vars, TypeOK
    <2> QED
      BY <2>1, <2>2, <2>3, <2>4 DEF Next
  <1> QED
    BY <1>1, <1>2, PTL DEF Spec

-----------------------------------------------------------------------------
(* NeverOverCredited.  The books are written from a snapshot, so every     *)
(* snapshot a request carries must be within the budget too; and a request *)
(* about to flip a row it read as open, when someone else has completed the *)
(* row since, must have a snapshot that leaves room for that completion.   *)

Budget == Opening + completions

Within(b, n) == b.count <= n /\ b.total <= Amount * n

SnapshotWithin(s) ==
    reqs[s].pc \in {"sponsorshipRead", "inserting", "flipping", "recording", "reversing"}
        => Within(reqs[s].snap, Budget)

FlipWithin(s) ==
    reqs[s].pc = "flipping" =>
        LET p == payments[reqs[s].row] IN
        /\ p.status # "absent" /\ p.txn = reqs[s].ev.inv
        /\ (p.status = "completed" /\ reqs[s].ev.inv \in Linked)
             => Within(reqs[s].snap, Budget - 1)

LedgerInv ==
    /\ TypeOK
    /\ Within(books, Budget)
    /\ \A s \in Slots : SnapshotWithin(s) /\ FlipWithin(s)

\* A payment more is an amount more (Credited), a completion more is room for it.
LEMMA BudgetGrows ==
    ASSUME NEW b \in Books, NEW n \in Int, Within(b, n)
    PROVE  /\ Within(b, n + 1)
           /\ \A c \in Int : c = b.count + 1 => c <= n + 1
           /\ b.total + Amount <= Amount * (n + 1)
  <1>1. Amount \in Nat /\ Amount * (n + 1) = Amount * n + Amount
    BY LedgerAssumption
  <1>2. b.count \in Nat /\ b.total \in Int /\ Amount * n \in Int
    BY <1>1 DEF Books
  <1> HIDE DEF Books
  <1> QED
    BY <1>1, <1>2 DEF Within

\* What a commit writes to the books is within the budget plus one completion.
LEMMA CreditWithin ==
    ASSUME TypeOK, NEW snap \in Books, NEW n \in Int, Within(snap, n)
    PROVE  /\ Within(Credited(snap), n + 1)
           /\ Within(CreditedAndActivated(snap), n + 1)
  <1>1. /\ Credited(snap).count = snap.count + 1
        /\ Credited(snap).total = snap.total + Amount
    BY DEF TypeOK, Books, Credited
  <1>2. /\ CreditedAndActivated(snap).count = Credited(snap).count
        /\ CreditedAndActivated(snap).total = Credited(snap).total
    BY BooksType DEF TypeOK, Books, CreditedAndActivated
  <1>3. snap.count + 1 <= n + 1 /\ snap.total + Amount <= Amount * (n + 1)
    BY BudgetGrows DEF Books
  <1> QED
    BY <1>1, <1>2, <1>3 DEF Within

\* A reversal never raises the books above the higher of books and snapshot.
LEMMA ReversalWithin ==
    ASSUME TypeOK, NEW snap \in Books, NEW n \in Int, Within(snap, n), Within(books, n)
    PROVE  Within(Reversed(snap), n)
  <1>1. /\ Reversed(snap).total = snap.total - Amount
        /\ Reversed(snap).count \in {snap.count - 1, books.count}
    BY DEF TypeOK, Books, Reversed
  <1>2. /\ Amount \in Nat /\ snap.total \in Int /\ snap.count \in Nat
        /\ books.count \in Nat /\ Amount * n \in Int
    BY LedgerAssumption DEF TypeOK, Books
  <1> QED
    BY <1>1, <1>2 DEF Within

\* The other requests, when the payments table does not change.
LEMMA OthersKeep ==
    ASSUME LedgerInv, NEW s \in Slots, payments' = payments, completions' = completions,
           \A t \in Slots : t # s => reqs'[t] = reqs[t]
    PROVE  /\ Budget' = Budget
           /\ \A t \in Slots : t # s => SnapshotWithin(t)' /\ FlipWithin(t)'
  BY DEF LedgerInv, Budget, SnapshotWithin, FlipWithin, Within

\* The other requests, when a commit writes one row: a row that becomes completed
\* makes room for the snapshots of those who still see it open.
LEMMA OthersKeepAcross ==
    ASSUME LedgerInv, NEW s \in Slots, NEW r \in Rows, NEW p \in Payment,
           payments' = [payments EXCEPT ![r] = p],
           completions' = Completed(r, p),
           payments[r].status # "absent" => p.txn = payments[r].txn /\ p.status # "absent",
           reqs' \in [Slots -> Request],
           \A t \in Slots : t # s => reqs'[t] = reqs[t]
    PROVE  /\ Budget' \in {Budget, Budget + 1}
           /\ Budget' # Budget => Budget' = Budget + 1
           /\ \A b \in Books : Within(b, Budget) => Within(b, Budget')
           /\ \A t \in Slots : t # s => SnapshotWithin(t)' /\ FlipWithin(t)'
  <1>1. Budget \in Int /\ completions \in Nat
    BY LedgerAssumption DEF LedgerInv, TypeOK, Budget
  <1>2. Budget' \in {Budget, Budget + 1}
    BY <1>1, LedgerAssumption DEF Completed, Budget
  <1>3. \A b \in Books : Within(b, Budget) => Within(b, Budget')
    BY <1>1, <1>2, BudgetGrows
  <1>4. ASSUME NEW t \in Slots, t # s
        PROVE  SnapshotWithin(t)' /\ FlipWithin(t)'
    <2> DEFINE req == reqs[t]
    <2>1. req \in Request /\ reqs'[t] = req
      BY <1>4 DEF LedgerInv, TypeOK
    <2>2. SnapshotWithin(t) /\ FlipWithin(t)
      BY DEF LedgerInv
    <2>3. SnapshotWithin(t)'
      <3> SUFFICES ASSUME req.pc \in {"sponsorshipRead", "inserting", "flipping",
                                      "recording", "reversing"}
                   PROVE  Within(req.snap, Budget')
        BY <2>1 DEF SnapshotWithin, Within
      <3> QED
        BY <1>3, <2>1, <2>2, RequestFields DEF SnapshotWithin
    <2>4. FlipWithin(t)'
      <3> SUFFICES ASSUME req.pc = "flipping"
                   PROVE  /\ payments'[req.row].status # "absent"
                          /\ payments'[req.row].txn = req.ev.inv
                          /\ (payments'[req.row].status = "completed" /\ req.ev.inv \in Linked)
                               => Within(req.snap, Budget' - 1)
        BY <2>1 DEF FlipWithin, Within
      <3>1. /\ req.row \in Rows /\ req.snap \in Books
            /\ Within(req.snap, Budget)
            /\ payments[req.row].status # "absent"
            /\ payments[req.row].txn = req.ev.inv
            /\ (payments[req.row].status = "completed" /\ req.ev.inv \in Linked)
                 => Within(req.snap, Budget - 1)
        BY <2>1, <2>2, RequestFields DEF SnapshotWithin, FlipWithin
      <3>2. CASE req.row # r
        <4>1. payments'[req.row] = payments[req.row]
          BY <3>1, <3>2 DEF LedgerInv, TypeOK
        <4>2. Budget' = Budget \/ Budget' - 1 = Budget
          BY <1>1, <1>2, LedgerAssumption DEF Budget, Completed
        <4> QED
          BY <1>1, <3>1, <4>1, <4>2
      <3>3. CASE req.row = r
        <4>1. payments'[req.row] = p
          BY <3>1, <3>3 DEF LedgerInv, TypeOK
        <4>2. p.txn = req.ev.inv /\ p.status # "absent"
          BY <3>1, <3>3
        <4>3. ASSUME p.status = "completed", req.ev.inv \in Linked
              PROVE  Within(req.snap, Budget' - 1)
          <5>1. CASE payments[r].status = "completed"
            <6>1. Budget' = Budget
              BY <5>1 DEF Completed, Budget
            <6> QED
              BY <3>1, <3>3, <4>3, <5>1, <6>1
          <5>2. CASE payments[r].status # "completed"
            <6>1. Budget' = Budget + 1
              BY <1>1, <4>2, <4>3, <5>2, LedgerAssumption DEF Completed, Budget, OnAccount
            <6>2. Budget' - 1 = Budget
              BY <1>1, <6>1
            <6> QED
              BY <3>1, <6>2
          <5> QED
            BY <5>1, <5>2
        <4> QED
          BY <4>1, <4>2, <4>3
      <3> QED
        BY <3>2, <3>3
    <2> QED
      BY <2>3, <2>4
  <1> QED
    BY <1>1, <1>2, <1>3, <1>4

\* A slot that has gone idle carries no snapshot.
LEMMA IdleKeeps ==
    ASSUME NEW s \in Slots, reqs'[s] = Idle
    PROVE  SnapshotWithin(s)' /\ FlipWithin(s)'
  BY DEF SnapshotWithin, FlipWithin, Idle

\* A commit that writes one row and frees the slot, with the books as before or
\* within the new budget.
LEMMA CommitKeeps ==
    ASSUME LedgerInv, TypeOK', NEW s \in Slots, NEW r \in Rows, NEW p \in Payment,
           payments' = [payments EXCEPT ![r] = p],
           completions' = Completed(r, p),
           payments[r].status # "absent" => p.txn = payments[r].txn /\ p.status # "absent",
           reqs'[s] = Idle,
           \A t \in Slots : t # s => reqs'[t] = reqs[t],
           books' = books \/ Within(books', Budget')
    PROVE  LedgerInv'
  <1>1. reqs' \in [Slots -> Request]
    BY DEF TypeOK
  <1>2. /\ \A b \in Books : Within(b, Budget) => Within(b, Budget')
        /\ \A t \in Slots : t # s => SnapshotWithin(t)' /\ FlipWithin(t)'
    BY <1>1, OthersKeepAcross
  <1>3. Within(books, Budget)'
    BY <1>2 DEF LedgerInv, TypeOK, Within
  <1> QED
    BY <1>2, <1>3, IdleKeeps DEF LedgerInv

\* A step that leaves payments and books alone and whose new request, if it has a
\* snapshot, took it from the books now or carries the one it had.
LEMMA ReadKeeps ==
    ASSUME LedgerInv, TypeOK', NEW s \in Slots,
           payments' = payments, books' = books, completions' = completions,
           \A t \in Slots : t # s => reqs'[t] = reqs[t],
           SnapshotWithin(s)', FlipWithin(s)'
    PROVE  LedgerInv'
  <1>1. Budget' = Budget /\ \A t \in Slots : t # s => SnapshotWithin(t)' /\ FlipWithin(t)'
    BY OthersKeep
  <1>2. Within(books, Budget)'
    BY <1>1 DEF LedgerInv, Within
  <1> QED
    BY <1>1, <1>2 DEF LedgerInv

\* A request at a point without a snapshot.
LEMMA NoSnapshotKeeps ==
    ASSUME NEW s \in Slots,
           reqs'[s].pc \notin {"sponsorshipRead", "inserting", "flipping",
                               "recording", "reversing"}
    PROVE  SnapshotWithin(s)' /\ FlipWithin(s)'
  BY DEF SnapshotWithin, FlipWithin

\* Every step of a webhook keeps the invariant (webhooks.py).
LEMMA WebhookInv ==
    ASSUME LedgerInv, TypeOK', NEW s \in Slots, Webhook(s)
    PROVE  LedgerInv'
  <1> DEFINE req == reqs[s]
  <1>0. /\ TypeOK /\ req \in Request /\ Within(books, Budget) /\ Budget \in Int
        /\ completions \in Nat /\ SnapshotWithin(s) /\ FlipWithin(s)
    BY LedgerAssumption DEF LedgerInv, TypeOK, Budget
  <1>1. CASE LookUpPayment(s)
    <2>1. Within(req.snap, Budget) /\ Budget' = Budget
      BY <1>0, <1>1 DEF LookUpPayment, SnapshotWithin, Budget
    <2>2. \A t \in Slots : t # s => reqs'[t] = reqs[t]
      BY <1>0, <1>1 DEF LookUpPayment, Goto, Answer, TypeOK
    <2>3. SnapshotWithin(s)' /\ FlipWithin(s)'
      <3>1. CASE Goto(s, [req EXCEPT !.pc = "inserting"])
        <4>1. reqs'[s] = [req EXCEPT !.pc = "inserting"]
          BY <1>0, <3>1 DEF Goto, TypeOK
        <4>2. reqs'[s].pc = "inserting" /\ reqs'[s].snap = req.snap
          BY <1>0, <1>1, <4>1 DEF LookUpPayment, Request, Idle
        <4> QED
          BY <2>1, <4>2 DEF SnapshotWithin, FlipWithin, Within
      <3>2. ASSUME NEW r \in RowsOf(req.ev.inv), AwaitsOutcome(payments[r]),
                   Goto(s, [pc |-> "flipping", ev |-> req.ev, snap |-> req.snap,
                            row |-> r, seen |-> payments[r].status])
            PROVE  SnapshotWithin(s)' /\ FlipWithin(s)'
        <4>1. reqs'[s] = [pc |-> "flipping", ev |-> req.ev, snap |-> req.snap,
                          row |-> r, seen |-> payments[r].status]
          BY <1>0, <3>2 DEF Goto, TypeOK
        <4>2. /\ payments[r].status # "absent" /\ payments[r].status # "completed"
              /\ payments[r].txn = req.ev.inv
          BY <3>2 DEF RowsOf, AwaitsOutcome, Open
        <4>3. payments' = payments
          BY <1>1 DEF LookUpPayment
        <4> QED
          BY <2>1, <4>1, <4>2, <4>3 DEF SnapshotWithin, FlipWithin, Within
      <3>3. CASE Answer(s, req.ev, TRUE)
        BY <1>0, <3>3, IdleKeeps DEF Answer, Goto, TypeOK
      <3> QED
        BY <1>1, <3>1, <3>2, <3>3 DEF LookUpPayment
    <2> QED
      BY <1>1, <2>2, <2>3, ReadKeeps DEF LookUpPayment
  <1>2. CASE FlipPayment(s)
    <2> DEFINE p == Flipped(req)
    <2>1. /\ req.ev \in PaymentEvent /\ req.snap \in Books /\ req.row \in Rows
      BY <1>0, <1>2, RequestFields DEF FlipPayment
    <2>2. /\ payments[req.row].status # "absent" /\ payments[req.row].txn = req.ev.inv
          /\ Within(req.snap, Budget)
          /\ (payments[req.row].status = "completed" /\ req.ev.inv \in Linked)
               => Within(req.snap, Budget - 1)
      BY <1>0, <1>2 DEF FlipPayment, FlipWithin, SnapshotWithin
    <2>3. /\ p \in Payment /\ p.txn = req.ev.inv
          /\ p.status \in {payments[req.row].status, OurStatus[req.ev.kind]}
          /\ req.ev.kind = "Paid" => p.status = "completed"
      BY <1>0, <1>2, <2>2, FlippedType DEF FlipPayment
    <2>4. p.status # "absent"
      BY <2>1, <2>2, <2>3, MappedStatus DEF PaymentEvent, Statuses, Open
    <2>5. /\ payments' = [payments EXCEPT ![req.row] = p]
          /\ completions' = Completed(req.row, p)
          /\ books' = IF Credits(req.ev) THEN CreditedAndActivated(req.snap) ELSE books
          /\ reqs'[s] = Idle
          /\ \A t \in Slots : t # s => reqs'[t] = reqs[t]
      BY <1>0, <1>2, <2>1, AnswerType DEF FlipPayment, Event
    <2>6. ASSUME Credits(req.ev)
          PROVE  Within(CreditedAndActivated(req.snap), Budget')
      <3>1. req.ev.inv \in Linked /\ p.status = "completed" /\ OnAccount(p)
        BY <2>3, <2>6 DEF Credits, OnAccount
      <3>2. CASE payments[req.row].status = "completed"
        <4>1. Budget' = (Budget - 1) + 1
          BY <1>0, <2>5, <3>2 DEF Completed, Budget
        <4>2. Within(CreditedAndActivated(req.snap), (Budget - 1) + 1)
          BY <1>0, <2>1, <2>2, <3>1, <3>2, CreditWithin
        <4> QED
          BY <4>1, <4>2
      <3>3. CASE payments[req.row].status # "completed"
        <4>1. Budget' = Budget + 1
          BY <1>0, <2>5, <3>1, <3>3, LedgerAssumption DEF Completed, Budget
        <4>2. Within(CreditedAndActivated(req.snap), Budget + 1)
          BY <1>0, <2>1, <2>2, CreditWithin
        <4> QED
          BY <4>1, <4>2
      <3> QED
        BY <3>2, <3>3
    <2>7. books' = books \/ Within(books', Budget')
      BY <2>5, <2>6
    <2> QED
      BY <2>1, <2>2, <2>3, <2>4, <2>5, <2>7, CommitKeeps
  <1>3. CASE InsertPayment(s)
    <2>1. /\ req.ev \in PaymentEvent /\ req.snap \in Books /\ Within(req.snap, Budget)
          /\ req.ev.kind \in PaymentKinds /\ req.ev.inv \in Invoices
      BY <1>0, <1>3, RequestFields DEF InsertPayment, SnapshotWithin, PaymentEvent
    <2> DEFINE p == [status |-> OurStatus[req.ev.kind], txn |-> req.ev.inv,
                     sponsored |-> req.ev.inv \in Linked]
    <2>2. PICK r \in FreeRows :
            /\ payments' = [payments EXCEPT ![r] = p]
            /\ completions' = Completed(r, p)
            /\ books' = IF Credits(req.ev) THEN CreditedAndActivated(req.snap) ELSE books
            /\ Answer(s, req.ev, TRUE)
      BY <1>3 DEF InsertPayment
    <2>3. p \in Payment
      BY <2>1, MappedStatus DEF Payment
    <2>4. r \in Rows /\ payments[r].status = "absent"
      BY DEF FreeRows
    <2>5. reqs'[s] = Idle /\ \A t \in Slots : t # s => reqs'[t] = reqs[t]
      BY <1>0, <2>1, <2>2, AnswerType DEF Event
    <2>6. ASSUME Credits(req.ev)
          PROVE  Within(CreditedAndActivated(req.snap), Budget')
      <3>1. Budget' = Budget + 1
        BY <1>0, <2>2, <2>4, <2>6, MappedStatus, LedgerAssumption
        DEF Credits, Completed, OnAccount, Budget
      <3> QED
        BY <1>0, <2>1, <3>1, CreditWithin
    <2> QED
      BY <2>2, <2>3, <2>4, <2>5, <2>6, CommitKeeps
  <1>4. CASE ReadForReversal(s)
    <2>1. reqs'[s].pc = "reversing" /\ reqs'[s].snap = books
      BY <1>0, <1>4 DEF ReadForReversal, Goto, TypeOK
    <2>2. SnapshotWithin(s)' /\ FlipWithin(s)'
      BY <1>0, <1>4, <2>1 DEF ReadForReversal, SnapshotWithin, FlipWithin, Within, Budget
    <2> QED
      BY <1>0, <1>4, <2>2, ReadKeeps DEF ReadForReversal, Goto, TypeOK
  <1>5. ASSUME NEW status \in Statuses, WriteRefund(s, status),
               req.pc \in {"refundRead", "reversing"},
               status = "completed" => payments[req.row].status = "completed",
               books' = books \/ Within(books', Budget)
        PROVE  LedgerInv'
    <2>1. req.row \in Rows /\ req.ev \in Event
      BY <1>0, <1>5, RequestFields DEF Event
    <2> DEFINE p == [payments[req.row] EXCEPT !.status = status]
    <2>2. /\ p \in Payment /\ p.txn = payments[req.row].txn /\ p.status = status
          /\ payments' = [payments EXCEPT ![req.row] = p]
      BY <1>0, <1>5, <2>1, StatusType DEF WriteRefund, TypeOK, Payment
    <2>3. /\ completions' = Completed(req.row, p)
          /\ completions' = completions
      BY <1>5, <2>2 DEF WriteRefund, Completed
    <2>4. reqs'[s] = Idle /\ \A t \in Slots : t # s => reqs'[t] = reqs[t]
      BY <1>0, <1>5, <2>1, AnswerType DEF WriteRefund
    <2>5. books' = books \/ Within(books', Budget')
      BY <1>5, <2>3 DEF Budget, Within
    <2>6. status # "absent"
      BY DEF Statuses, Open
    <2> QED
      BY <2>1, <2>2, <2>3, <2>4, <2>5, <2>6, CommitKeeps
  <1>6. CASE ReverseAndRefund(s)
    <2>1. req.snap \in Books /\ Within(req.snap, Budget)
      BY <1>0, <1>6, RequestFields DEF ReverseAndRefund, SnapshotWithin
    <2>2. Within(books', Budget)
      BY <1>0, <1>6, <2>1, ReversalWithin DEF ReverseAndRefund
    <2>3. "refunded" \in Statuses
      BY DEF Statuses
    <2> QED
      BY <1>5, <1>6, <2>2, <2>3 DEF ReverseAndRefund
  <1>7. CASE RecordRefund(s)
    <2>1. req.row \in Rows /\ req.ev.kind \in RefundKinds /\ req.seen \in Statuses
      BY <1>0, <1>7, RequestFields DEF RecordRefund, RefundEvent
    <2>2. RefundStatus[req.ev.kind] \in Statuses /\ RefundStatus[req.ev.kind] # "completed"
      BY <2>1, MappedStatus
    <2>3. CASE payments[req.row].status # "absent"
      <3>1. payments[req.row].status \in Statuses
        BY <1>0, <2>1, <2>3 DEF TypeOK, Payment
      <3> QED
        BY <1>5, <1>7, <2>2, <3>1 DEF RecordRefund
    <2>4. CASE payments[req.row].status = "absent"
      <3>1. CASE RefundStatus[req.ev.kind] # req.seen
        BY <1>5, <1>7, <2>2, <3>1 DEF RecordRefund
      <3>2. CASE RefundStatus[req.ev.kind] = req.seen
        <4>1. payments' = payments
          BY <1>0, <1>7, <2>1, <3>2 DEF RecordRefund, WriteRefund, TypeOK, Payment
        <4>2. reqs'[s] = Idle /\ \A t \in Slots : t # s => reqs'[t] = reqs[t]
          BY <1>0, <1>7, RequestFields, AnswerType DEF RecordRefund, WriteRefund, Event
        <4> QED
          BY <1>7, <4>1, <4>2, IdleKeeps, ReadKeeps DEF RecordRefund, WriteRefund
      <3> QED
        BY <3>1, <3>2
    <2> QED
      BY <2>3, <2>4
  <1> QED
    BY <1>1, <1>2, <1>3, <1>4, <1>6, <1>7 DEF Webhook

\* Every other step of a slot keeps the invariant (payments.py).
LEMMA StaffInv ==
    ASSUME LedgerInv, TypeOK', NEW s \in Slots,
           \/ Checkout(s) \/ StaffStep(s) \/ Crash(s)
           \/ \E ev \in Event : Deliver(s, ev) \/ Redeliver(s, ev) \/ Replay(s, ev)
           \/ \E sponsored \in BOOLEAN : Initiate(s, sponsored)
           \/ \E txn \in ManualRefs \cup {NoInvoice}, sponsored \in BOOLEAN :
                StartManual(s, txn, sponsored)
           \/ \E r \in Rows, full \in BOOLEAN : StartRefund(s, r, full)
           \/ \E r \in Rows, status \in Overrides : Override(s, r, status)
    PROVE  LedgerInv'
  <1> DEFINE req == reqs[s]
  <1>0. /\ TypeOK /\ req \in Request /\ Within(books, Budget) /\ Budget \in Int
        /\ completions \in Nat /\ SnapshotWithin(s) /\ FlipWithin(s)
    BY LedgerAssumption DEF LedgerInv, TypeOK, Budget
  <1>1. ASSUME NEW new, Goto(s, new),
               new.pc \notin {"sponsorshipRead", "inserting", "flipping",
                              "recording", "reversing"},
               payments' = payments, books' = books, completions' = completions
        PROVE  LedgerInv'
    <2>1. reqs'[s] = new /\ \A t \in Slots : t # s => reqs'[t] = reqs[t]
      BY <1>0, <1>1 DEF Goto, TypeOK
    <2> QED
      BY <1>1, <2>1, NoSnapshotKeeps, ReadKeeps
  <1>2. ASSUME NEW new, Goto(s, new), new.pc \in {"sponsorshipRead", "recording"},
               new.snap = books,
               payments' = payments, books' = books, completions' = completions
        PROVE  LedgerInv'
    <2>1. reqs'[s] = new /\ \A t \in Slots : t # s => reqs'[t] = reqs[t]
      BY <1>0, <1>2 DEF Goto, TypeOK
    <2>2. SnapshotWithin(s)' /\ FlipWithin(s)'
      BY <1>0, <1>2, <2>1 DEF SnapshotWithin, FlipWithin, Within, Budget
    <2> QED
      BY <1>2, <2>1, <2>2, ReadKeeps
  <1>3. CASE GatewayMints(s) \/ GatewayDeclines(s) \/ GatewayRefusesRefund(s) \/ Crash(s)
    BY <1>1, <1>3 DEF GatewayMints, GatewayDeclines, GatewayRefusesRefund, Crash, Idle
  <1>4. CASE GatewayRefunds(s)
    <2>1. [req EXCEPT !.pc = "refunded"].pc = "refunded"
      BY <1>0, <1>4 DEF GatewayRefunds, Request, Idle
    <2> QED
      BY <1>1, <1>4, <2>1 DEF GatewayRefunds
  <1>5. CASE CommitInitiate(s)
    <2> DEFINE p == [status |-> "pending", txn |-> req.inv, sponsored |-> req.inv \in Linked]
    <2>1. PICK r \in FreeRows : payments' = [payments EXCEPT ![r] = p]
      BY <1>5 DEF CommitInitiate
    <2>2. p \in Payment /\ r \in Rows /\ payments[r].status = "absent"
      BY <1>0, <1>5, RequestFields DEF CommitInitiate, Payment, Statuses, Open, FreeRows
    <2>3. completions' = Completed(r, p)
      BY <1>5 DEF CommitInitiate, Completed
    <2>4. reqs'[s] = Idle /\ \A t \in Slots : t # s => reqs'[t] = reqs[t]
      BY <1>0, <1>5 DEF CommitInitiate, Goto, TypeOK
    <2> QED
      BY <1>5, <2>1, <2>2, <2>3, <2>4, CommitKeeps DEF CommitInitiate
  <1>6. CASE RecordManual(s)
    <2> DEFINE p == [status |-> "completed", txn |-> req.txn, sponsored |-> req.sponsored]
    <2>1. PICK r \in FreeRows :
            payments' = [payments EXCEPT ![r] = p] /\ completions' = Completed(r, p)
      BY <1>6 DEF RecordManual
    <2>2. /\ req.txn \in Invoices \cup {NoInvoice} /\ req.sponsored \in BOOLEAN
          /\ req.snap \in Books /\ Within(req.snap, Budget)
      BY <1>0, <1>6, RequestFields, LedgerAssumption DEF RecordManual, SnapshotWithin
    <2>3. p \in Payment /\ r \in Rows /\ payments[r].status = "absent"
      BY <2>2 DEF Payment, Statuses, FreeRows
    <2>4. reqs'[s] = Idle /\ \A t \in Slots : t # s => reqs'[t] = reqs[t]
      BY <1>0, <1>6 DEF RecordManual, Goto, TypeOK
    <2>5. ASSUME req.sponsored
          PROVE  Within(Credited(req.snap), Budget')
      <3>1. Budget' = Budget + 1
        BY <1>0, <2>1, <2>3, <2>5, LedgerAssumption DEF Completed, OnAccount, Budget
      <3> QED
        BY <1>0, <2>2, <3>1, CreditWithin
    <2>6. books' = books \/ Within(books', Budget')
      BY <1>6, <2>5 DEF RecordManual
    <2> QED
      BY <2>1, <2>3, <2>4, <2>6, CommitKeeps
  <1>7. CASE CommitRefund(s)
    <2> DEFINE status == IF req.full THEN "refunded" ELSE "partially_refunded"
               p == [payments[req.row] EXCEPT !.status = status]
    <2>1. /\ req.row \in Rows /\ status \in Statuses /\ status # "completed"
          /\ status # "absent"
      BY <1>0, <1>7, RequestFields DEF CommitRefund, Statuses
    <2> HIDE DEF status
    <2>2. /\ p \in Payment /\ p.txn = payments[req.row].txn /\ p.status = status
          /\ payments' = [payments EXCEPT ![req.row] = p]
      BY <1>0, <1>7, <2>1, StatusType DEF CommitRefund, TypeOK, Payment, status
    <2>3. completions' = Completed(req.row, p)
      BY <1>7, <2>1, <2>2 DEF CommitRefund, Completed
    <2>4. reqs'[s] = Idle /\ \A t \in Slots : t # s => reqs'[t] = reqs[t]
      BY <1>0, <1>7 DEF CommitRefund, Goto, TypeOK
    <2> QED
      BY <1>7, <2>1, <2>2, <2>3, <2>4, CommitKeeps, ZenonT(30) DEF CommitRefund
  <1>8. ASSUME NEW ev \in Event, Receive(s, ev)
        PROVE  LedgerInv'
    <2>1. payments' = payments /\ books' = books /\ completions' = completions
      BY <1>8 DEF Receive
    <2>2. CASE ReceivePayment(s, ev)
      BY <1>2, <2>1, <2>2 DEF ReceivePayment
    <2>3. CASE ReceiveRefund(s, ev)
      BY <1>1, <2>1, <2>3 DEF ReceiveRefund, Answer, Idle
    <2> QED
      BY <1>8, <2>2, <2>3 DEF Receive
  <1>9. CASE \E ev \in Event : Deliver(s, ev) \/ Redeliver(s, ev) \/ Replay(s, ev)
    BY <1>8, <1>9 DEF Deliver, Redeliver, Replay
  <1>10. CASE \/ \E sponsored \in BOOLEAN : Initiate(s, sponsored)
              \/ \E r \in Rows, full \in BOOLEAN : StartRefund(s, r, full)
    BY <1>1, <1>10 DEF Initiate, StartRefund, Begin
  <1>11. CASE \E txn \in ManualRefs \cup {NoInvoice}, sponsored \in BOOLEAN :
                StartManual(s, txn, sponsored)
    BY <1>2, <1>11 DEF StartManual, Begin
  <1>12. CASE \E r \in Rows, status \in Overrides : Override(s, r, status)
    <2>1. PICK r \in Rows, status \in Overrides : Override(s, r, status)
      BY <1>12
    <2> DEFINE p == [payments[r] EXCEPT !.status = status]
    <2>2. status \in Statuses /\ status # "absent"
      BY LedgerAssumption DEF Statuses, Open
    <2>3. /\ p \in Payment /\ p.txn = payments[r].txn /\ p.status = status
          /\ payments' = [payments EXCEPT ![r] = p] /\ completions' = Completed(r, p)
      BY <1>0, <2>1, <2>2, StatusType DEF Override, TypeOK, Payment
    <2>4. reqs[s] = Idle /\ reqs' = reqs /\ books' = books
      BY <2>1 DEF Override
    <2> QED
      BY <2>2, <2>3, <2>4, CommitKeeps
  <1> QED
    BY <1>3, <1>4, <1>5, <1>6, <1>7, <1>9, <1>10, <1>11, <1>12 DEF Checkout, StaffStep

\* However requests overlap, crash, repeat or are replayed, the books never count
\* more payments, nor more money, than payments that became completed.
THEOREM NoOverCredit == Spec => []NeverOverCredited
  <1>1. Init => LedgerInv
    <2> SUFFICES ASSUME Init PROVE LedgerInv
      OBVIOUS
    <2>1. TypeOK
      BY LedgerAssumption DEF Init, TypeOK, Payment, Absent, Books, Request
    <2>2. Opening + completions = Opening /\ Opening * Amount = Amount * Opening
      BY LedgerAssumption DEF Init
    <2>3. Within(books, Budget)
      BY <2>2, LedgerAssumption DEF Init, Within, Budget
    <2>4. \A s \in Slots : SnapshotWithin(s) /\ FlipWithin(s)
      BY DEF Init, SnapshotWithin, FlipWithin, Idle
    <2> QED
      BY <2>1, <2>3, <2>4 DEF LedgerInv
  <1>2. LedgerInv /\ TypeOK' /\ [Next]_vars => LedgerInv'
    <2> SUFFICES ASSUME LedgerInv, TypeOK', [Next]_vars PROVE LedgerInv'
      OBVIOUS
    <2>1. CASE \/ \E inv \in Invoices, kind \in Kinds : GatewayReports(inv, kind)
               \/ UNCHANGED vars
      BY <2>1 DEF GatewayReports, vars, LedgerInv, Within, Budget, SnapshotWithin, FlipWithin
    <2>2. CASE \E s \in Slots : Webhook(s)
      BY <2>2, WebhookInv
    <2>3. CASE \E s \in Slots :
           \/ Checkout(s) \/ StaffStep(s) \/ Crash(s)
           \/ \E ev \in Event : Deliver(s, ev) \/ Redeliver(s, ev) \/ Replay(s, ev)
           \/ \E sponsored \in BOOLEAN : Initiate(s, sponsored)
           \/ \E txn \in ManualRefs \cup {NoInvoice}, sponsored \in BOOLEAN :
                StartManual(s, txn, sponsored)
           \/ \E r \in Rows, full \in BOOLEAN : StartRefund(s, r, full)
           \/ \E r \in Rows, status \in Overrides : Override(s, r, status)
      BY <2>3, StaffInv
    <2> QED
      BY <2>1, <2>2, <2>3 DEF Next
  <1>3. LedgerInv => NeverOverCredited
    BY DEF LedgerInv, Within, Budget, NeverOverCredited
  <1> QED
    BY <1>1, <1>2, <1>3, TypeCorrect, PTL DEF Spec

-----------------------------------------------------------------------------
(* One row per invoice.  An invoice /initiate asks for is nobody's but the *)
(* request's that got it, until its row is committed; only then can it be  *)
(* paid, reported and looked up, and whoever looks it up finds the row.    *)

\* The invoices nobody but /initiate announces.
Issued == Invoices \ (Legacy \cup ManualRefs)

\* A row that is not there is nobody's.
AbsentBare == \A r \in Rows : payments[r].status = "absent" => payments[r].txn = NoInvoice

Reported ==
    /\ \A e \in events : e.inv \in payable
    /\ \A entry \in log : entry.inv \in payable

IssuedRows ==
    \A inv \in Issued :
        /\ inv \notin minted => RowsOf(inv) = {}
        /\ inv \in payable => RowsOf(inv) # {}
        /\ \A r1, r2 \in RowsOf(inv) : r1 = r2

\* What a request relies on about the invoice it is about.
Knows(req) ==
    /\ req.pc = "invoiced" =>
          /\ req.inv \in minted /\ req.inv \notin payable
          /\ req.inv \in Issued => RowsOf(req.inv) = {}
    /\ req.pc \in {"sponsorshipRead", "inserting", "flipping", "refundRead", "reversing"}
          => req.ev.inv \in payable
    /\ req.pc = "inserting" => req.ev.inv \notin Issued

Distinct ==
    \A s, t \in Slots :
        (reqs[s].pc = "invoiced" /\ reqs[t].pc = "invoiced" /\ reqs[s].inv = reqs[t].inv)
            => s = t

IssueInv ==
    /\ TypeOK
    /\ payable \subseteq minted
    /\ AbsentBare /\ Reported /\ IssuedRows /\ Distinct
    /\ \A s \in Slots : Knows(reqs[s])

\* An idle request relies on nothing.
LEMMA IdleKnows == Knows(Idle) /\ Idle.pc # "invoiced"
  BY DEF Knows, Idle

\* A row rewritten keeps its invoice.
LEMMA RowRewritten ==
    ASSUME TypeOK, AbsentBare, NEW r \in Rows, NEW p \in Payment,
           p.txn = payments[r].txn, payments[r].status # "absent" => p.status # "absent",
           payments' = [payments EXCEPT ![r] = p]
    PROVE  AbsentBare' /\ \A inv \in Invoices : RowsOf(inv)' = RowsOf(inv)
  <1>1. payments \in [Rows -> Payment] /\ NoInvoice \notin Invoices
    BY LedgerAssumption DEF TypeOK
  <1>2. AbsentBare'
    BY <1>1 DEF AbsentBare
  <1>3. ASSUME NEW inv \in Invoices PROVE RowsOf(inv)' = RowsOf(inv)
    <2>1. ASSUME NEW q \in Rows
          PROVE  (payments'[q].status # "absent" /\ payments'[q].txn = inv)
                   <=> (payments[q].status # "absent" /\ payments[q].txn = inv)
      BY <1>1 DEF AbsentBare
    <2> QED
      BY <2>1 DEF RowsOf
  <1> QED
    BY <1>2, <1>3

\* A row inserted is one more row of its invoice.
LEMMA RowInserted ==
    ASSUME TypeOK, AbsentBare, NEW r \in FreeRows, NEW p \in Payment, p.status # "absent",
           payments' = [payments EXCEPT ![r] = p]
    PROVE  /\ AbsentBare'
           /\ \A inv \in Invoices :
                RowsOf(inv)' = IF p.txn = inv THEN RowsOf(inv) \cup {r} ELSE RowsOf(inv)
  <1>1. payments \in [Rows -> Payment] /\ NoInvoice \notin Invoices
    BY LedgerAssumption DEF TypeOK
  <1>2. r \in Rows /\ payments[r].status = "absent"
    BY DEF FreeRows
  <1>3. AbsentBare'
    BY <1>1, <1>2 DEF AbsentBare
  <1>4. ASSUME NEW inv \in Invoices
        PROVE  RowsOf(inv)' = IF p.txn = inv THEN RowsOf(inv) \cup {r} ELSE RowsOf(inv)
    <2>1. ASSUME NEW q \in Rows
          PROVE  (payments'[q].status # "absent" /\ payments'[q].txn = inv)
                   <=> \/ payments[q].status # "absent" /\ payments[q].txn = inv
                       \/ q = r /\ p.txn = inv
      BY <1>1, <1>2
    <2> QED
      BY <1>2, <2>1 DEF RowsOf
  <1> QED
    BY <1>3, <1>4

\* Steps that give no issued invoice a row, nor make it payable.
LEMMA RowsStay ==
    ASSUME IssueInv, TypeOK', AbsentBare', Reported',
           \A inv \in Issued : RowsOf(inv)' = RowsOf(inv),
           UNCHANGED <<minted, payable>>,
           NEW req, Knows(req), req.pc # "invoiced",
           \A t \in Slots : reqs'[t] = reqs[t] \/ reqs'[t] = req
    PROVE  IssueInv'
  <1>1. IssuedRows'
    BY DEF IssueInv, IssuedRows
  <1>2. Distinct'
    BY DEF IssueInv, Distinct
  <1>3. ASSUME NEW q, Knows(q) PROVE Knows(q)'
    BY <1>3 DEF Knows
  <1>4. ASSUME NEW t \in Slots PROVE Knows(reqs[t])'
    <2>1. PICK q : q = reqs'[t]
      OBVIOUS
    <2>2. Knows(q)
      BY <2>1 DEF IssueInv
    <2>3. Knows(q)'
      BY <1>3, <2>2
    <2> QED
      BY <2>1, <2>3 DEF Knows
  <1> QED
    BY <1>1, <1>2, <1>4 DEF IssueInv

\* So do steps that leave the payments alone.
LEMMA TableStays ==
    ASSUME IssueInv, TypeOK', Reported', UNCHANGED <<payments, minted, payable>>,
           NEW req, Knows(req), req.pc # "invoiced",
           \A t \in Slots : reqs'[t] = reqs[t] \/ reqs'[t] = req
    PROVE  IssueInv'
  <1>1. AbsentBare' /\ \A inv \in Issued : RowsOf(inv)' = RowsOf(inv)
    BY DEF IssueInv, AbsentBare, RowsOf
  <1> QED
    BY <1>1, RowsStay

\* What is reported stays payable.
LEMMA ReportedStays ==
    ASSUME IssueInv, NEW inv \in payable, payable \subseteq payable',
           \A e \in events' : e \in events \/ e.inv = inv,
           \A entry \in log' : entry \in log \/ entry.inv = inv
    PROVE  Reported'
  BY DEF IssueInv, Reported

\* A request freed, or sent on, with nothing reported.
LEMMA ReportedKept ==
    ASSUME IssueInv, UNCHANGED <<payable, events, log>>
    PROVE  Reported'
  BY DEF IssueInv, Reported

\* An answer logs the report it answers.
LEMMA AnswerIssue ==
    ASSUME IssueInv, NEW s \in Slots, NEW ev, NEW ok, Answer(s, ev, ok), ev.inv \in payable,
           UNCHANGED <<payable, events>>
    PROVE  Reported' /\ \A t \in Slots : reqs'[t] = reqs[t] \/ reqs'[t] = Idle
  <1>1. \A entry \in log' : entry \in log \/ entry.inv = ev.inv
    BY DEF Answer
  <1>2. Reported'
    BY <1>1, ReportedStays
  <1> QED
    BY <1>2 DEF Answer, Goto, IssueInv, TypeOK

\* What a request is sent on to.
LEMMA GotoIssue ==
    ASSUME IssueInv, NEW s \in Slots, NEW req, Goto(s, req)
    PROVE  \A t \in Slots : reqs'[t] = reqs[t] \/ reqs'[t] = req
  BY DEF Goto, IssueInv, TypeOK

\* A report received is one of a payable invoice.
LEMMA ReceiveIssue ==
    ASSUME IssueInv, TypeOK', NEW s \in Slots, NEW ev \in Event, Receive(s, ev),
           ev.inv \in payable
    PROVE  IssueInv'
  <1>1. UNCHANGED <<payments, minted, payable, events>>
    BY DEF Receive
  <1>2. CASE ReceivePayment(s, ev)
    <2> DEFINE req == [pc |-> "sponsorshipRead", ev |-> ev, snap |-> books]
    <2>1. Goto(s, req) /\ UNCHANGED log
      BY <1>2 DEF ReceivePayment
    <2>2. Knows(req) /\ req.pc # "invoiced"
      BY DEF Knows
    <2> HIDE DEF req
    <2> QED
      BY <1>1, <2>1, <2>2, TableStays, GotoIssue, ReportedKept
  <1>3. CASE \E ok \in BOOLEAN : Answer(s, ev, ok)
    BY <1>1, <1>3, TableStays, AnswerIssue, IdleKnows
  <1>4. ASSUME NEW r \in RowsOf(ev.inv), UNCHANGED log,
               Goto(s, [pc |-> "refundRead", ev |-> ev, row |-> r, seen |-> payments[r].status])
        PROVE  IssueInv'
    <2> DEFINE req == [pc |-> "refundRead", ev |-> ev, row |-> r, seen |-> payments[r].status]
    <2>1. Goto(s, req) /\ UNCHANGED log
      BY <1>4
    <2>2. Knows(req) /\ req.pc # "invoiced"
      BY DEF Knows
    <2> HIDE DEF req
    <2> QED
      BY <1>1, <2>1, <2>2, TableStays, GotoIssue, ReportedKept
  <1> QED
    BY <1>2, <1>3, <1>4 DEF Receive, ReceiveRefund

\* The webhook inserts a row for no issued invoice: it would have found one.
LEMMA WebhookIssue ==
    ASSUME IssueInv, TypeOK', NEW s \in Slots, Webhook(s)
    PROVE  IssueInv'
  <1> DEFINE req == reqs[s]
  <1>0. /\ req \in Request /\ Knows(req) /\ TypeOK /\ AbsentBare
        /\ PaymentEvent \subseteq Event /\ RefundEvent \subseteq Event
    BY DEF IssueInv, TypeOK, Event
  <1>1. CASE LookUpPayment(s)
    <2>1. /\ req.ev \in PaymentEvent /\ req.ev.inv \in payable /\ req.ev.inv \in Invoices
          /\ UNCHANGED <<payments, minted, payable, events>>
      BY <1>0, <1>1, RequestFields DEF LookUpPayment, Knows, PaymentEvent
    <2>2. CASE RowsOf(req.ev.inv) = {} /\ Goto(s, [req EXCEPT !.pc = "inserting"])
               /\ UNCHANGED log
      <3> DEFINE q == [req EXCEPT !.pc = "inserting"]
      <3>1. req.ev.inv \notin Issued
        BY <2>1, <2>2 DEF IssueInv, IssuedRows
      <3>2. q.pc = "inserting" /\ q.ev = req.ev
        BY <1>0, <1>1 DEF LookUpPayment, Request, Idle
      <3> HIDE DEF q
      <3>3. Knows(q)
        BY <2>1, <3>1, <3>2 DEF Knows
      <3> QED
        BY <2>1, <2>2, <3>2, <3>3, TableStays, GotoIssue, ReportedKept DEF q
    <2>3. ASSUME NEW r \in RowsOf(req.ev.inv), UNCHANGED log,
                 Goto(s, [pc |-> "flipping", ev |-> req.ev, snap |-> req.snap,
                          row |-> r, seen |-> payments[r].status])
          PROVE  IssueInv'
      <3> DEFINE q == [pc |-> "flipping", ev |-> req.ev, snap |-> req.snap,
                       row |-> r, seen |-> payments[r].status]
      <3>1. Goto(s, q) /\ UNCHANGED log
        BY <2>3
      <3>2. Knows(q) /\ q.pc # "invoiced"
        BY <2>1 DEF Knows
      <3> HIDE DEF q
      <3> QED
        BY <2>1, <3>1, <3>2, TableStays, GotoIssue, ReportedKept
    <2>4. CASE Answer(s, req.ev, TRUE)
      BY <2>1, <2>4, TableStays, AnswerIssue, IdleKnows
    <2> QED
      BY <1>1, <2>2, <2>3, <2>4 DEF LookUpPayment
  <1>2. CASE FlipPayment(s)
    <2>1. /\ req.row \in Rows /\ req.ev \in PaymentEvent /\ req.ev.inv \in payable
          /\ req.ev.kind \in PaymentKinds
      BY <1>0, <1>2, RequestFields DEF FlipPayment, Knows, PaymentEvent
    <2> DEFINE p == Flipped(req)
    <2>2. /\ p \in Payment /\ p.txn = payments[req.row].txn
          /\ p.status \in {payments[req.row].status, OurStatus[req.ev.kind]}
      BY <1>0, <1>2, FlippedType DEF FlipPayment
    <2>3. OurStatus[req.ev.kind] # "absent"
      BY <2>1, MappedStatus DEF Statuses, Open
    <2>4. /\ payments' = [payments EXCEPT ![req.row] = p] /\ Answer(s, req.ev, TRUE)
          /\ UNCHANGED <<minted, payable, events>>
      BY <1>2 DEF FlipPayment
    <2> HIDE DEF p
    <2>5. AbsentBare' /\ \A inv \in Issued : RowsOf(inv)' = RowsOf(inv)
      BY <1>0, <2>1, <2>2, <2>3, <2>4, RowRewritten DEF Issued
    <2>6. Reported' /\ \A t \in Slots : reqs'[t] = reqs[t] \/ reqs'[t] = Idle
      BY <2>1, <2>4, AnswerIssue
    <2> QED
      BY <2>4, <2>5, <2>6, RowsStay, IdleKnows
  <1>3. CASE InsertPayment(s)
    <2>1. /\ req.ev \in PaymentEvent /\ req.ev.inv \in Invoices /\ req.ev.kind \in PaymentKinds
          /\ req.ev.inv \in payable /\ req.ev.inv \notin Issued
      BY <1>0, <1>3, RequestFields DEF InsertPayment, Knows, PaymentEvent
    <2> DEFINE p == [status |-> OurStatus[req.ev.kind], txn |-> req.ev.inv,
                     sponsored |-> req.ev.inv \in Linked]
    <2>2. p \in Payment /\ p.status # "absent" /\ p.txn = req.ev.inv
      BY <2>1, MappedStatus DEF Payment, Statuses, Open
    <2>3. PICK r \in FreeRows : payments' = [payments EXCEPT ![r] = p]
      BY <1>3 DEF InsertPayment
    <2>4. Answer(s, req.ev, TRUE) /\ UNCHANGED <<minted, payable, events>>
      BY <1>3 DEF InsertPayment
    <2> HIDE DEF p
    <2>5. AbsentBare' /\ \A inv \in Issued : RowsOf(inv)' = RowsOf(inv)
      BY <1>0, <2>1, <2>2, <2>3, RowInserted DEF Issued
    <2>6. Reported' /\ \A t \in Slots : reqs'[t] = reqs[t] \/ reqs'[t] = Idle
      BY <2>1, <2>4, AnswerIssue
    <2> QED
      BY <2>4, <2>5, <2>6, RowsStay, IdleKnows
  <1>4. CASE ReadForReversal(s)
    <2> DEFINE q == [pc |-> "reversing", ev |-> req.ev, row |-> req.row, snap |-> books]
    <2>1. Goto(s, q) /\ UNCHANGED <<payments, minted, payable, events, log>>
      BY <1>4 DEF ReadForReversal
    <2>2. Knows(q) /\ q.pc # "invoiced"
      BY <1>0, <1>4 DEF ReadForReversal, Knows
    <2> HIDE DEF q
    <2> QED
      BY <2>1, <2>2, TableStays, GotoIssue, ReportedKept
  <1>5. ASSUME NEW status \in Statuses \cup {payments[req.row].status},
               req.row \in Rows, req.ev.inv \in payable, WriteRefund(s, status)
        PROVE  IssueInv'
    <2> DEFINE p == [payments[req.row] EXCEPT !.status = status]
    <2>1. payments[req.row] \in Payment /\ payments \in [Rows -> Payment]
      BY <1>0, <1>5 DEF TypeOK
    <2>2. /\ p \in Payment /\ p.txn = payments[req.row].txn /\ p.status = status
          /\ payments' = [payments EXCEPT ![req.row] = p]
      BY <1>5, <2>1 DEF WriteRefund, Payment
    <2>3. payments[req.row].status # "absent" => p.status # "absent"
      BY <1>5, <2>2 DEF Statuses, Open
    <2>4. Answer(s, req.ev, TRUE) /\ UNCHANGED <<minted, payable, events>>
      BY <1>5 DEF WriteRefund
    <2> HIDE DEF p
    <2>5. AbsentBare' /\ \A inv \in Issued : RowsOf(inv)' = RowsOf(inv)
      BY <1>0, <1>5, <2>2, <2>3, RowRewritten DEF Issued
    <2>6. Reported' /\ \A t \in Slots : reqs'[t] = reqs[t] \/ reqs'[t] = Idle
      BY <1>5, <2>4, AnswerIssue
    <2> QED
      BY <2>4, <2>5, <2>6, RowsStay, IdleKnows
  <1>6. CASE ReverseAndRefund(s)
    <2>1. req.row \in Rows /\ req.ev.inv \in payable
      BY <1>0, <1>6, RequestFields DEF ReverseAndRefund, Knows
    <2> QED
      BY <1>5, <1>6, <2>1 DEF ReverseAndRefund, Statuses
  <1>7. CASE RecordRefund(s)
    <2>1. req.row \in Rows /\ req.ev.inv \in payable /\ req.ev.kind \in RefundKinds
      BY <1>0, <1>7, RequestFields DEF RecordRefund, Knows, RefundEvent
    <2>2. RefundStatus[req.ev.kind] \in Statuses
      BY <2>1, MappedStatus
    <2> QED
      BY <1>5, <1>7, <2>1, <2>2 DEF RecordRefund
  <1> QED
    BY <1>1, <1>2, <1>3, <1>4, <1>6, <1>7 DEF Webhook

\* An initiated invoice is minted for one request and becomes payable with its row.
LEMMA CheckoutIssue ==
    ASSUME IssueInv, TypeOK', NEW s \in Slots, Checkout(s)
    PROVE  IssueInv'
  <1> DEFINE req == reqs[s]
  <1>0. /\ req \in Request /\ Knows(req) /\ TypeOK /\ AbsentBare /\ IssuedRows /\ Distinct
        /\ \A t \in Slots : Knows(reqs[t])
    BY DEF IssueInv, TypeOK
  <1>1. CASE GatewayMints(s)
    <2>1. PICK inv \in Invoices \ minted :
            minted' = minted \cup {inv} /\ Goto(s, [pc |-> "invoiced", inv |-> inv])
      BY <1>1 DEF GatewayMints
    <2> DEFINE q == [pc |-> "invoiced", inv |-> inv]
    <2>2. Goto(s, q) /\ q.pc = "invoiced" /\ q.inv = inv
      BY <2>1
    <2> HIDE DEF q
    <2>3. /\ UNCHANGED <<payments, payable, events, log>>
          /\ reqs'[s] = q /\ \A t \in Slots : t # s => reqs'[t] = reqs[t]
      BY <1>0, <1>1, <2>2 DEF GatewayMints, Goto, TypeOK
    <2>4. inv \notin payable /\ (inv \in Issued => RowsOf(inv) = {})
      BY <2>1 DEF IssueInv, IssuedRows
    <2>5. \A i \in Issued : RowsOf(i)' = RowsOf(i)
      BY <2>3 DEF RowsOf
    <2>6. IssuedRows' /\ AbsentBare' /\ Reported' /\ (payable \subseteq minted)'
      BY <2>1, <2>3, <2>5 DEF IssueInv, IssuedRows, AbsentBare, Reported
    <2>7. ASSUME NEW t \in Slots, reqs[t].pc = "invoiced" PROVE reqs[t].inv # inv
      BY <1>0, <2>1, <2>7 DEF Knows
    <2>8. Distinct'
      BY <1>0, <2>2, <2>3, <2>7 DEF Distinct
    <2>9. ASSUME NEW k, Knows(k) PROVE Knows(k)'
      BY <2>1, <2>3, <2>5, <2>9 DEF Knows
    <2>10. Knows(q)'
      BY <2>1, <2>2, <2>3, <2>4, <2>5 DEF Knows
    <2>11. ASSUME NEW t \in Slots PROVE Knows(reqs[t])'
      <3>1. PICK k : k = reqs'[t]
        OBVIOUS
      <3>2. Knows(k)'
        BY <1>0, <2>3, <2>9, <2>10, <3>1
      <3> QED
        BY <3>1, <3>2 DEF Knows
    <2> QED
      BY <2>6, <2>8, <2>11 DEF IssueInv
  <1>2. CASE GatewayDeclines(s)
    BY <1>2, TableStays, GotoIssue, ReportedKept, IdleKnows DEF GatewayDeclines
  <1>3. CASE CommitInitiate(s)
    <2>1. /\ req.pc = "invoiced" /\ req.inv \in Invoices /\ req.inv \in minted
          /\ req.inv \notin payable /\ (req.inv \in Issued => RowsOf(req.inv) = {})
      BY <1>0, <1>3, RequestFields DEF CommitInitiate, Knows
    <2> DEFINE inv == req.inv
               p == [status |-> "pending", txn |-> inv, sponsored |-> inv \in Linked]
    <2>2. PICK r \in FreeRows : payments' = [payments EXCEPT ![r] = p]
      BY <1>3 DEF CommitInitiate
    <2>3. p \in Payment /\ p.status # "absent" /\ p.txn = inv
      BY <2>1 DEF Payment, Statuses, Open
    <2>4. /\ payable' = payable \cup {inv} /\ UNCHANGED <<minted, events, log>>
          /\ reqs'[s] = Idle /\ \A t \in Slots : t # s => reqs'[t] = reqs[t]
      BY <1>0, <1>3 DEF CommitInitiate, Goto, TypeOK
    <2> HIDE DEF p
    <2>5. /\ AbsentBare'
          /\ \A i \in Issued : RowsOf(i)' = IF inv = i THEN RowsOf(i) \cup {r} ELSE RowsOf(i)
      BY <1>0, <2>2, <2>3, RowInserted DEF Issued
    <2>6. IssuedRows'
      <3> SUFFICES ASSUME NEW i \in Issued
                   PROVE  /\ i \notin minted => RowsOf(i)' = {}
                          /\ i \in payable' => RowsOf(i)' # {}
                          /\ \A r1, r2 \in RowsOf(i)' : r1 = r2
        BY <2>4 DEF IssuedRows
      <3>1. CASE i = inv
        <4>1. RowsOf(i)' = {r}
          BY <2>1, <2>5, <3>1
        <4> QED
          BY <2>1, <3>1, <4>1
      <3>2. CASE i # inv
        <4>1. RowsOf(i)' = RowsOf(i)
          BY <2>5, <3>2
        <4> QED
          BY <1>0, <2>4, <3>2, <4>1 DEF IssuedRows
      <3> QED
        BY <3>1, <3>2
    <2>7. Distinct'
      BY <1>0, <2>4 DEF Distinct, Idle
    <2>8. Reported' /\ (payable \subseteq minted)'
      BY <2>1, <2>4 DEF IssueInv, Reported
    <2>9. ASSUME NEW k, Knows(k), k.pc = "invoiced" => k.inv # inv PROVE Knows(k)'
      BY <2>4, <2>5, <2>9 DEF Knows
    <2>10. ASSUME NEW t \in Slots, t # s, reqs[t].pc = "invoiced" PROVE reqs[t].inv # inv
      BY <1>0, <2>1, <2>10 DEF Distinct
    <2>11. ASSUME NEW t \in Slots PROVE Knows(reqs[t])'
      <3>1. PICK k : k = reqs'[t]
        OBVIOUS
      <3>2. Knows(k)'
        BY <1>0, <2>4, <2>9, <2>10, <3>1, IdleKnows
      <3> QED
        BY <3>1, <3>2 DEF Knows
    <2> QED
      BY <2>5, <2>6, <2>7, <2>8, <2>11 DEF IssueInv
  <1> QED
    BY <1>1, <1>2, <1>3 DEF Checkout

\* Staff quote no issued invoice, and give no row another one.
LEMMA StaffIssue ==
    ASSUME IssueInv, TypeOK', NEW s \in Slots,
           \/ StaffStep(s) \/ Crash(s)
           \/ \E ev \in Event : Deliver(s, ev) \/ Redeliver(s, ev) \/ Replay(s, ev)
           \/ \E sponsored \in BOOLEAN : Initiate(s, sponsored)
           \/ \E txn \in ManualRefs \cup {NoInvoice}, sponsored \in BOOLEAN :
                StartManual(s, txn, sponsored)
           \/ \E r \in Rows, full \in BOOLEAN : StartRefund(s, r, full)
           \/ \E r \in Rows, status \in Overrides : Override(s, r, status)
    PROVE  IssueInv'
  <1> DEFINE req == reqs[s]
  <1>0. /\ req \in Request /\ Knows(req) /\ TypeOK /\ AbsentBare
        /\ NoInvoice \notin Invoices
    BY LedgerAssumption DEF IssueInv, TypeOK
  <1>1. CASE RecordManual(s)
    <2>1. req.txn \in Invoices \cup {NoInvoice} /\ req.txn \notin Issued /\ req.sponsored \in BOOLEAN
      BY <1>0, <1>1, RequestFields, LedgerAssumption DEF RecordManual, Issued
    <2> DEFINE p == [status |-> "completed", txn |-> req.txn, sponsored |-> req.sponsored]
    <2>2. p \in Payment /\ p.status # "absent" /\ p.txn = req.txn
      BY <2>1 DEF Payment, Statuses
    <2>3. PICK r \in FreeRows : payments' = [payments EXCEPT ![r] = p]
      BY <1>1 DEF RecordManual
    <2>4. Goto(s, Idle) /\ UNCHANGED <<minted, payable, events, log>>
      BY <1>1 DEF RecordManual
    <2> HIDE DEF p
    <2>5. AbsentBare' /\ \A inv \in Issued : RowsOf(inv)' = RowsOf(inv)
      BY <1>0, <2>1, <2>2, <2>3, RowInserted DEF Issued
    <2> QED
      BY <2>4, <2>5, RowsStay, GotoIssue, ReportedKept, IdleKnows
  <1>2. CASE GatewayRefunds(s)
    <2>1. PICK inv, kind :
            /\ [inv |-> inv, kind |-> "Paid"] \in events
            /\ events' = events \cup {[inv |-> inv, kind |-> kind]}
      BY <1>2 DEF GatewayRefunds
    <2>2. inv \in payable
      BY <2>1 DEF IssueInv, Reported
    <2>3. UNCHANGED <<payments, minted, payable, log>> /\ Goto(s, [req EXCEPT !.pc = "refunded"])
      BY <1>2 DEF GatewayRefunds
    <2>4. Reported'
      BY <2>1, <2>2, <2>3, ReportedStays
    <2> DEFINE q == [req EXCEPT !.pc = "refunded"]
    <2>5. q.pc = "refunded"
      BY <1>0, <1>2 DEF GatewayRefunds, Request, Idle
    <2> HIDE DEF q
    <2>6. Knows(q)
      BY <2>5 DEF Knows
    <2> QED
      BY <2>3, <2>4, <2>5, <2>6, TableStays, GotoIssue DEF q
  <1>3. CASE GatewayRefusesRefund(s) \/ Crash(s)
    BY <1>3, TableStays, GotoIssue, ReportedKept, IdleKnows DEF GatewayRefusesRefund, Crash
  <1>4. ASSUME NEW r \in Rows, NEW status \in Statuses,
               payments' = [payments EXCEPT ![r].status = status]
        PROVE  AbsentBare' /\ \A inv \in Issued : RowsOf(inv)' = RowsOf(inv)
    <2> DEFINE p == [payments[r] EXCEPT !.status = status]
    <2>1. /\ p \in Payment /\ p.txn = payments[r].txn /\ p.status = status
          /\ payments' = [payments EXCEPT ![r] = p]
      BY <1>0, <1>4, StatusType DEF TypeOK, Payment
    <2>2. p.status # "absent"
      BY <2>1 DEF Statuses, Open
    <2> HIDE DEF p
    <2> QED
      BY <1>0, <2>1, <2>2, RowRewritten DEF Issued
  <1>5. CASE CommitRefund(s)
    <2>1. req.row \in Rows
      BY <1>0, <1>5, RequestFields DEF CommitRefund
    <2>2. (IF req.full THEN "refunded" ELSE "partially_refunded") \in Statuses
      BY DEF Statuses
    <2>3. AbsentBare' /\ \A inv \in Issued : RowsOf(inv)' = RowsOf(inv)
      BY <1>4, <1>5, <2>1, <2>2 DEF CommitRefund
    <2>4. Goto(s, Idle) /\ UNCHANGED <<minted, payable, events, log>>
      BY <1>5 DEF CommitRefund
    <2> QED
      BY <2>3, <2>4, RowsStay, GotoIssue, ReportedKept, IdleKnows
  <1>6. CASE \E ev \in Event : Deliver(s, ev) \/ Redeliver(s, ev) \/ Replay(s, ev)
    <2>1. PICK ev \in Event : Deliver(s, ev) \/ Redeliver(s, ev) \/ Replay(s, ev)
      BY <1>6
    <2>2. Receive(s, ev)
      BY <2>1 DEF Deliver, Redeliver, Replay
    <2>3. ev.inv \in payable
      <3>1. CASE ev \in events
        BY <3>1 DEF IssueInv, Reported
      <3>2. CASE \E ok \in BOOLEAN : [inv |-> ev.inv, kind |-> ev.kind, ok |-> ok] \in log
        BY <3>2 DEF IssueInv, Reported
      <3> QED
        BY <2>1, <3>1, <3>2 DEF Deliver, Redeliver, Replay
    <2> QED
      BY <2>2, <2>3, ReceiveIssue
  <1>7. ASSUME NEW q, Goto(s, q), Knows(q), q.pc # "invoiced",
               UNCHANGED <<payments, minted, payable, events, log>>
        PROVE  IssueInv'
    BY <1>7, TableStays, GotoIssue, ReportedKept
  <1>8. CASE \E sponsored \in BOOLEAN : Initiate(s, sponsored)
    <2>1. PICK sponsored \in BOOLEAN : Initiate(s, sponsored)
      BY <1>8
    <2> DEFINE q == [pc |-> "sending", sponsored |-> sponsored]
    <2>2. Goto(s, q) /\ UNCHANGED <<payments, minted, payable, events, log>>
      BY <2>1 DEF Initiate, Begin
    <2>3. Knows(q) /\ q.pc # "invoiced"
      BY DEF Knows
    <2> QED
      BY <1>7, <2>2, <2>3
  <1>9. CASE \E txn \in ManualRefs \cup {NoInvoice}, sponsored \in BOOLEAN :
                StartManual(s, txn, sponsored)
    <2>1. PICK txn \in ManualRefs \cup {NoInvoice}, sponsored \in BOOLEAN :
            StartManual(s, txn, sponsored)
      BY <1>9
    <2> DEFINE q == [pc |-> "recording", txn |-> txn, sponsored |-> sponsored, snap |-> books]
    <2>2. Goto(s, q) /\ UNCHANGED <<payments, minted, payable, events, log>>
      BY <2>1 DEF StartManual, Begin
    <2>3. Knows(q) /\ q.pc # "invoiced"
      BY DEF Knows
    <2> QED
      BY <1>7, <2>2, <2>3
  <1>10. CASE \E r \in Rows, full \in BOOLEAN : StartRefund(s, r, full)
    <2>1. PICK r \in Rows, full \in BOOLEAN : StartRefund(s, r, full)
      BY <1>10
    <2> DEFINE q == [pc |-> "refunding", row |-> r, full |-> full]
    <2>2. Goto(s, q) /\ UNCHANGED <<payments, minted, payable, events, log>>
      BY <2>1 DEF StartRefund, Begin
    <2>3. Knows(q) /\ q.pc # "invoiced"
      BY DEF Knows
    <2> QED
      BY <1>7, <2>2, <2>3
  <1>11. CASE \E r \in Rows, status \in Overrides : Override(s, r, status)
    <2>1. PICK r \in Rows, status \in Overrides : Override(s, r, status)
      BY <1>11
    <2>2. AbsentBare' /\ \A inv \in Issued : RowsOf(inv)' = RowsOf(inv)
      BY <1>4, <2>1, LedgerAssumption DEF Override
    <2>3. UNCHANGED <<minted, payable, events, log, reqs>>
      BY <2>1 DEF Override
    <2> QED
      BY <2>2, <2>3, RowsStay, ReportedKept, IdleKnows
  <1> QED
    BY <1>1, <1>2, <1>3, <1>5, <1>6, <1>8, <1>9, <1>10, <1>11 DEF StaffStep

\* Nothing is minted but the portal's invoices, which are payable.
LEMMA IssueStart ==
    ASSUME Init
    PROVE  IssueInv
  <1>1. TypeOK
    BY LedgerAssumption DEF Init, TypeOK, Payment, Absent, Books, Request
  <1>2. AbsentBare /\ \A inv \in Invoices : RowsOf(inv) = {}
    BY DEF Init, AbsentBare, RowsOf, Absent
  <1>3. IssuedRows
    BY <1>2 DEF Init, IssuedRows, Issued
  <1>4. Distinct /\ \A s \in Slots : Knows(reqs[s])
    BY DEF Init, Distinct, Knows, Idle
  <1> QED
    BY <1>1, <1>2, <1>3, <1>4 DEF IssueInv, Init, Reported

\* Every step keeps the invariant.
LEMMA IssueStep ==
    ASSUME IssueInv, TypeOK', [Next]_vars
    PROVE  IssueInv'
  <1>1. CASE \E inv \in Invoices, kind \in Kinds : GatewayReports(inv, kind)
    <2>1. PICK inv \in Invoices, kind \in Kinds : GatewayReports(inv, kind)
      BY <1>1
    <2>2. /\ UNCHANGED <<payments, reqs, minted, payable, log>> /\ inv \in payable
          /\ \A e \in events' : e \in events \/ e.inv = inv
      BY <2>1 DEF GatewayReports
    <2>3. Reported'
      BY <2>2, ReportedStays
    <2> QED
      BY <2>2, <2>3, TableStays, IdleKnows
  <1>2. ASSUME NEW s \in Slots, Webhook(s) PROVE IssueInv'
    BY <1>2, WebhookIssue
  <1>3. ASSUME NEW s \in Slots, Checkout(s) PROVE IssueInv'
    BY <1>3, CheckoutIssue
  <1>4. CASE \E s \in Slots :
           \/ StaffStep(s) \/ Crash(s)
           \/ \E ev \in Event : Deliver(s, ev) \/ Redeliver(s, ev) \/ Replay(s, ev)
           \/ \E sponsored \in BOOLEAN : Initiate(s, sponsored)
           \/ \E txn \in ManualRefs \cup {NoInvoice}, sponsored \in BOOLEAN :
                StartManual(s, txn, sponsored)
           \/ \E r \in Rows, full \in BOOLEAN : StartRefund(s, r, full)
           \/ \E r \in Rows, status \in Overrides : Override(s, r, status)
    BY <1>4, StaffIssue
  <1>5. CASE UNCHANGED vars
    BY <1>5, TableStays, ReportedKept, IdleKnows DEF vars
  <1> QED
    BY <1>1, <1>2, <1>3, <1>4, <1>5 DEF Next

\* An invoice minted by /initiate has one payment row at most, however many
\* deliveries, replays and manual entries overlap, without a UNIQUE index.
THEOREM OneRowEach == Spec => []OneRowPerInvoice
  <1>1. IssueInv => OneRowPerInvoice
    BY DEF IssueInv, IssuedRows, Issued, OneRowPerInvoice
  <1> QED
    BY <1>1, IssueStart, IssueStep, TypeCorrect, PTL DEF Spec

-----------------------------------------------------------------------------
(* One request at a time.  What the only request has read is still so when *)
(* it writes: the totals it holds are those of the books, the row it found *)
(* has the status it saw.                                                  *)

Alone(req) ==
    /\ req.pc \in {"sponsorshipRead", "inserting", "flipping", "reversing", "recording"}
          => req.snap = books
    /\ req.pc = "inserting" => RowsOf(req.ev.inv) = {}
    /\ req.pc = "flipping" => req.row \in RowsOf(req.ev.inv) /\ payments[req.row].status = req.seen
    /\ req.pc = "refundRead" => req.row \in RowsOf(req.ev.inv) /\ payments[req.row].status = req.seen
    /\ req.pc = "reversing" => /\ req.row \in RowsOf(req.ev.inv)
                               /\ payments[req.row].status = "completed" /\ payments[req.row].sponsored

\* A payment that may yet settle is of the sponsorship if its reference says so,
\* which is what the webhook goes by.
OpenLinked ==
    \A r \in Rows : payments[r].status \in Open => (payments[r].sponsored <=> payments[r].txn \in Linked)

\* The payments the books have to cover.
Covers(p) == p.sponsored /\ p.status = "completed"
Covered == {r \in Rows : Covers(payments[r])}

SettledFor(inv) == TakenOn(inv) \/ FailureReported(inv)

\* The failures of an invoice among the reports a log has as answered.
FailedIn(l, inv) ==
    \E kind \in {"Failed", "RefundFailed"} : [inv |-> inv, kind |-> kind, ok |-> TRUE] \in l

\* A row is marked failed by nothing but a report we have acknowledged.
FailedReported ==
    \A r \in Rows : payments[r].status = "failed" => FailureReported(payments[r].txn)

SerialInv ==
    /\ TypeOK
    /\ \A s \in Slots : Alone(reqs[s])
    /\ OpenLinked
    /\ FailedReported
    /\ AcknowledgedChargeIsSettled
    /\ IsFiniteSet(Covered)
    /\ books.count >= Opening + Cardinality(Covered)

\* Ops neither reopen a payment, nor complete one or mark it failed by hand.
OverridesSettle == Overrides \cap (Open \cup {"completed", "failed"}) = {}

\* What a row written does to the payments the books have to cover.
LEMMA CoverStep ==
    ASSUME TypeOK, IsFiniteSet(Covered), NEW r \in Rows, NEW p \in Payment,
           payments' = [payments EXCEPT ![r] = p]
    PROVE  /\ IsFiniteSet(Covered)' /\ Cardinality(Covered) \in Nat /\ Cardinality(Covered)' \in Nat
           /\ Cardinality(Covered)' <= Cardinality(Covered) + 1
           /\ (~Covers(p) \/ Covers(payments[r])) => Cardinality(Covered)' <= Cardinality(Covered)
           /\ (~Covers(p) /\ Covers(payments[r])) => Cardinality(Covered)' = Cardinality(Covered) - 1
  <1>0. payments \in [Rows -> Payment]
    BY DEF TypeOK
  <1>1. Covered' = {q \in Rows : Covers(payments'[q])}
    BY DEF Covered, Covers
  <1>2. /\ r \in Covered <=> Covers(payments[r])
        /\ Covers(p) => Covered' = Covered \cup {r}
        /\ ~Covers(p) => Covered' = Covered \ {r}
    BY <1>0, <1>1 DEF Covered
  <1>3. Cardinality(Covered) \in Nat
    BY FS_CardinalityType
  <1>4. /\ IsFiniteSet(Covered \cup {r})
        /\ Cardinality(Covered \cup {r}) =
             IF r \in Covered THEN Cardinality(Covered) ELSE Cardinality(Covered) + 1
    BY FS_AddElement
  <1>5. /\ IsFiniteSet(Covered \ {r})
        /\ Cardinality(Covered \ {r}) =
             IF r \in Covered THEN Cardinality(Covered) - 1 ELSE Cardinality(Covered)
    BY FS_RemoveElement
  <1>6. CASE Covers(p)
    <2>1. Covered' = Covered \cup {r}
      BY <1>2, <1>6
    <2>2. IsFiniteSet(Covered') /\ Cardinality(Covered') = Cardinality(Covered \cup {r})
      BY <2>1, <1>4
    <2>3. IsFiniteSet(Covered)' /\ Cardinality(Covered)' = Cardinality(Covered \cup {r})
      BY <2>2
    <2> QED BY <1>2, <1>3, <1>4, <1>6, <2>3
  <1>7. CASE ~Covers(p)
    <2>1. Covered' = Covered \ {r}
      BY <1>2, <1>7
    <2>2. IsFiniteSet(Covered') /\ Cardinality(Covered') = Cardinality(Covered \ {r})
      BY <2>1, <1>5
    <2>3. IsFiniteSet(Covered)' /\ Cardinality(Covered)' = Cardinality(Covered \ {r})
      BY <2>2
    <2>4. r \in Covered => Cardinality(Covered) - 1 \in Nat
      <3>1. Cardinality(Covered \ {r}) \in Nat
        BY <1>5, FS_CardinalityType
      <3> QED BY <3>1, <1>5
    <2> QED BY <1>2, <1>3, <1>5, <1>7, <2>3, <2>4
  <1> QED BY <1>6, <1>7

\* A status is open, taken, failed, or that of no row at all.
LEMMA StatusKinds ==
    ASSUME NEW p \in Payment
    PROVE  /\ p.status \notin Open \cup {"absent", "failed"} <=> p.status \in Taken
           /\ p.status \in Taken => p.status # "absent"
  BY DEF Payment, Statuses, Open, Taken

\* A failure once reported stays reported: the log only grows.
LEMMA FailureStays ==
    ASSUME log \subseteq log', NEW inv, FailureReported(inv)
    PROVE  FailureReported(inv)'
  BY DEF FailureReported, Acknowledged

\* What a row written does to the charges that have settled: nothing, if it keeps
\* the invoice, does not reopen the row, and fails it only on a report.
LEMMA SettledStays ==
    ASSUME TypeOK, NEW r \in Rows, NEW p \in Payment, payments' = [payments EXCEPT ![r] = p],
           payments[r].status # "absent" =>
             (p.txn = payments[r].txn /\ p.status # "absent"
                /\ (payments[r].status \notin Open => p.status \notin Open)),
           log \subseteq log', p.status = "failed" => FailedIn(log', p.txn),
           NEW inv
    PROVE  /\ SettledFor(inv) => SettledFor(inv)'
           /\ (p.txn = inv /\ p.status \notin Open \cup {"absent"}) => SettledFor(inv)'
  <1>0. payments \in [Rows -> Payment]
    BY DEF TypeOK
  <1>1. ASSUME NEW q \in Rows, payments[q].status \in Taken, payments[q].txn = inv, q # r
        PROVE  TakenOn(inv)'
    <2>1. payments'[q] = payments[q]
      BY <1>0, <1>1
    <2>2. payments[q].status # "absent"
      BY <1>0, <1>1, StatusKinds
    <2> QED BY <1>1, <2>1, <2>2 DEF TakenOn, RowsOf
  <1>2. payments'[r] = p
    BY <1>0
  <1>3. p.txn = inv /\ p.status \notin Open \cup {"absent"} => SettledFor(inv)'
    <2>1. CASE p.txn = inv /\ p.status = "failed"
      BY <2>1 DEF SettledFor, FailureReported, Acknowledged, FailedIn
    <2>2. CASE p.txn = inv /\ p.status \notin Open \cup {"absent", "failed"}
      <3>1. p.status \in Taken /\ p.status # "absent"
        BY <2>2, StatusKinds
      <3> QED BY <1>2, <2>2, <3>1 DEF SettledFor, TakenOn, RowsOf
    <2> QED BY <2>1, <2>2
  <1>4. ASSUME SettledFor(inv) PROVE SettledFor(inv)'
    <2>1. CASE FailureReported(inv)
      BY <2>1, FailureStays DEF SettledFor
    <2>2. CASE TakenOn(inv)
      <3>1. PICK q \in Rows : payments[q].status \in Taken /\ payments[q].txn = inv
                              /\ payments[q].status # "absent"
        BY <2>2 DEF TakenOn, RowsOf
      <3>2. CASE q # r
        BY <1>1, <3>1, <3>2 DEF SettledFor
      <3>3. CASE q = r
        <4>1. payments[r].status \notin Open
          BY <1>0, <3>1, <3>3, StatusKinds
        <4>2. p.txn = inv /\ p.status \notin Open \cup {"absent"}
          BY <3>1, <3>3, <4>1
        <4> QED BY <1>3, <4>2
      <3> QED BY <3>2, <3>3
    <2> QED BY <1>4, <2>1, <2>2 DEF SettledFor
  <1> QED BY <1>3, <1>4

\* A step that writes no payment and no total.
LEMMA QuietSerial ==
    ASSUME SerialInv, TypeOK', UNCHANGED <<payments, books>>, NEW e,
           log \subseteq log', \A x \in log' : x \in log \/ x = e,
           (e.kind = "Paid" /\ e.ok = TRUE) => SettledFor(e.inv),
           \A s \in Slots : reqs'[s] = reqs[s] \/ Alone(reqs'[s])
    PROVE  SerialInv'
  <1>0. payments' = payments /\ books' = books
    OBVIOUS
  <1>1. ASSUME NEW q PROVE Alone(q) <=> Alone(q)'
    BY <1>0 DEF Alone, RowsOf
  <1>2. ASSUME NEW s \in Slots PROVE Alone(reqs[s])'
    <2>1. PICK q : q = reqs'[s]
      OBVIOUS
    <2>2. Alone(q)
      BY <2>1 DEF SerialInv
    <2>3. Alone(q)'
      BY <1>1, <2>2
    <2> QED BY <2>1, <2>3 DEF Alone
  <1>4. OpenLinked'
    BY <1>0 DEF SerialInv, OpenLinked
  <1>5. AcknowledgedChargeIsSettled'
    <2>1. ASSUME NEW inv \in Invoices, [inv |-> inv, kind |-> "Paid", ok |-> TRUE] \in log'
          PROVE  SettledFor(inv)
      BY <2>1 DEF SerialInv, AcknowledgedChargeIsSettled, Acknowledged, SettledFor
    <2>2. ASSUME NEW inv, SettledFor(inv)
          PROVE  SettledFor(inv)'
      <3>1. TakenOn(inv) => TakenOn(inv)'
        BY <1>0 DEF TakenOn, RowsOf
      <3>2. FailureReported(inv) => FailureReported(inv)'
        BY FailureStays
      <3> QED BY <2>2, <3>1, <3>2 DEF SettledFor
    <2> QED BY <2>1, <2>2 DEF AcknowledgedChargeIsSettled, Acknowledged, SettledFor
  <1>8. FailedReported'
    <2>1. ASSUME NEW r \in Rows, payments'[r].status = "failed"
          PROVE  FailedIn(log', payments'[r].txn)
      <3>1. FailureReported(payments[r].txn)
        BY <1>0, <2>1 DEF SerialInv, FailedReported
      <3> QED BY <1>0, <3>1 DEF FailureReported, Acknowledged, FailedIn
    <2> QED BY <2>1 DEF FailedReported, FailureReported, Acknowledged, FailedIn
  <1>6. Covered' = Covered
    BY <1>0 DEF Covered, Covers
  <1>7. IsFiniteSet(Covered)' /\ books'.count >= Opening + Cardinality(Covered)'
    <2>1. IsFiniteSet(Covered') /\ Cardinality(Covered') = Cardinality(Covered)
      BY <1>6 DEF SerialInv
    <2>2. IsFiniteSet(Covered)' /\ Cardinality(Covered)' = Cardinality(Covered)
      BY <2>1
    <2> QED BY <1>0, <2>2 DEF SerialInv
  <1> QED BY <1>2, <1>4, <1>5, <1>7, <1>8 DEF SerialInv

\* A step that writes one payment, after which the only request is idle.
LEMMA WriteSerial ==
    ASSUME SerialInv, TypeOK', NEW r \in Rows, NEW p \in Payment,
           payments' = [payments EXCEPT ![r] = p],
           payments[r].status # "absent" =>
             (p.txn = payments[r].txn /\ p.status # "absent"
                /\ (payments[r].status \notin Open => p.status \notin Open)),
           p.status \in Open => (p.sponsored <=> p.txn \in Linked),
           p.status = "failed" => FailedIn(log', p.txn),
           NEW e, log \subseteq log', \A x \in log' : x \in log \/ x = e,
           (e.kind = "Paid" /\ e.ok = TRUE) =>
             (SettledFor(e.inv) \/ (p.txn = e.inv /\ p.status \notin Open \cup {"absent"})),
           \A s \in Slots : reqs'[s] = Idle,
           \/ books'.count >= books.count + 1
           \/ books'.count >= books.count /\ (~Covers(p) \/ Covers(payments[r]))
           \/ books.count > 0 /\ books'.count >= books.count - 1 /\ ~Covers(p) /\ Covers(payments[r])
    PROVE  SerialInv'
  <1>0. payments \in [Rows -> Payment] /\ books.count \in Nat /\ books'.count \in Nat /\ TypeOK
    BY DEF SerialInv, TypeOK, Books
  <1>1. \A s \in Slots : Alone(reqs[s])'
    <2>1. Alone(Idle)'
      BY DEF Alone, Idle
    <2> QED BY <2>1 DEF Alone
  <1>2. OpenLinked'
    BY <1>0 DEF SerialInv, OpenLinked
  <1>3. AcknowledgedChargeIsSettled'
    <2>1. ASSUME NEW inv \in Invoices, [inv |-> inv, kind |-> "Paid", ok |-> TRUE] \in log'
          PROVE  SettledFor(inv)'
      <3>1. CASE [inv |-> inv, kind |-> "Paid", ok |-> TRUE] \in log
        <4>1. SettledFor(inv)
          BY <3>1 DEF SerialInv, AcknowledgedChargeIsSettled, Acknowledged, SettledFor
        <4> QED BY <4>1, <1>0, SettledStays
      <3>2. CASE [inv |-> inv, kind |-> "Paid", ok |-> TRUE] = e
        <4>1. e.kind = "Paid" /\ e.ok = TRUE /\ e.inv = inv
          BY <3>2
        <4> QED BY <4>1, <1>0, SettledStays
      <3> QED BY <2>1, <3>1, <3>2
    <2> QED BY <2>1 DEF AcknowledgedChargeIsSettled, Acknowledged, SettledFor
  <1>5. FailedReported'
    <2>1. ASSUME NEW q \in Rows, payments'[q].status = "failed"
          PROVE  FailedIn(log', payments'[q].txn)
      <3>1. CASE q = r
        BY <1>0, <2>1, <3>1
      <3>2. CASE q # r
        <4>1. payments'[q] = payments[q]
          BY <1>0, <3>2
        <4>2. FailureReported(payments[q].txn)
          BY <2>1, <4>1 DEF SerialInv, FailedReported
        <4> QED BY <4>1, <4>2 DEF FailureReported, Acknowledged, FailedIn
      <3> QED BY <3>1, <3>2
    <2> QED BY <2>1 DEF FailedReported, FailureReported, Acknowledged, FailedIn
  <1>4. IsFiniteSet(Covered)' /\ books'.count >= Opening + Cardinality(Covered)'
    <2>1. IsFiniteSet(Covered) /\ books.count >= Opening + Cardinality(Covered) /\ Opening \in Nat
      BY LedgerAssumption DEF SerialInv
    <2>2. /\ IsFiniteSet(Covered)' /\ Cardinality(Covered) \in Nat /\ Cardinality(Covered)' \in Nat
          /\ Cardinality(Covered)' <= Cardinality(Covered) + 1
          /\ (~Covers(p) \/ Covers(payments[r])) => Cardinality(Covered)' <= Cardinality(Covered)
          /\ (~Covers(p) /\ Covers(payments[r])) => Cardinality(Covered)' = Cardinality(Covered) - 1
      BY <1>0, <2>1, CoverStep
    <2> QED BY <1>0, <2>1, <2>2
  <1> QED BY <1>1, <1>2, <1>3, <1>4, <1>5 DEF SerialInv

\* A report received, looked up or made ready for the reversal writes nothing:
\* what is read is so.
LEMMA ReadSerial ==
    ASSUME SerialInv, TypeOK', NEW s \in Slots, Slots = {s},
           \/ \E ev \in Event : Receive(s, ev)
           \/ LookUpPayment(s) \/ ReadForReversal(s)
    PROVE  SerialInv'
  <1> DEFINE req == reqs[s]
             none == [inv |-> NoInvoice, kind |-> "none", ok |-> FALSE]
  <1>0. req \in Request /\ Alone(req) /\ reqs \in [Slots -> Request]
    BY DEF SerialInv, TypeOK
  <1>1. none.kind # "Paid"
    OBVIOUS
  <1>i. Alone(Idle)
    BY DEF Alone, Idle
  <1> HIDE DEF none
  <1>2. UNCHANGED <<payments, books>>
    BY DEF Receive, LookUpPayment, ReadForReversal
  <1>3. ASSUME NEW q, Goto(s, q), Alone(q), UNCHANGED log
        PROVE  SerialInv'
    <2>1. \A t \in Slots : Alone(reqs'[t])
      BY <1>0, <1>3 DEF Goto
    <2> QED BY <1>1, <1>2, <1>3, <2>1, QuietSerial
  <1>4. ASSUME NEW ev, NEW ok, Answer(s, ev, ok), (ev.kind = "Paid" /\ ok = TRUE) => SettledFor(ev.inv)
        PROVE  SerialInv'
    <2> DEFINE e == [inv |-> ev.inv, kind |-> ev.kind, ok |-> ok]
    <2>1. \A t \in Slots : Alone(reqs'[t])
      BY <1>0, <1>4, <1>i DEF Answer, Goto
    <2>2. log \subseteq log' /\ \A x \in log' : x \in log \/ x = e
      BY <1>4 DEF Answer
    <2>3. (e.kind = "Paid" /\ e.ok = TRUE) => SettledFor(e.inv)
      BY <1>4
    <2> HIDE DEF e
    <2> QED BY <1>2, <2>1, <2>2, <2>3, QuietSerial
  <1>5. ASSUME NEW ev \in Event, Receive(s, ev)
        PROVE  SerialInv'
    <2>1. CASE ReceivePayment(s, ev)
      <3> DEFINE q == [pc |-> "sponsorshipRead", ev |-> ev, snap |-> books]
      <3>1. Goto(s, q) /\ UNCHANGED log
        BY <2>1 DEF ReceivePayment
      <3>2. Alone(q)
        BY DEF Alone
      <3> QED BY <3>1, <3>2, <1>3
    <2>2. CASE ReceiveRefund(s, ev)
      <3>1. ev.kind # "Paid"
        BY <2>2 DEF ReceiveRefund, RefundKinds
      <3>2. CASE \E ok \in BOOLEAN : Answer(s, ev, ok)
        BY <3>1, <3>2, <1>4
      <3>3. ASSUME NEW r \in RowsOf(ev.inv), UNCHANGED log,
                   Goto(s, [pc |-> "refundRead", ev |-> ev, row |-> r, seen |-> payments[r].status])
            PROVE  SerialInv'
        <4> DEFINE q == [pc |-> "refundRead", ev |-> ev, row |-> r, seen |-> payments[r].status]
        <4>1. Alone(q)
          BY DEF Alone
        <4> QED BY <3>3, <4>1, <1>3
      <3> QED BY <2>2, <3>2, <3>3 DEF ReceiveRefund
    <2> QED BY <1>5, <2>1, <2>2 DEF Receive
  <1>6. CASE LookUpPayment(s)
    <2>1. req.pc = "sponsorshipRead" /\ req.ev \in PaymentEvent /\ req.snap = books
      BY <1>0, <1>6, RequestFields DEF LookUpPayment, Alone
    <2>2. CASE RowsOf(req.ev.inv) = {} /\ Goto(s, [req EXCEPT !.pc = "inserting"]) /\ UNCHANGED log
      <3> DEFINE q == [req EXCEPT !.pc = "inserting"]
      <3>1. q.pc = "inserting" /\ q.snap = books /\ q.ev = req.ev
        BY <1>0, <2>1 DEF Request, Idle
      <3>2. Alone(q)
        BY <2>2, <3>1 DEF Alone
      <3> QED BY <2>2, <3>2, <1>3
    <2>3. ASSUME NEW r \in RowsOf(req.ev.inv), AwaitsOutcome(payments[r]), UNCHANGED log,
                 Goto(s, [pc |-> "flipping", ev |-> req.ev, snap |-> req.snap,
                          row |-> r, seen |-> payments[r].status])
          PROVE  SerialInv'
      <3> DEFINE q == [pc |-> "flipping", ev |-> req.ev, snap |-> req.snap,
                       row |-> r, seen |-> payments[r].status]
      <3>1. Alone(q)
        BY <2>1, <2>3 DEF Alone
      <3> QED BY <2>3, <3>1, <1>3
    <2>4. ASSUME NEW r \in RowsOf(req.ev.inv), ~AwaitsOutcome(payments[r]), Answer(s, req.ev, TRUE)
          PROVE  SerialInv'
      <3>1. SettledFor(req.ev.inv)
        <4>1. /\ payments[r] \in Payment /\ payments[r].status \notin Open \cup {"absent"}
              /\ payments[r].txn = req.ev.inv
          BY <2>4 DEF SerialInv, TypeOK, AwaitsOutcome, RowsOf
        <4>2. CASE payments[r].status = "failed"
          BY <2>4, <4>1, <4>2 DEF SerialInv, FailedReported, SettledFor, RowsOf
        <4>3. CASE payments[r].status # "failed"
          <5>1. payments[r].status \in Taken
            BY <4>1, <4>3, StatusKinds
          <5> QED BY <2>4, <5>1 DEF SettledFor, TakenOn
        <4> QED BY <4>2, <4>3
      <3> QED BY <2>4, <3>1, <1>4
    <2> QED BY <1>6, <2>2, <2>3, <2>4 DEF LookUpPayment
  <1>7. CASE ReadForReversal(s)
    <2> DEFINE q == [pc |-> "reversing", ev |-> req.ev, row |-> req.row, snap |-> books]
    <2>1. Goto(s, q) /\ UNCHANGED log
      BY <1>7 DEF ReadForReversal
    <2>2. Alone(q)
      BY <1>0, <1>7 DEF ReadForReversal, ReversesTotals, Alone
    <2> QED BY <2>1, <2>2, <1>3
  <1> QED BY <1>5, <1>6, <1>7

\* The webhook's commits.
LEMMA CommitSerial ==
    ASSUME SerialInv, TypeOK', NEW s \in Slots, Slots = {s},
           FlipPayment(s) \/ InsertPayment(s) \/ ReverseAndRefund(s) \/ RecordRefund(s)
    PROVE  SerialInv'
  <1> DEFINE req == reqs[s]
  <1>0. /\ req \in Request /\ Alone(req) /\ reqs \in [Slots -> Request]
        /\ payments \in [Rows -> Payment] /\ payments' \in [Rows -> Payment]
        /\ books \in Books /\ OpenLinked
    BY DEF SerialInv, TypeOK
  <1>1. ASSUME NEW ev, Answer(s, ev, TRUE)
        PROVE  /\ \A t \in Slots : reqs'[t] = Idle
               /\ log \subseteq log'
               /\ \A x \in log' : x \in log \/ x = [inv |-> ev.inv, kind |-> ev.kind, ok |-> TRUE]
               /\ ev.kind \in {"Failed", "RefundFailed"} => FailedIn(log', ev.inv)
    <2>1. [inv |-> ev.inv, kind |-> ev.kind, ok |-> TRUE] \in log'
      BY <1>1 DEF Answer
    <2>2. ev.kind \in {"Failed", "RefundFailed"} => FailedIn(log', ev.inv)
      BY <2>1 DEF FailedIn
    <2> QED BY <1>0, <1>1, <2>2 DEF Answer, Goto
  <1>2. CASE FlipPayment(s)
    <2> DEFINE r == req.row
    <2>1. req.ev \in PaymentEvent /\ r \in Rows /\ req.seen \in Open /\ req.snap = books
          /\ payments[r].status = req.seen /\ payments[r].txn = req.ev.inv
      BY <1>0, <1>2, RequestFields DEF FlipPayment, Alone, RowsOf
    <2> DEFINE p == Flipped(req)
               e == [inv |-> req.ev.inv, kind |-> req.ev.kind, ok |-> TRUE]
    <2>2. /\ payments' = [payments EXCEPT ![r] = p]
          /\ books' = IF Credits(req.ev) THEN CreditedAndActivated(req.snap) ELSE books
          /\ Answer(s, req.ev, TRUE)
      BY <1>2 DEF FlipPayment
    <2>3. p.txn = payments[r].txn /\ p.sponsored = payments[r].sponsored
          /\ p.status = OurStatus[req.ev.kind]
      BY <1>0, <2>1 DEF Flipped, Payment
    <2>4. p \in Payment /\ p.status # "absent"
      <3>1. OurStatus[req.ev.kind] # "absent"
        BY <2>1 DEF PaymentEvent, PaymentKinds, OurStatus
      <3>2. payments'[r] = p
        BY <1>0, <2>1, <2>2
      <3> QED BY <1>0, <2>1, <2>3, <3>1, <3>2
    <2>5. p.sponsored <=> p.txn \in Linked
      BY <1>0, <2>1, <2>3 DEF OpenLinked
    <2>6. e.kind = "Paid" => p.status = "completed"
      BY <2>3 DEF OurStatus
    <2>7. Covers(p) => Credits(req.ev)
      <3>1. p.status = "completed" => req.ev.kind = "Paid"
        BY <2>1, <2>3, MappedStatus DEF PaymentEvent
      <3> QED BY <2>1, <2>3, <2>5, <3>1 DEF Covers, Credits
    <2>8. books'.count >= books.count + (IF Credits(req.ev) THEN 1 ELSE 0)
      BY <1>0, <2>1, <2>2 DEF CreditedAndActivated, Credited, Books
    <2>9. e.inv = req.ev.inv /\ log \subseteq log' /\ \A x \in log' : x \in log \/ x = e
      BY <1>1, <2>2
    <2>16. p.status = "failed" => FailedIn(log', p.txn)
      <3>1. p.status = "failed" => req.ev.kind = "Failed"
        BY <2>1, <2>3, MappedStatus DEF PaymentEvent
      <3>2. p.txn = req.ev.inv
        BY <2>1, <2>3
      <3>3. req.ev.kind = "Failed" => FailedIn(log', req.ev.inv)
        BY <1>1, <2>2
      <3>4. FailedIn(log', req.ev.inv) => FailedIn(log', p.txn)
        BY <3>2
      <3> QED BY <3>1, <3>3, <3>4
    <2>10. \A t \in Slots : reqs'[t] = Idle
      BY <1>1, <2>2
    <2>11. "completed" \notin Open \cup {"absent"}
      BY DEF Open
    <2>12. books.count \in Nat
      BY <1>0 DEF Books
    <2> HIDE DEF p, e, r
    <2>13. payments[r].status # "absent" =>
             (p.txn = payments[r].txn /\ p.status # "absent"
                /\ (payments[r].status \notin Open => p.status \notin Open))
      BY <2>1, <2>3, <2>4
    <2>14. (e.kind = "Paid" /\ e.ok = TRUE) =>
             (SettledFor(e.inv) \/ (p.txn = e.inv /\ p.status \notin Open \cup {"absent"}))
      BY <2>1, <2>3, <2>6, <2>9, <2>11
    <2>15. books'.count >= books.count + 1 \/ (books'.count >= books.count /\ ~Covers(p))
      BY <2>7, <2>8, <2>12
    <2> QED BY <2>1, <2>2, <2>4, <2>5, <2>9, <2>10, <2>13, <2>14, <2>15, <2>16, WriteSerial
  <1>3. CASE InsertPayment(s)
    <2>1. req.ev \in PaymentEvent /\ req.snap = books
      BY <1>0, <1>3, RequestFields DEF InsertPayment, Alone
    <2> DEFINE p == [status |-> OurStatus[req.ev.kind], txn |-> req.ev.inv,
                     sponsored |-> req.ev.inv \in Linked]
               e == [inv |-> req.ev.inv, kind |-> req.ev.kind, ok |-> TRUE]
    <2>2. PICK r \in FreeRows :
             /\ payments' = [payments EXCEPT ![r] = p]
             /\ books' = IF Credits(req.ev) THEN CreditedAndActivated(req.snap) ELSE books
             /\ Answer(s, req.ev, TRUE)
      BY <1>3 DEF InsertPayment
    <2>3. r \in Rows /\ payments[r].status = "absent"
      BY DEF FreeRows
    <2>4. p \in Payment /\ p.status # "absent"
      <3>1. OurStatus[req.ev.kind] # "absent"
        BY <2>1 DEF PaymentEvent, PaymentKinds, OurStatus
      <3>2. payments'[r] = p
        BY <1>0, <2>2, <2>3
      <3> QED BY <1>0, <2>3, <3>1, <3>2
    <2>5. (p.sponsored <=> p.txn \in Linked) /\ p.txn = e.inv /\ (e.kind = "Paid" => p.status = "completed")
      BY <2>1, MappedStatus
    <2>6. Covers(p) => Credits(req.ev)
      BY <2>1, MappedStatus DEF Covers, Credits, PaymentEvent
    <2>7. books'.count >= books.count + (IF Credits(req.ev) THEN 1 ELSE 0)
      BY <1>0, <2>1, <2>2 DEF CreditedAndActivated, Credited, Books
    <2>8. log \subseteq log' /\ \A x \in log' : x \in log \/ x = e
      BY <1>1, <2>2
    <2>12. p.status = "failed" => FailedIn(log', p.txn)
      <3>1. p.status = "failed" => req.ev.kind = "Failed"
        BY <2>1, MappedStatus DEF PaymentEvent
      <3>2. req.ev.kind = "Failed" => FailedIn(log', req.ev.inv)
        BY <1>1, <2>2
      <3> QED BY <3>1, <3>2
    <2>9. \A t \in Slots : reqs'[t] = Idle
      BY <1>1, <2>2
    <2>10. "completed" \notin Open \cup {"absent"} /\ books.count \in Nat
      BY <1>0 DEF Open, Books
    <2> HIDE DEF p, e
    <2>11. books'.count >= books.count + 1 \/ (books'.count >= books.count /\ ~Covers(p))
      BY <2>6, <2>7, <2>10
    <2> QED BY <2>2, <2>3, <2>4, <2>5, <2>8, <2>9, <2>10, <2>11, <2>12, WriteSerial, ZenonT(30)
  <1>4. ASSUME NEW st, st \notin Open \cup {"completed", "absent"},
               req.pc \in {"refundRead", "reversing"}, WriteRefund(s, st),
               st = "failed" => req.ev.kind = "RefundFailed",
               \/ books'.count >= books.count
               \/ books.count > 0 /\ books'.count >= books.count - 1 /\ Covers(payments[req.row])
        PROVE  SerialInv'
    <2> DEFINE r == req.row
               p == [payments[r] EXCEPT !.status = st]
               e == [inv |-> req.ev.inv, kind |-> req.ev.kind, ok |-> TRUE]
    <2>1. req.ev \in RefundEvent /\ r \in Rows
      BY <1>0, <1>4, RequestFields
    <2>2. payments' = [payments EXCEPT ![r] = p] /\ Answer(s, req.ev, TRUE)
      BY <1>0, <1>4, <2>1 DEF WriteRefund
    <2>4. p \in Payment /\ p.status = st /\ p.txn = payments[r].txn
      <3>1. payments'[r] = p
        BY <1>0, <2>1, <2>2
      <3> QED BY <1>0, <2>1, <3>1 DEF Payment
    <2>5. e.kind # "Paid"
      BY <2>1 DEF RefundEvent, RefundKinds
    <2>6. /\ log \subseteq log' /\ \A x \in log' : x \in log \/ x = e
          /\ \A t \in Slots : reqs'[t] = Idle
      BY <1>1, <2>2
    <2>10. p.status = "failed" => FailedIn(log', p.txn)
      <3>1. p.txn = req.ev.inv
        BY <1>0, <1>4, <2>4 DEF Alone, RowsOf
      <3>2. p.status = "failed" => FailedIn(log', req.ev.inv)
        BY <1>1, <1>4, <2>2, <2>4
      <3> QED BY <3>1, <3>2
    <2>7. ~Covers(p)
      BY <1>4, <2>4 DEF Covers
    <2>8. \/ books'.count >= books.count /\ (~Covers(p) \/ Covers(payments[r]))
          \/ books.count > 0 /\ books'.count >= books.count - 1 /\ ~Covers(p) /\ Covers(payments[r])
      BY <1>4, <2>7
    <2>9. /\ p.status \notin Open /\ p.status # "absent" /\ p.txn = payments[r].txn
      BY <1>4, <2>4
    <2> HIDE DEF p, e, r
    <2> QED BY <2>1, <2>2, <2>4, <2>5, <2>6, <2>8, <2>9, <2>10, WriteSerial
  <1>5. CASE ReverseAndRefund(s)
    <2>1. /\ req.pc = "reversing" /\ req.snap = books /\ Covers(payments[req.row]) /\ req.row \in Rows
      BY <1>0, <1>5, RequestFields DEF ReverseAndRefund, Alone, Covers
    <2>2. books.count > 0
      <3>1. req.row \in Covered
        BY <2>1 DEF Covered
      <3>2. Cardinality(Covered) # 0 /\ Cardinality(Covered) \in Nat
        BY <3>1, FS_EmptySet, FS_CardinalityType DEF SerialInv
      <3>3. books.count >= Opening + Cardinality(Covered) /\ Opening \in Nat
        BY LedgerAssumption DEF SerialInv
      <3> QED BY <1>0, <3>2, <3>3 DEF Books
    <2>3. books'.count >= books.count - 1
      BY <1>0, <1>5, <2>1, <2>2 DEF ReverseAndRefund, Reversed, Books
    <2>4. "refunded" \notin Open \cup {"completed", "absent"} /\ WriteRefund(s, "refunded")
      BY <1>5 DEF ReverseAndRefund, Open
    <2> QED BY <1>4, <2>1, <2>2, <2>3, <2>4
  <1>6. CASE RecordRefund(s)
    <2>1. /\ req.pc = "refundRead" /\ payments[req.row].status = req.seen
          /\ req.ev \in RefundEvent /\ req.row \in Rows /\ UNCHANGED books
      BY <1>0, <1>6, RequestFields DEF RecordRefund, Alone
    <2>2. RefundStatus[req.ev.kind] \notin Open \cup {"completed", "absent"}
      BY <2>1 DEF RefundEvent, RefundKinds, RefundStatus, Open
    <2>3. books'.count >= books.count
      BY <1>0, <2>1 DEF Books
    <2>4. WriteRefund(s, RefundStatus[req.ev.kind])
      BY <1>6, <2>1 DEF RecordRefund
    <2>5. RefundStatus[req.ev.kind] = "failed" => req.ev.kind = "RefundFailed"
      BY <2>1 DEF RefundEvent, RefundKinds, RefundStatus
    <2> QED BY <1>4, <2>1, <2>2, <2>3, <2>4, <2>5
  <1> QED BY <1>2, <1>3, <1>5, <1>6

\* Checkout, staff and crashes.
LEMMA StaffSerial ==
    ASSUME SerialInv, TypeOK', NEW s \in Slots, Slots = {s}, OverridesSettle,
           \/ Checkout(s) \/ StaffStep(s) \/ Crash(s)
           \/ \E sponsored \in BOOLEAN : Initiate(s, sponsored)
           \/ \E txn \in ManualRefs \cup {NoInvoice}, sponsored \in BOOLEAN :
                StartManual(s, txn, sponsored)
           \/ \E r \in Rows, full \in BOOLEAN : StartRefund(s, r, full)
           \/ \E r \in Rows, status \in Overrides : Override(s, r, status)
    PROVE  SerialInv'
  <1> DEFINE req == reqs[s]
             none == [inv |-> NoInvoice, kind |-> "none", ok |-> FALSE]
  <1>0. /\ req \in Request /\ Alone(req) /\ reqs \in [Slots -> Request]
        /\ payments \in [Rows -> Payment] /\ payments' \in [Rows -> Payment]
        /\ books \in Books /\ books.count \in Nat /\ OpenLinked
    BY DEF SerialInv, TypeOK, Books
  <1>1. none.kind # "Paid"
    OBVIOUS
  <1>i. Alone(Idle)
    BY DEF Alone, Idle
  <1> HIDE DEF none
  <1>2. ASSUME NEW q, Goto(s, q), Alone(q), UNCHANGED <<payments, books, log>>
        PROVE  SerialInv'
    <2>1. \A t \in Slots : Alone(reqs'[t])
      BY <1>0, <1>2 DEF Goto
    <2> QED BY <1>1, <1>2, <2>1, QuietSerial
  <1>3. ASSUME NEW r \in Rows, NEW p \in Payment, payments' = [payments EXCEPT ![r] = p],
               payments[r].status # "absent" =>
                 (p.txn = payments[r].txn /\ p.status # "absent"
                    /\ (payments[r].status \notin Open => p.status \notin Open)),
               p.status \in Open => (p.sponsored <=> p.txn \in Linked),
               p.status # "failed", UNCHANGED log, \A t \in Slots : reqs'[t] = Idle,
               \/ books'.count >= books.count + 1
               \/ books'.count >= books.count /\ (~Covers(p) \/ Covers(payments[r]))
        PROVE  SerialInv'
    BY <1>1, <1>3, WriteSerial
  <1>4. ASSUME NEW q, Goto(s, q), q = Idle PROVE \A t \in Slots : reqs'[t] = Idle
    BY <1>0, <1>4 DEF Goto
  <1>5. CASE GatewayMints(s)
    <2>1. PICK inv \in Invoices \ minted : Goto(s, [pc |-> "invoiced", inv |-> inv])
      BY <1>5 DEF GatewayMints
    <2>2. Alone([pc |-> "invoiced", inv |-> inv])
      BY DEF Alone
    <2> QED BY <1>2, <1>5, <2>1, <2>2 DEF GatewayMints
  <1>6. CASE GatewayDeclines(s) \/ GatewayRefusesRefund(s) \/ Crash(s)
    BY <1>2, <1>6, <1>i DEF GatewayDeclines, GatewayRefusesRefund, Crash
  <1>7. CASE CommitInitiate(s)
    <2> DEFINE p == [status |-> "pending", txn |-> req.inv, sponsored |-> req.inv \in Linked]
    <2>1. PICK r \in FreeRows : payments' = [payments EXCEPT ![r] = p]
      BY <1>7 DEF CommitInitiate
    <2>2. r \in Rows /\ payments[r].status = "absent"
      BY DEF FreeRows
    <2>3. p \in Payment
      BY <1>0, <2>1, <2>2
    <2>4. ~Covers(p) /\ (p.sponsored <=> p.txn \in Linked) /\ p.status # "failed"
      BY DEF Covers
    <2>5. \A t \in Slots : reqs'[t] = Idle
      BY <1>4, <1>7 DEF CommitInitiate
    <2>6. UNCHANGED log /\ books'.count >= books.count
      BY <1>0, <1>7 DEF CommitInitiate
    <2> HIDE DEF p
    <2> QED BY <1>3, <2>1, <2>2, <2>3, <2>4, <2>5, <2>6
  <1>8. CASE RecordManual(s)
    <2> DEFINE p == [status |-> "completed", txn |-> req.txn, sponsored |-> req.sponsored]
    <2>1. PICK r \in FreeRows : payments' = [payments EXCEPT ![r] = p]
      BY <1>8 DEF RecordManual
    <2>2. r \in Rows /\ payments[r].status = "absent"
      BY DEF FreeRows
    <2>3. p \in Payment /\ p.status \notin Open /\ p.status # "failed"
      BY <1>0, <2>1, <2>2 DEF Open
    <2>4. req.snap = books /\ req.sponsored \in BOOLEAN
      BY <1>0, <1>8, RequestFields DEF RecordManual, Alone
    <2>5. \A t \in Slots : reqs'[t] = Idle
      BY <1>4, <1>8 DEF RecordManual
    <2>6. UNCHANGED log /\ books' = IF req.sponsored THEN Credited(req.snap) ELSE books
      BY <1>8 DEF RecordManual
    <2>7. books'.count >= books.count + 1 \/ (books'.count >= books.count /\ ~Covers(p))
      BY <1>0, <2>4, <2>6 DEF Credited, Books, Covers
    <2> HIDE DEF p
    <2> QED BY <1>3, <2>1, <2>2, <2>3, <2>5, <2>6, <2>7
  <1>9. CASE GatewayRefunds(s)
    <2> DEFINE q == [req EXCEPT !.pc = "refunded"]
    <2>1. q.pc = "refunded"
      BY <1>0, <1>9, RequestFields DEF GatewayRefunds, Request, Idle
    <2>2. Alone(q)
      BY <2>1 DEF Alone
    <2> HIDE DEF q
    <2>3. Goto(s, q) /\ UNCHANGED <<payments, books, log>>
      BY <1>9 DEF GatewayRefunds, q
    <2> QED BY <1>2, <2>2, <2>3
  <1>10. CASE CommitRefund(s)
    <2> DEFINE r == req.row
               st == IF req.full THEN "refunded" ELSE "partially_refunded"
               p == [payments[r] EXCEPT !.status = st]
    <2>1. r \in Rows
      BY <1>0, <1>10, RequestFields DEF CommitRefund
    <2>2. payments' = [payments EXCEPT ![r] = p]
      BY <1>0, <1>10, <2>1 DEF CommitRefund
    <2>3. p \in Payment
      BY <1>0, <2>1, <2>2
    <2>4. /\ p.txn = payments[r].txn /\ p.status \notin Open \cup {"absent", "failed"} /\ ~Covers(p)
      BY <1>0, <2>1 DEF Payment, Open, Covers
    <2>5. \A t \in Slots : reqs'[t] = Idle
      BY <1>4, <1>10 DEF CommitRefund
    <2>6. UNCHANGED log /\ books'.count >= books.count
      BY <1>0, <1>10 DEF CommitRefund
    <2> HIDE DEF p, r
    <2> QED BY <1>3, <2>1, <2>2, <2>3, <2>4, <2>5, <2>6
  <1>11. CASE \E sponsored \in BOOLEAN : Initiate(s, sponsored)
    <2>1. PICK sponsored \in BOOLEAN : Goto(s, [pc |-> "sending", sponsored |-> sponsored])
      BY <1>11 DEF Initiate, Begin
    <2>2. Alone([pc |-> "sending", sponsored |-> sponsored])
      BY DEF Alone
    <2> QED BY <1>2, <1>11, <2>1, <2>2 DEF Initiate
  <1>12. CASE \E txn \in ManualRefs \cup {NoInvoice}, sponsored \in BOOLEAN : StartManual(s, txn, sponsored)
    <2>1. PICK txn \in ManualRefs \cup {NoInvoice}, sponsored \in BOOLEAN :
             Goto(s, [pc |-> "recording", txn |-> txn, sponsored |-> sponsored, snap |-> books])
      BY <1>12 DEF StartManual, Begin
    <2>2. Alone([pc |-> "recording", txn |-> txn, sponsored |-> sponsored, snap |-> books])
      BY DEF Alone
    <2> QED BY <1>2, <1>12, <2>1, <2>2 DEF StartManual
  <1>13. CASE \E r \in Rows, full \in BOOLEAN : StartRefund(s, r, full)
    <2>1. PICK r \in Rows, full \in BOOLEAN : Goto(s, [pc |-> "refunding", row |-> r, full |-> full])
      BY <1>13 DEF StartRefund, Begin
    <2>2. Alone([pc |-> "refunding", row |-> r, full |-> full])
      BY DEF Alone
    <2> QED BY <1>2, <1>13, <2>1, <2>2 DEF StartRefund
  <1>14. CASE \E r \in Rows, status \in Overrides : Override(s, r, status)
    <2>1. PICK r \in Rows, status \in Overrides : Override(s, r, status)
      BY <1>14
    <2> DEFINE p == [payments[r] EXCEPT !.status = status]
    <2>2. payments' = [payments EXCEPT ![r] = p] /\ UNCHANGED <<books, log, reqs>> /\ reqs[s] = Idle
      BY <1>0, <2>1 DEF Override
    <2>3. p \in Payment
      BY <1>0, <2>1, <2>2
    <2>4. status \notin Open \cup {"completed", "failed", "absent"}
      BY <2>1, LedgerAssumption DEF OverridesSettle, Statuses, Open
    <2>5. p.txn = payments[r].txn /\ p.status = status /\ ~Covers(p)
      BY <1>0, <2>4 DEF Payment, Covers
    <2>6. \A t \in Slots : reqs'[t] = Idle
      BY <2>2
    <2>7. books'.count >= books.count
      BY <1>0, <2>2
    <2> HIDE DEF p
    <2> QED BY <1>3, <2>2, <2>3, <2>4, <2>5, <2>6, <2>7
  <1> QED BY <1>5, <1>6, <1>7, <1>8, <1>9, <1>10, <1>11, <1>12, <1>13, <1>14 DEF Checkout, StaffStep

\* At the start nothing is owed.
LEMMA SerialStart == Init => SerialInv
  <1> SUFFICES ASSUME Init PROVE SerialInv
    OBVIOUS
  <1>1. TypeOK
    BY LedgerAssumption DEF Init, TypeOK, Payment, Absent, Books, Request
  <1>2. \A s \in Slots : Alone(reqs[s])
    BY DEF Init, Alone, Idle
  <1>3. OpenLinked /\ FailedReported /\ AcknowledgedChargeIsSettled
    BY DEF Init, OpenLinked, FailedReported, Absent, Open, AcknowledgedChargeIsSettled, Acknowledged
  <1>4. Covered = {}
    BY DEF Init, Covered, Covers, Absent
  <1>5. IsFiniteSet(Covered) /\ Cardinality(Covered) = 0
    BY <1>4, FS_EmptySet
  <1>6. books.count >= Opening + Cardinality(Covered)
    BY <1>5, LedgerAssumption DEF Init
  <1> QED BY <1>1, <1>2, <1>3, <1>5, <1>6 DEF SerialInv

\* One request at a time, every step keeps the invariant.
LEMMA SerialStep ==
    ASSUME SerialInv, TypeOK', [Next]_vars, NEW s, Slots = {s}, OverridesSettle
    PROVE  SerialInv'
  <1>0. s \in Slots
    OBVIOUS
  <1>1. CASE UNCHANGED <<payments, books, reqs, log>>
    <2> DEFINE none == [inv |-> NoInvoice, kind |-> "none", ok |-> FALSE]
    <2>1. none.kind # "Paid"
      OBVIOUS
    <2>2. /\ UNCHANGED <<payments, books>> /\ log \subseteq log' /\ \A x \in log' : x \in log \/ x = none
          /\ \A t \in Slots : reqs'[t] = reqs[t] \/ Alone(reqs'[t])
      BY <1>1
    <2> HIDE DEF none
    <2> QED BY <2>1, <2>2, QuietSerial
  <1>2. CASE \E ev \in Event : Deliver(s, ev) \/ Redeliver(s, ev) \/ Replay(s, ev)
    <2>1. \E ev \in Event : Receive(s, ev)
      BY <1>2 DEF Deliver, Redeliver, Replay
    <2> QED BY <1>0, <2>1, ReadSerial
  <1>3. CASE Webhook(s)
    BY <1>0, <1>3, ReadSerial, CommitSerial DEF Webhook
  <1>4. CASE \/ Checkout(s) \/ StaffStep(s) \/ Crash(s)
             \/ \E sponsored \in BOOLEAN : Initiate(s, sponsored)
             \/ \E txn \in ManualRefs \cup {NoInvoice}, sponsored \in BOOLEAN :
                  StartManual(s, txn, sponsored)
             \/ \E r \in Rows, full \in BOOLEAN : StartRefund(s, r, full)
             \/ \E r \in Rows, status \in Overrides : Override(s, r, status)
    BY <1>0, <1>4, StaffSerial
  <1>5. (\E inv \in Invoices, kind \in Kinds : GatewayReports(inv, kind)) => UNCHANGED <<payments, books, reqs, log>>
    BY DEF GatewayReports
  <1>6. UNCHANGED vars => UNCHANGED <<payments, books, reqs, log>>
    BY DEF vars
  <1> QED BY <1>1, <1>2, <1>3, <1>4, <1>5, <1>6 DEF Next

\* With one request at a time, in any order of reports, with crashes, replays
\* and staff at work, as long as ops neither reopen nor complete a payment by
\* hand, nor mark one failed, the books cover every completed payment of the sponsorship.
THEOREM BooksCover ==
    ASSUME NEW s, Slots = {s}, OverridesSettle
    PROVE  Spec => []BooksCoverCompleted
  <1>1. SerialInv /\ TypeOK' /\ [Next]_vars => SerialInv'
    BY SerialStep
  <1>2. SerialInv => BooksCoverCompleted
    BY DEF SerialInv, BooksCoverCompleted, Covered, Covers
  <1> QED BY <1>1, <1>2, SerialStart, TypeCorrect, PTL DEF Spec

\* On the same terms, a charge answered with a 200 is on a row that says the money
\* was taken, and stays so, unless a failure was reported of its invoice too: the
\* gateway will not report it again.
THEOREM AcknowledgedSettled ==
    ASSUME NEW s, Slots = {s}, OverridesSettle
    PROVE  Spec => []AcknowledgedChargeIsSettled
  <1>1. SerialInv /\ TypeOK' /\ [Next]_vars => SerialInv'
    BY SerialStep
  <1>2. SerialInv => AcknowledgedChargeIsSettled
    BY DEF SerialInv
  <1> QED BY <1>1, <1>2, SerialStart, TypeCorrect, PTL DEF Spec

-----------------------------------------------------------------------------
(* Receipts.  With one request at a time an invoice minted elsewhere has   *)
(* one row as well, so that the row a delivery flips is the only one there *)
(* is for its invoice.                                                     *)

LegacyInv ==
    /\ Legacy \subseteq minted
    /\ \A t \in Slots : reqs[t].pc = "invoiced" => reqs[t].inv \notin Legacy
    /\ \A inv \in Legacy : \A r1, r2 \in RowsOf(inv) : r1 = r2

\* Only a checkout that got an invoice holds one.
LEMMA InvoicedStep ==
    ASSUME TypeOK, LegacyInv, NEW s \in Slots, Slots = {s}, [Next]_vars
    PROVE  Legacy \subseteq minted' /\ \A t \in Slots : reqs'[t].pc = "invoiced" => reqs'[t].inv \notin Legacy
  <1>0. reqs \in [Slots -> Request]
    BY DEF TypeOK
  <1>1. CASE GatewayMints(s)
    <2>1. PICK inv \in Invoices \ minted :
             minted' = minted \cup {inv} /\ Goto(s, [pc |-> "invoiced", inv |-> inv])
      BY <1>1 DEF GatewayMints
    <2>2. reqs'[s].inv = inv /\ inv \notin Legacy
      BY <1>0, <2>1 DEF Goto, LegacyInv
    <2> QED BY <2>1, <2>2 DEF LegacyInv
  <1>2. ASSUME UNCHANGED minted,
               \/ UNCHANGED reqs
               \/ \E q : Goto(s, q) /\ q.pc # "invoiced"
        PROVE  Legacy \subseteq minted' /\ \A t \in Slots : reqs'[t].pc = "invoiced" => reqs'[t].inv \notin Legacy
    <2>1. CASE UNCHANGED reqs
      BY <1>2, <2>1 DEF LegacyInv
    <2>2. ASSUME NEW q, Goto(s, q), q.pc # "invoiced"
          PROVE  reqs'[s].pc # "invoiced"
      BY <1>0, <2>2 DEF Goto
    <2> QED BY <1>2, <2>1, <2>2 DEF LegacyInv
  <1>i. Idle.pc # "invoiced"
    BY DEF Idle
  <1>3. CASE \E ev \in Event : Deliver(s, ev) \/ Redeliver(s, ev) \/ Replay(s, ev)
    <2>1. PICK ev \in Event : Receive(s, ev)
      BY <1>3 DEF Deliver, Redeliver, Replay
    <2>2. \E q : Goto(s, q) /\ q.pc # "invoiced"
      <3>1. CASE ReceivePayment(s, ev)
        BY <3>1 DEF ReceivePayment
      <3>2. CASE ReceiveRefund(s, ev)
        <4>1. CASE \E ok \in BOOLEAN : Answer(s, ev, ok)
          BY <4>1, <1>i DEF Answer
        <4>2. ASSUME NEW r, Goto(s, [pc |-> "refundRead", ev |-> ev, row |-> r, seen |-> payments[r].status])
              PROVE  \E q : Goto(s, q) /\ q.pc # "invoiced"
          BY <4>2
        <4> QED BY <3>2, <4>1, <4>2 DEF ReceiveRefund
      <3> QED BY <2>1, <3>1, <3>2 DEF Receive
    <2> QED BY <1>2, <2>1, <2>2 DEF Receive
  <1>4. CASE LookUpPayment(s)
    <2> DEFINE req == reqs[s]
    <2>1. CASE Goto(s, [req EXCEPT !.pc = "inserting"])
      <3>1. [req EXCEPT !.pc = "inserting"].pc = "inserting"
        BY <1>0, <1>4, RequestFields DEF LookUpPayment, Request, Idle
      <3> QED BY <1>2, <1>4, <2>1, <3>1 DEF LookUpPayment
    <2>2. ASSUME NEW r, Goto(s, [pc |-> "flipping", ev |-> req.ev, snap |-> req.snap,
                                 row |-> r, seen |-> payments[r].status])
          PROVE  \E q : Goto(s, q) /\ q.pc # "invoiced"
      BY <2>2
    <2>3. CASE Answer(s, req.ev, TRUE)
      BY <1>2, <1>4, <1>i, <2>3 DEF LookUpPayment, Answer
    <2> QED BY <1>2, <1>4, <2>1, <2>2, <2>3 DEF LookUpPayment
  <1>5. CASE ReadForReversal(s)
    <2>1. \E q : Goto(s, q) /\ q.pc # "invoiced"
      BY <1>5 DEF ReadForReversal
    <2> QED BY <1>2, <1>5, <2>1 DEF ReadForReversal
  <1>6. CASE \/ FlipPayment(s) \/ InsertPayment(s) \/ ReverseAndRefund(s) \/ RecordRefund(s)
             \/ GatewayDeclines(s) \/ CommitInitiate(s)
             \/ RecordManual(s) \/ GatewayRefusesRefund(s) \/ CommitRefund(s) \/ Crash(s)
    <2>1. Goto(s, Idle) /\ UNCHANGED minted
      BY <1>6 DEF FlipPayment, InsertPayment, ReverseAndRefund, RecordRefund, WriteRefund, Answer,
                  GatewayDeclines, CommitInitiate, RecordManual, GatewayRefusesRefund, CommitRefund, Crash
    <2> QED BY <1>2, <1>i, <2>1
  <1>7. CASE GatewayRefunds(s)
    <2> DEFINE q == [reqs[s] EXCEPT !.pc = "refunded"]
    <2>1. q.pc = "refunded"
      BY <1>0, <1>7, RequestFields DEF GatewayRefunds, Request, Idle
    <2>2. Goto(s, q) /\ UNCHANGED minted
      BY <1>7 DEF GatewayRefunds
    <2> HIDE DEF q
    <2> QED BY <1>2, <2>1, <2>2
  <1>8. CASE \/ \E sponsored \in BOOLEAN : Initiate(s, sponsored)
             \/ \E txn \in ManualRefs \cup {NoInvoice}, sponsored \in BOOLEAN : StartManual(s, txn, sponsored)
             \/ \E r \in Rows, full \in BOOLEAN : StartRefund(s, r, full)
    <2>1. ASSUME NEW op, NEW q, Begin(s, op, q), q.pc # "invoiced", UNCHANGED minted
          PROVE  UNCHANGED minted /\ \E p : Goto(s, p) /\ p.pc # "invoiced"
      BY <2>1 DEF Begin
    <2>2. CASE \E sponsored \in BOOLEAN : Initiate(s, sponsored)
      BY <1>2, <2>1, <2>2 DEF Initiate
    <2>3. CASE \E txn \in ManualRefs \cup {NoInvoice}, sponsored \in BOOLEAN : StartManual(s, txn, sponsored)
      BY <1>2, <2>1, <2>3 DEF StartManual
    <2>4. CASE \E r \in Rows, full \in BOOLEAN : StartRefund(s, r, full)
      BY <1>2, <2>1, <2>4 DEF StartRefund
    <2> QED BY <1>8, <2>2, <2>3, <2>4
  <1>9. CASE \/ \E r \in Rows, status \in Overrides : Override(s, r, status)
             \/ \E inv \in Invoices, kind \in Kinds : GatewayReports(inv, kind)
             \/ UNCHANGED vars
    BY <1>2, <1>9 DEF Override, GatewayReports, vars
  <1> QED BY <1>1, <1>3, <1>4, <1>5, <1>6, <1>7, <1>8, <1>9 DEF Next, Webhook, Checkout, StaffStep

\* The rows of an invoice minted elsewhere: one is inserted when there is none.
LEMMA LegacyRows ==
    ASSUME IssueInv, SerialInv, LegacyInv, TypeOK', NEW s \in Slots, Slots = {s}, ManualRefs = {},
           [Next]_vars, NEW inv \in Legacy
    PROVE  \A r1, r2 \in RowsOf(inv)' : r1 = r2
  <1> DEFINE req == reqs[s]
  <1>0. /\ TypeOK /\ AbsentBare /\ req \in Request /\ payments' \in [Rows -> Payment]
        /\ inv \in Invoices /\ inv # NoInvoice /\ Alone(req) /\ payments \in [Rows -> Payment]
    BY LedgerAssumption DEF IssueInv, TypeOK, SerialInv
  <1>1. ASSUME RowsOf(inv)' = RowsOf(inv) PROVE \A r1, r2 \in RowsOf(inv)' : r1 = r2
    BY <1>1 DEF LegacyInv
  <1>2. CASE UNCHANGED payments
    BY <1>1, <1>2 DEF RowsOf
  <1>3. ASSUME NEW r \in Rows, NEW p, p.txn = payments[r].txn,
               payments[r].status # "absent" => p.status # "absent", payments' = [payments EXCEPT ![r] = p]
        PROVE  RowsOf(inv)' = RowsOf(inv)
    <2>1. p \in Payment
      BY <1>0, <1>3
    <2> QED BY <1>0, <1>3, <2>1, RowRewritten
  <1>4. ASSUME NEW r \in FreeRows, NEW p, p.status # "absent", payments' = [payments EXCEPT ![r] = p]
        PROVE  RowsOf(inv)' = IF p.txn = inv THEN RowsOf(inv) \cup {r} ELSE RowsOf(inv)
    <2>1. p \in Payment
      BY <1>0, <1>4 DEF FreeRows
    <2> QED BY <1>0, <1>4, <2>1, RowInserted
  <1>5. CASE FlipPayment(s)
    <2> DEFINE p == Flipped(req)
    <2>1. req.row \in Rows /\ req.ev \in PaymentEvent /\ payments' = [payments EXCEPT ![req.row] = p]
      BY <1>0, <1>5, RequestFields DEF FlipPayment
    <2>2. p.txn = payments[req.row].txn /\ (payments[req.row].status # "absent" => p.status # "absent")
      <3>1. OurStatus[req.ev.kind] # "absent"
        BY <2>1 DEF PaymentEvent, PaymentKinds, OurStatus
      <3> QED BY <1>0, <2>1, <3>1 DEF Flipped, Payment
    <2> HIDE DEF p
    <2> QED BY <1>1, <1>3, <2>1, <2>2
  <1>6. CASE InsertPayment(s)
    <2> DEFINE p == [status |-> OurStatus[req.ev.kind], txn |-> req.ev.inv, sponsored |-> req.ev.inv \in Linked]
    <2>1. req.ev \in PaymentEvent /\ RowsOf(req.ev.inv) = {}
      BY <1>0, <1>6, RequestFields DEF InsertPayment, Alone
    <2>2. PICK r \in FreeRows : payments' = [payments EXCEPT ![r] = p]
      BY <1>6 DEF InsertPayment
    <2>3. p.status # "absent" /\ p.txn = req.ev.inv
      BY <2>1 DEF PaymentEvent, PaymentKinds, OurStatus
    <2> HIDE DEF p
    <2>4. RowsOf(inv)' = IF req.ev.inv = inv THEN {r} ELSE RowsOf(inv)
      BY <1>4, <2>1, <2>2, <2>3
    <2> QED BY <1>1, <2>4
  <1>7. CASE CommitInitiate(s)
    <2> DEFINE p == [status |-> "pending", txn |-> req.inv, sponsored |-> req.inv \in Linked]
    <2>1. PICK r \in FreeRows : payments' = [payments EXCEPT ![r] = p]
      BY <1>7 DEF CommitInitiate
    <2>2. p.status # "absent" /\ p.txn # inv
      BY <1>7 DEF CommitInitiate, LegacyInv
    <2> HIDE DEF p
    <2> QED BY <1>1, <1>4, <2>1, <2>2
  <1>8. CASE RecordManual(s)
    <2> DEFINE p == [status |-> "completed", txn |-> req.txn, sponsored |-> req.sponsored]
    <2>1. PICK r \in FreeRows : payments' = [payments EXCEPT ![r] = p]
      BY <1>8 DEF RecordManual
    <2>2. p.status # "absent" /\ p.txn # inv
      BY <1>0, <1>8, RequestFields DEF RecordManual
    <2> HIDE DEF p
    <2> QED BY <1>1, <1>4, <2>1, <2>2
  <1>9. ASSUME NEW r \in Rows, NEW st, st # "absent" \/ st = payments[r].status,
               payments' = [payments EXCEPT ![r].status = st]
        PROVE  \A r1, r2 \in RowsOf(inv)' : r1 = r2
    <2> DEFINE p == [payments[r] EXCEPT !.status = st]
    <2>1. payments' = [payments EXCEPT ![r] = p]
      BY <1>0, <1>9
    <2>2. p.txn = payments[r].txn /\ p.status = st
      BY <1>0 DEF Payment
    <2> HIDE DEF p
    <2> QED BY <1>1, <1>3, <1>9, <2>1, <2>2
  <1>10. CASE ReverseAndRefund(s)
    <2>1. req.row \in Rows /\ payments' = [payments EXCEPT ![req.row].status = "refunded"]
      BY <1>0, <1>10, RequestFields DEF ReverseAndRefund, WriteRefund
    <2> QED BY <1>9, <2>1
  <1>11. CASE RecordRefund(s)
    <2> DEFINE st == IF RefundStatus[req.ev.kind] = req.seen
                     THEN payments[req.row].status ELSE RefundStatus[req.ev.kind]
    <2>1. req.row \in Rows /\ req.ev \in RefundEvent /\ payments' = [payments EXCEPT ![req.row].status = st]
      BY <1>0, <1>11, RequestFields DEF RecordRefund, WriteRefund
    <2>2. RefundStatus[req.ev.kind] # "absent"
      BY <2>1 DEF RefundEvent, RefundKinds, RefundStatus
    <2>3. st # "absent" \/ st = payments[req.row].status
      BY <2>2
    <2> HIDE DEF st
    <2> QED BY <1>9, <2>1, <2>3
  <1>12. CASE CommitRefund(s)
    <2>1. /\ req.row \in Rows
          /\ payments' = [payments EXCEPT ![req.row].status =
                            IF req.full THEN "refunded" ELSE "partially_refunded"]
      BY <1>0, <1>12, RequestFields DEF CommitRefund
    <2> QED BY <1>9, <2>1
  <1>13. CASE \E r \in Rows, status \in Overrides : Override(s, r, status)
    <2>1. PICK r \in Rows, status \in Overrides : payments' = [payments EXCEPT ![r].status = status]
      BY <1>13 DEF Override
    <2>2. status # "absent"
      BY LedgerAssumption DEF Statuses, Open
    <2> QED BY <1>9, <2>1, <2>2
  <1>14. CASE \/ \E ev \in Event : Deliver(s, ev) \/ Redeliver(s, ev) \/ Replay(s, ev)
              \/ LookUpPayment(s) \/ ReadForReversal(s) \/ GatewayMints(s) \/ GatewayDeclines(s)
              \/ GatewayRefunds(s) \/ GatewayRefusesRefund(s) \/ Crash(s)
              \/ \E sponsored \in BOOLEAN : Initiate(s, sponsored)
              \/ \E txn \in ManualRefs \cup {NoInvoice}, sponsored \in BOOLEAN : StartManual(s, txn, sponsored)
              \/ \E r \in Rows, full \in BOOLEAN : StartRefund(s, r, full)
              \/ \E i \in Invoices, kind \in Kinds : GatewayReports(i, kind)
              \/ UNCHANGED vars
    <2>1. UNCHANGED payments
      BY <1>14 DEF Deliver, Redeliver, Replay, Receive, LookUpPayment, ReadForReversal, GatewayMints,
                   GatewayDeclines, GatewayRefunds, GatewayRefusesRefund, Crash, Initiate, StartManual,
                   StartRefund, GatewayReports, vars
    <2> QED BY <1>2, <2>1
  <1> QED
    BY <1>5, <1>6, <1>7, <1>8, <1>10, <1>11, <1>12, <1>13, <1>14 DEF Next, Webhook, Checkout, StaffStep

\* A receipt goes out with a row that is still open, or before there is one.
LEMMA ReceiptStep ==
    ASSUME IssueInv, SerialInv, LegacyInv, NEW s \in Slots, Slots = {s}, ManualRefs = {}, [Next]_vars,
           NEW inv \in Invoices, receipts'[inv] > receipts[inv]
    PROVE  \A r \in RowsOf(inv) : payments[r].status # "completed"
  <1> DEFINE req == reqs[s]
  <1>0. req \in Request /\ Alone(req) /\ receipts \in [Invoices -> Nat]
    BY DEF SerialInv, TypeOK
  <1>1. \A i \in Invoices : \A r1, r2 \in RowsOf(i) : r1 = r2
    BY DEF IssueInv, IssuedRows, Issued, LegacyInv
  <1>2. receipts' # receipts
    BY <1>0
  <1>3. /\ FlipPayment(s) \/ InsertPayment(s) \/ Crash(s)
    BY <1>2, ZenonT(30) DEF Next, Webhook, Checkout, StaffStep, Deliver, Redeliver, Replay, Receive, LookUpPayment,
                ReadForReversal, ReverseAndRefund, RecordRefund, WriteRefund, GatewayMints, GatewayDeclines,
                CommitInitiate, RecordManual, GatewayRefunds, GatewayRefusesRefund, CommitRefund, Initiate,
                StartManual, StartRefund, Override, GatewayReports, vars
  <1>4. /\ req.pc \in {"flipping", "inserting"}
        /\ receipts' = [receipts EXCEPT ![req.ev.inv] = @ + 1]
    BY <1>2, <1>3 DEF FlipPayment, InsertPayment, Crash
  <1>5. req.ev.inv \in Invoices
    BY <1>0, <1>4, RequestFields DEF PaymentEvent
  <1>6. inv = req.ev.inv
    BY <1>0, <1>4, <1>5
  <1>7. CASE req.pc = "flipping"
    <2>1. req.row \in RowsOf(inv) /\ payments[req.row].status \in Open
      BY <1>0, <1>6, <1>7, RequestFields DEF Alone
    <2>2. \A r \in RowsOf(inv) : r = req.row
      BY <1>1, <2>1
    <2> QED BY <2>1, <2>2 DEF Open
  <1>8. CASE req.pc = "inserting"
    BY <1>0, <1>6, <1>8 DEF Alone
  <1> QED BY <1>4, <1>7, <1>8

\* With one request at a time, and staff quoting no invoice in what they enter by
\* hand, a receipt goes out with the delivery that completes the payment, never
\* for one completed before, however often reports are repeated.
THEOREM ReceiptWithFlip ==
    ASSUME NEW s, Slots = {s}, OverridesSettle, ManualRefs = {}
    PROVE  Spec => ReceiptOnFlip
  <1>0. s \in Slots
    OBVIOUS
  <1>1. SerialInv /\ TypeOK' /\ [Next]_vars => SerialInv'
    BY SerialStep
  <1>2. Init => LegacyInv
    <2>1. Init => \A inv \in Legacy : RowsOf(inv) = {}
      BY DEF Init, RowsOf, Absent
    <2>2. Init => \A t \in Slots : reqs[t].pc # "invoiced"
      BY DEF Init, Idle
    <2> QED BY <2>1, <2>2 DEF Init, LegacyInv
  <1>3. IssueInv /\ SerialInv /\ LegacyInv /\ TypeOK' /\ [Next]_vars => LegacyInv'
    <2> SUFFICES ASSUME IssueInv, SerialInv, LegacyInv, TypeOK', [Next]_vars PROVE LegacyInv'
      OBVIOUS
    <2>1. Legacy \subseteq minted' /\ \A t \in Slots : reqs'[t].pc = "invoiced" => reqs'[t].inv \notin Legacy
      BY <1>0, InvoicedStep DEF SerialInv
    <2>2. \A inv \in Legacy : \A r1, r2 \in RowsOf(inv)' : r1 = r2
      BY <1>0, LegacyRows
    <2> QED BY <2>1, <2>2 DEF LegacyInv
  <1>4. IssueInv /\ SerialInv /\ LegacyInv /\ [Next]_vars =>
          [\A inv \in Invoices : receipts'[inv] > receipts[inv] =>
              \A r \in RowsOf(inv) : payments[r].status # "completed"]_vars
    BY <1>0, ReceiptStep
  <1>5. IssueInv /\ TypeOK' /\ [Next]_vars => IssueInv'
    BY IssueStep
  <1> QED BY <1>1, <1>2, <1>3, <1>4, <1>5, SerialStart, IssueStart, TypeCorrect, PTL DEF Spec, ReceiptOnFlip
=============================================================================
