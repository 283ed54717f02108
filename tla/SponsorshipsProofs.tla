------------------------- MODULE SponsorshipsProofs -------------------------
(***************************************************************************)
(* For every number of requests, donors, orphans and rows: the type        *)
(* invariant of Sponsorships, and the invariants OnePerPair,               *)
(* PaidBeforeLive and SettledIsNotPending.  For one request at a time and  *)
(* any number of donors, orphans and rows: that it implements Kafala.      *)
(***************************************************************************)
EXTENDS Sponsorships, TLAPS

\* The fields of a request, by what it is doing.
LEMMA RequestFields ==
    ASSUME NEW req \in Request
    PROVE  /\ req.pc \in {"creating", "inserting", "proposing"}
                 => req.donor \in Donors /\ req.orphan \in Orphans
           /\ req.pc \in {"sponsorshipRead", "activating"}
                 => req.row \in Rows /\ req.seen \in Statuses
           /\ req.pc = "changing"
                 => req.row \in Rows /\ req.to \in {"paused", "active", "cancelled"}
           /\ req.pc = "closing" => req.row \in Rows
           /\ req.pc = "editing" => req.row \in Rows /\ req.amount \in Amounts
           /\ req.pc = "deleting" => req.donor \in Donors
BY DEF Request, Idle

\* A slot takes up another request; the table keeps its ids or grows.
LEMMA GotoType ==
    ASSUME TypeOK, NEW s \in Slots, NEW req \in Request, Goto(s, req),
           Ids \subseteq Ids', OnRow(req) => req.row \in Ids'
    PROVE  /\ reqs' \in [Slots -> Request]
           /\ \A t \in Slots : OnRow(reqs'[t]) => reqs'[t].row \in Ids'
BY DEF TypeOK, Goto

\* A worker without a request holds no row.
LEMMA IdleIsRequest == Idle \in Request /\ ~OnRow(Idle)
BY DEF Request, Idle, OnRow

\* A row added to the table.
LEMMA InsertType ==
    ASSUME TypeOK, NEW r, NEW sp \in Sponsorship, Insert(r, sp)
    PROVE  Ids \subseteq Ids' /\ Ids' \subseteq Rows /\ sponsorships' \in [Ids' -> Sponsorship]
BY DEF TypeOK, Insert, Ids

-----------------------------------------------------------------------------
\* The empty table has its types.
LEMMA InitTypeOK == Init => TypeOK
<1> SUFFICES ASSUME Init PROVE TypeOK
  OBVIOUS
<1>1. Ids = {}
  BY DEF Init, Ids
<1>2. sponsorships \in [Ids -> Sponsorship]
  BY <1>1 DEF Init, Ids
<1>3. \A s \in Slots : reqs[s] = Idle
  BY DEF Init
<1>4. reqs \in [Slots -> Request]
  BY IdleIsRequest DEF Init
<1> QED
  BY <1>1, <1>2, <1>3, <1>4, IdleIsRequest DEF Init, TypeOK

\* What a step is made of.
LEMMA Steps ==
    ASSUME [Next]_vars
    PROVE  \/ \E s \in Slots, d \in Donors, o \in Orphans :
                 StartCreate(s, d, o) \/ StartPropose(s, d, o)
           \/ \E s \in Slots, d \in Donors : StartDeleteDonor(s, d)
           \/ \E s \in Slots, r \in Ids : Deliver(s, r) \/ Redeliver(s, r) \/ StartClose(s, r)
           \/ \E s \in Slots, r \in Ids, to \in DOMAIN Accepts : StartChange(s, r, to)
           \/ \E s \in Slots, r \in Ids, amount \in Amounts : StartEdit(s, r, amount)
           \/ \E s \in Slots : CheckExisting(s) \/ CommitCreate(s) \/ CommitPropose(s)
           \/ \E s \in Slots : LookUpPayment(s) \/ Settle(s) \/ CommitClose(s)
           \/ \E s \in Slots : CommitChange(s) \/ CommitEdit(s) \/ CommitDeleteDonor(s)
           \/ \E s \in Slots : IndexRefuses(s) \/ Crash(s)
           \/ \E r \in Rows : GatewayCharges(r) \/ DueDatePasses(r)
           \/ MarkOverdue
           \/ \E d \in Donors : RestoreDonor(d)
           \/ \E o \in Orphans : ApproveOrphan(o) \/ DeleteOrphan(o)
           \/ UNCHANGED vars
BY DEF Next, Webhook, Write

\* Requests that start, and requests that end without writing to the table.
LEMMA StartType ==
    ASSUME TypeOK, NEW s \in Slots,
           \/ \E d \in Donors, o \in Orphans : StartCreate(s, d, o) \/ StartPropose(s, d, o)
           \/ \E d \in Donors : StartDeleteDonor(s, d)
           \/ \E r \in Ids : Deliver(s, r) \/ Redeliver(s, r) \/ StartClose(s, r)
           \/ \E r \in Ids, to \in DOMAIN Accepts : StartChange(s, r, to)
           \/ \E r \in Ids, amount \in Amounts : StartEdit(s, r, amount)
    PROVE  TypeOK' /\ UNCHANGED <<sponsorships, charge, closed>>
           /\ \E req \in Request : Goto(s, req) /\ (OnRow(req) => req.row \in Ids)
<1>1. /\ UNCHANGED <<sponsorships, deleted, orphans, charge, closed>>
      /\ requests' \in Nat
  <2>1. CASE \E d \in Donors, o \in Orphans : StartCreate(s, d, o) \/ StartPropose(s, d, o)
    BY <2>1 DEF TypeOK, StartCreate, StartPropose, Begin
  <2>2. CASE \E d \in Donors : StartDeleteDonor(s, d)
    BY <2>2 DEF TypeOK, StartDeleteDonor, Begin
  <2>3. CASE \E r \in Ids : Deliver(s, r) \/ Redeliver(s, r) \/ StartClose(s, r)
    BY <2>3 DEF TypeOK, Deliver, Redeliver, ReadSponsorship, StartClose, Begin
  <2>4. CASE \E r \in Ids, to \in DOMAIN Accepts : StartChange(s, r, to)
    BY <2>4 DEF TypeOK, StartChange, Begin
  <2>5. CASE \E r \in Ids, amount \in Amounts : StartEdit(s, r, amount)
    BY <2>5 DEF TypeOK, StartEdit, Begin
  <2> QED
    BY <2>1, <2>2, <2>3, <2>4, <2>5
<1>2. \E req \in Request : Goto(s, req) /\ (OnRow(req) => req.row \in Ids)
  <2>1. CASE \E d \in Donors, o \in Orphans : StartCreate(s, d, o) \/ StartPropose(s, d, o)
    BY <2>1 DEF StartCreate, StartPropose, Begin, Request, OnRow
  <2>2. CASE \E d \in Donors : StartDeleteDonor(s, d)
    BY <2>2 DEF StartDeleteDonor, Begin, Request, OnRow
  <2>3. CASE \E r \in Ids : Deliver(s, r) \/ Redeliver(s, r) \/ StartClose(s, r)
    <3>1. PICK r \in Ids : Deliver(s, r) \/ Redeliver(s, r) \/ StartClose(s, r)
      BY <2>3
    <3>5. CASE StartClose(s, r)
      BY <3>1, <3>5 DEF StartClose, Begin, Request, TypeOK
    <3>2. sponsorships[r].status \in Statuses /\ r \in Rows
      BY DEF TypeOK, Sponsorship
    <3> DEFINE req == [pc |-> "sponsorshipRead", row |-> r, seen |-> sponsorships[r].status]
    <3>3. req \in Request
      BY <3>2 DEF Request
    <3>4. Goto(s, req) \/ StartClose(s, r)
      BY <3>1 DEF Deliver, Redeliver, ReadSponsorship
    <3> QED
      BY <3>3, <3>4, <3>5
  <2>4. CASE \E r \in Ids, to \in DOMAIN Accepts : StartChange(s, r, to)
    <3>1. PICK r \in Ids, to \in DOMAIN Accepts : StartChange(s, r, to)
      BY <2>4
    <3>2. to \in {"paused", "active", "cancelled"} /\ r \in Rows
      BY DEF TypeOK, Accepts
    <3> DEFINE req == [pc |-> "changing", row |-> r, to |-> to]
    <3>3. req \in Request
      BY <3>2 DEF Request
    <3>4. Goto(s, req)
      BY <3>1 DEF StartChange, Begin
    <3> QED
      BY <3>3, <3>4
  <2>5. CASE \E r \in Ids, amount \in Amounts : StartEdit(s, r, amount)
    <3>1. PICK r \in Ids, amount \in Amounts : StartEdit(s, r, amount)
      BY <2>5
    <3> DEFINE req == [pc |-> "editing", row |-> r, amount |-> amount]
    <3>2. req \in Request
      BY DEF Request, TypeOK
    <3>3. Goto(s, req)
      BY <3>1 DEF StartEdit, Begin
    <3> QED
      BY <3>2, <3>3
  <2> QED
    BY <2>1, <2>2, <2>3, <2>4, <2>5
<1>3. Ids' = Ids
  BY <1>1 DEF Ids
<1>4. /\ reqs' \in [Slots -> Request]
      /\ \A t \in Slots : OnRow(reqs'[t]) => reqs'[t].row \in Ids'
  BY <1>2, <1>3, GotoType
<1> QED
  BY <1>1, <1>2, <1>3, <1>4 DEF TypeOK, OnRow

\* What happens to the charges between reads and commits: none is settled, and one
\* is dropped only where the payment was closed.
ChargesKept ==
    /\ closed \subseteq closed'
    /\ \A r \in Rows : /\ charge'[r] = "settled" <=> charge[r] = "settled"
                       /\ charge'[r] = "dropped" => charge[r] = "dropped" \/ r \in closed
                       /\ r \notin Ids => charge'[r] = charge[r]

\* The steps between a handler's reads and its commit, and the closing of a payment,
\* leave the table alone.
LEMMA ContinueType ==
    ASSUME TypeOK, NEW s \in Slots,
           \/ CheckExisting(s) \/ LookUpPayment(s) \/ CommitClose(s)
           \/ CommitDeleteDonor(s) \/ IndexRefuses(s) \/ Crash(s)
    PROVE  TypeOK' /\ UNCHANGED sponsorships /\ ChargesKept
<1>1. UNCHANGED <<sponsorships, orphans>> /\ requests' \in Nat
  BY SponsorshipsAssumption DEF TypeOK, CheckExisting, LookUpPayment, CommitClose, CommitDeleteDonor,
     IndexRefuses, Crash
<1>2. reqs[s] \in Request /\ (OnRow(reqs[s]) => reqs[s].row \in Ids)
  BY DEF TypeOK
<1>3. deleted' \subseteq Donors
  BY <1>2, RequestFields DEF TypeOK, CheckExisting, LookUpPayment, CommitClose, CommitDeleteDonor,
     IndexRefuses, Crash
<1>7. /\ charge' \in [Rows -> {"none", "reported", "settled", "dropped"}]
      /\ closed' \subseteq Rows /\ ChargesKept
  <2>0. /\ charge \in [Rows -> {"none", "reported", "settled", "dropped"}]
        /\ closed \subseteq Rows /\ Ids \subseteq Rows
    BY DEF TypeOK
  <2>1. CASE LookUpPayment(s)
    <3>1. PICK r \in Ids : r = reqs[s].row
      BY <1>2, <2>1 DEF LookUpPayment, OnRow
    <3>2. closed' = closed
      BY <2>1 DEF LookUpPayment
    <3>3. CASE UNCHANGED charge
      BY <2>0, <3>2, <3>3 DEF ChargesKept
    <3>4. CASE /\ Duplicate(r)
               /\ charge' = [charge EXCEPT ![r] = IF @ = "settled" THEN @ ELSE "dropped"]
      BY <2>0, <3>2, <3>4 DEF ChargesKept, Duplicate
    <3> QED
      BY <2>1, <3>1, <3>3, <3>4 DEF LookUpPayment
  <2>2. CASE CommitClose(s)
    <3>1. reqs[s].row \in Rows
      BY <1>2, <2>2, RequestFields DEF CommitClose
    <3> QED
      BY <2>0, <2>2, <3>1 DEF CommitClose, ChargesKept
  <2>3. CASE CheckExisting(s) \/ CommitDeleteDonor(s) \/ IndexRefuses(s) \/ Crash(s)
    <3>1. UNCHANGED <<charge, closed>>
      BY <2>3 DEF CheckExisting, CommitDeleteDonor, IndexRefuses, Crash
    <3> QED
      BY <2>0, <3>1 DEF ChargesKept
  <2> QED
    BY <2>1, <2>2, <2>3
<1>4. \E req \in Request : Goto(s, req) /\ (OnRow(req) => req.row \in Ids)
  <2>1. CASE CheckExisting(s)
    <3> DEFINE req == [reqs[s] EXCEPT !.pc = "inserting"]
    <3>1. req \in Request /\ req.pc = "inserting"
      BY <1>2, <2>1 DEF CheckExisting, Request, Idle
    <3>2. Goto(s, Idle) \/ Goto(s, req)
      BY <2>1 DEF CheckExisting
    <3> QED
      BY <3>1, <3>2, IdleIsRequest DEF OnRow
  <2>2. CASE LookUpPayment(s)
    <3> DEFINE req == [reqs[s] EXCEPT !.pc = "activating"]
    <3>1. req \in Request /\ req.pc = "activating" /\ req.row = reqs[s].row
      BY <1>2, <2>2 DEF LookUpPayment, Request, Idle
    <3>2. Goto(s, Idle) \/ Goto(s, req)
      BY <2>2 DEF LookUpPayment
    <3>3. req.row \in Ids
      BY <1>2, <2>2, <3>1 DEF LookUpPayment, OnRow
    <3> QED
      BY <3>1, <3>2, <3>3, IdleIsRequest
  <2>3. CASE CommitClose(s) \/ CommitDeleteDonor(s) \/ IndexRefuses(s) \/ Crash(s)
    BY <2>3, IdleIsRequest DEF CommitClose, CommitDeleteDonor, IndexRefuses, Crash
  <2> QED
    BY <2>1, <2>2, <2>3
<1>5. Ids' = Ids
  BY <1>1 DEF Ids
<1>6. /\ reqs' \in [Slots -> Request]
      /\ \A t \in Slots : OnRow(reqs'[t]) => reqs'[t].row \in Ids'
  BY <1>4, <1>5, GotoType
<1> QED
  BY <1>1, <1>3, <1>5, <1>6, <1>7 DEF TypeOK, OnRow

\* Requests that write to the table.
LEMMA InsertRowType ==
    ASSUME TypeOK, NEW s \in Slots, CommitCreate(s) \/ CommitPropose(s)
    PROVE  TypeOK'
<1>1. /\ UNCHANGED <<deleted, orphans, charge, closed, requests>>
      /\ Goto(s, Idle)
  BY DEF CommitCreate, CommitPropose
<1>2. reqs[s].donor \in Donors /\ reqs[s].orphan \in Orphans
  <2>1. reqs[s] \in Request /\ reqs[s].pc \in {"inserting", "proposing"}
    BY DEF TypeOK, CommitCreate, CommitPropose
  <2> QED
    BY <2>1, RequestFields
<1>3. \E r \in Rows, sp \in Sponsorship : Insert(r, sp)
  <2>1. CASE CommitCreate(s)
    <3>1. PICK r \in Rows, amount \in Amounts, due \in {"ahead", "past"} :
             Insert(r, [donor |-> reqs[s].donor, orphan |-> reqs[s].orphan,
                        status |-> "active", amount |-> amount, due |-> due, months |-> 0])
      BY <2>1 DEF CommitCreate
    <3>2. [donor |-> reqs[s].donor, orphan |-> reqs[s].orphan, status |-> "active",
           amount |-> amount, due |-> due, months |-> 0] \in Sponsorship
      BY <1>2 DEF Sponsorship, Statuses
    <3> QED
      BY <3>1, <3>2
  <2>2. CASE CommitPropose(s)
    <3>1. PICK r \in Rows, amount \in Amounts :
             Insert(r, [donor |-> reqs[s].donor, orphan |-> reqs[s].orphan,
                        status |-> "pending", amount |-> amount, due |-> "never", months |-> 0])
      BY <2>2 DEF CommitPropose
    <3>2. [donor |-> reqs[s].donor, orphan |-> reqs[s].orphan, status |-> "pending",
           amount |-> amount, due |-> "never", months |-> 0] \in Sponsorship
      BY <1>2 DEF Sponsorship, Statuses
    <3> QED
      BY <3>1, <3>2
  <2> QED
    BY <2>1, <2>2
<1>4. Ids \subseteq Ids' /\ Ids' \subseteq Rows /\ sponsorships' \in [Ids' -> Sponsorship]
  BY <1>3, InsertType
<1>5. /\ reqs' \in [Slots -> Request]
      /\ \A t \in Slots : OnRow(reqs'[t]) => reqs'[t].row \in Ids'
  BY <1>1, <1>4, GotoType, IdleIsRequest
<1> QED
  BY <1>1, <1>4, <1>5 DEF TypeOK, OnRow

\* The three handlers that rewrite a row keep the set of rows.
LEMMA UpdateRowType ==
    ASSUME TypeOK, NEW s \in Slots, Settle(s) \/ CommitChange(s) \/ CommitEdit(s)
    PROVE  TypeOK' /\ Ids' = Ids
<1> DEFINE r == reqs[s].row
<1>0. reqs[s] \in Request /\ OnRow(reqs[s]) /\ r \in Ids
  BY DEF TypeOK, OnRow, Settle, CommitChange, CommitEdit
<1>1. /\ UNCHANGED <<deleted, orphans, closed, requests>>
      /\ Goto(s, Idle)
      /\ charge' \in [Rows -> {"none", "reported", "settled", "dropped"}]
  BY <1>0 DEF TypeOK, Settle, CommitChange, CommitEdit
<1>2. Ids' = Ids /\ sponsorships' \in [Ids -> Sponsorship]
  <2>1. CASE Settle(s)
    <3>1. Activated(r, reqs[s].seen) \in Statuses
      BY <1>0 DEF Activated, TypeOK, Sponsorship, Statuses
    <3>2. sponsorships' = [sponsorships EXCEPT ![r].status = Activated(r, reqs[s].seen)]
      BY <2>1 DEF Settle
    <3> QED
      BY <1>0, <3>1, <3>2 DEF TypeOK, Sponsorship, Ids
  <2>2. CASE CommitChange(s)
    <3>1. reqs[s].to \in Statuses
      BY <1>0, <2>2, RequestFields DEF CommitChange, Statuses
    <3>2. sponsorships' = [sponsorships EXCEPT ![r].status = reqs[s].to]
      BY <2>2 DEF CommitChange
    <3> QED
      BY <1>0, <3>1, <3>2, ZenonT(30) DEF TypeOK, Sponsorship, Ids
  <2>3. CASE CommitEdit(s)
    <3>1. reqs[s].amount \in Amounts
      BY <1>0, <2>3, RequestFields DEF CommitEdit
    <3>2. sponsorships' = [sponsorships EXCEPT ![r].amount = reqs[s].amount]
      BY <2>3 DEF CommitEdit
    <3> QED
      BY <1>0, <3>1, <3>2 DEF TypeOK, Sponsorship, Ids
  <2> QED
    BY <2>1, <2>2, <2>3
<1>3. /\ reqs' \in [Slots -> Request]
      /\ \A t \in Slots : OnRow(reqs'[t]) => reqs'[t].row \in Ids'
  BY <1>1, <1>2, GotoType, IdleIsRequest
<1> QED
  BY <1>1, <1>2, <1>3 DEF TypeOK, OnRow

\* The calendar and the worker touch due, status and months only.
LEMMA SweepType ==
    ASSUME TypeOK, \/ MarkOverdue
                   \/ \E r \in Rows : DueDatePasses(r)
    PROVE  TypeOK' /\ Ids' = Ids
<1>1. UNCHANGED <<deleted, orphans, charge, closed, reqs, requests>>
  BY DEF MarkOverdue, DueDatePasses
<1>2. Ids' = Ids /\ sponsorships' \in [Ids -> Sponsorship]
  <2>1. CASE MarkOverdue
    <3>1. \A sp \in Sponsorship : Marked(sp) \in Sponsorship
      <4> TAKE sp \in Sponsorship
      <4>1. sp.months + 1 \in Nat
        BY DEF Sponsorship
      <4> QED
        BY <4>1 DEF Sponsorship, Marked, Statuses
    <3>2. sponsorships' = [r \in Ids |-> IF Late(sponsorships[r]) THEN Marked(sponsorships[r])
                                         ELSE sponsorships[r]]
      BY <2>1 DEF MarkOverdue
    <3> QED
      BY <3>1, <3>2 DEF TypeOK, Ids
  <2>2. CASE \E r \in Rows : DueDatePasses(r)
    BY <2>2 DEF DueDatePasses, TypeOK, Sponsorship, Ids
  <2> QED
    BY <2>1, <2>2
<1> QED
  BY <1>1, <1>2 DEF TypeOK, OnRow

\* The gateway, a restored donor and the registrars of children leave table and
\* requests alone.
LEMMA OtherType ==
    ASSUME TypeOK, \/ \E r \in Rows : GatewayCharges(r)
                   \/ \E d \in Donors : RestoreDonor(d)
                   \/ \E o \in Orphans : ApproveOrphan(o) \/ DeleteOrphan(o)
                   \/ UNCHANGED vars
    PROVE  TypeOK' /\ UNCHANGED <<sponsorships, reqs>>
<1>1. UNCHANGED <<sponsorships, reqs>>
  BY DEF GatewayCharges, RestoreDonor, ApproveOrphan, DeleteOrphan, OneStep, vars
<1>2. charge' \in [Rows -> {"none", "reported", "settled", "dropped"}]
  BY DEF TypeOK, GatewayCharges, RestoreDonor, ApproveOrphan, DeleteOrphan, OneStep, vars
<1>3. closed' \subseteq Rows /\ deleted' \subseteq Donors /\ orphans' \in [Orphans -> {"hidden", "browseable", "deleted"}]
  BY DEF TypeOK, GatewayCharges, RestoreDonor, ApproveOrphan, DeleteOrphan, OneStep, vars
<1>4. requests' \in Nat
  BY DEF TypeOK, GatewayCharges, RestoreDonor, ApproveOrphan, DeleteOrphan, OneStep, vars
<1>5. Ids' = Ids
  BY <1>1 DEF Ids
<1> QED
  BY <1>1, <1>2, <1>3, <1>4, <1>5 DEF TypeOK, OnRow

\* Every step keeps the types.
LEMMA NextTypeOK == TypeOK /\ [Next]_vars => TypeOK'
  BY Steps, StartType, ContinueType, InsertRowType, UpdateRowType, SweepType, OtherType

\* The table, the requests and the charges keep their types, and a request
\* never works on a row that is not there (every handler of the module).
THEOREM TypeCorrect == Spec => []TypeOK
  BY InitTypeOK, NextTypeOK, PTL DEF Spec
-----------------------------------------------------------------------------
\* Rows that keep their pair and do not come to life cannot collide.
LEMMA PairsKept ==
    ASSUME OnePerPair, Ids' = Ids,
           \A x \in Ids : /\ sponsorships'[x].donor = sponsorships[x].donor
                          /\ sponsorships'[x].orphan = sponsorships[x].orphan
                          /\ sponsorships'[x].status \in ActiveLike
                                => sponsorships[x].status \in ActiveLike
    PROVE  OnePerPair'
BY DEF OnePerPair

\* What the index sees to when one row is written.
LEMMA OneRowWritten ==
    ASSUME OnePerPair, NEW r, r \in Ids', Ids' \subseteq Ids \cup {r},
           \A x \in Ids' : x # r => sponsorships'[x] = sponsorships[x],
           sponsorships'[r].status \in Indexed =>
               Twins(sponsorships'[r].donor, sponsorships'[r].orphan) \ {r} = {}
    PROVE  OnePerPair'
<1>1. \A x \in Ids' : /\ x # r
                      /\ sponsorships'[x].donor = sponsorships'[r].donor
                      /\ sponsorships'[x].orphan = sponsorships'[r].orphan
                      /\ sponsorships'[x].status \in ActiveLike
                      => sponsorships'[r].status \notin ActiveLike
  BY DEF Twins, Indexed, ActiveLike
<1> QED
  BY <1>1 DEF OnePerPair

\* An insertion passes the unique index, so it adds no second live row for a pair.
LEMMA InsertPairs ==
    ASSUME TypeOK, OnePerPair, NEW s \in Slots, CommitCreate(s) \/ CommitPropose(s)
    PROVE  OnePerPair'
<1>1. PICK r, sp : Insert(r, sp)
  BY DEF CommitCreate, CommitPropose
<1>2. /\ r \notin Ids /\ Ids' = Ids \cup {r}
      /\ sponsorships'[r] = sp
      /\ \A x \in Ids : sponsorships'[x] = sponsorships[x]
      /\ sp.status \in Indexed => Twins(sp.donor, sp.orphan) = {}
  BY <1>1 DEF Insert, Ids
<1> QED
  BY <1>2, OneRowWritten

\* A handler that rewrites a row never brings a second row of a pair to life.
LEMMA UpdatePairs ==
    ASSUME TypeOK, OnePerPair, NEW s \in Slots, Settle(s) \/ CommitChange(s) \/ CommitEdit(s)
    PROVE  OnePerPair'
<1>0. Ids' = Ids
  BY UpdateRowType
<1>r. PICK r \in Ids : r = reqs[s].row
  BY DEF TypeOK, OnRow, Settle, CommitChange, CommitEdit
<1>1. /\ \A x \in Ids : x # r => sponsorships'[x] = sponsorships[x]
      /\ sponsorships'[r].donor = sponsorships[r].donor
      /\ sponsorships'[r].orphan = sponsorships[r].orphan
  BY <1>r DEF Settle, CommitChange, CommitEdit, TypeOK, Sponsorship
<1>2. CASE Settle(s)
  <2>1. PICK status : /\ ~ClashOf(r, status)
                      /\ sponsorships' = [sponsorships EXCEPT ![r].status = status]
    BY <1>r, <1>2 DEF Settle
  <2>2. sponsorships'[r].status = status
    BY <2>1 DEF TypeOK, Sponsorship
  <2> QED
    BY <1>0, <1>1, <2>1, <2>2, OneRowWritten DEF ClashOf
<1>3. CASE CommitChange(s)
  <2>1. /\ ~ClashOf(r, reqs[s].to)
        /\ sponsorships'[r].status = reqs[s].to
    BY <1>r, <1>3 DEF CommitChange, TypeOK, Sponsorship
  <2> QED
    BY <1>0, <1>1, <2>1, OneRowWritten DEF ClashOf
<1>4. CASE CommitEdit(s)
  <2>1. sponsorships'[r].status = sponsorships[r].status
    BY <1>r, <1>4 DEF CommitEdit, TypeOK, Sponsorship
  <2> QED
    BY <1>0, <1>1, <2>1, PairsKept
<1> QED
  BY <1>2, <1>3, <1>4

\* Nor do the daily sweep and the calendar.
LEMMA SweepPairs ==
    ASSUME TypeOK, OnePerPair, \/ MarkOverdue
                               \/ \E r \in Rows : DueDatePasses(r)
    PROVE  OnePerPair'
<1>0. Ids' = Ids
  BY SweepType
<1>1. CASE MarkOverdue
  <2>1. \A x \in Ids : sponsorships[x] \in Sponsorship
    BY DEF TypeOK
  <2>2. \A sp \in Sponsorship : /\ Marked(sp).donor = sp.donor /\ Marked(sp).orphan = sp.orphan
                                /\ Late(sp) => sp.status \in ActiveLike
    BY DEF Sponsorship, Marked, Late, ActiveLike
  <2>3. \A x \in Ids : sponsorships'[x] = IF Late(sponsorships[x]) THEN Marked(sponsorships[x])
                                          ELSE sponsorships[x]
    BY <1>1 DEF MarkOverdue
  <2> QED
    BY <1>0, <2>1, <2>2, <2>3, PairsKept
<1>2. CASE \E r \in Rows : DueDatePasses(r)
  <2>1. \A x \in Ids : /\ sponsorships'[x].donor = sponsorships[x].donor
                       /\ sponsorships'[x].orphan = sponsorships[x].orphan
                       /\ sponsorships'[x].status = sponsorships[x].status
    BY <1>2 DEF DueDatePasses, TypeOK, Sponsorship
  <2> QED
    BY <1>0, <2>1, PairsKept
<1> QED
  BY <1>1, <1>2

\* Every step keeps one live row for each pair.
LEMMA NextPairs == TypeOK /\ OnePerPair /\ [Next]_vars => OnePerPair'
<1> SUFFICES ASSUME TypeOK, OnePerPair, [Next]_vars PROVE OnePerPair'
  OBVIOUS
<1>1. CASE UNCHANGED sponsorships
  BY <1>1, PairsKept DEF Ids
<1>2. CASE \E s \in Slots : CommitCreate(s) \/ CommitPropose(s)
  BY <1>2, InsertPairs
<1>3. CASE \E s \in Slots : Settle(s) \/ CommitChange(s) \/ CommitEdit(s)
  BY <1>3, UpdatePairs
<1>4. CASE MarkOverdue \/ \E r \in Rows : DueDatePasses(r)
  BY <1>4, SweepPairs
<1>5. \/ UNCHANGED sponsorships
      \/ \E s \in Slots : CommitCreate(s) \/ CommitPropose(s)
      \/ \E s \in Slots : Settle(s) \/ CommitChange(s) \/ CommitEdit(s)
      \/ MarkOverdue \/ \E r \in Rows : DueDatePasses(r)
  BY Steps, StartType, ContinueType, OtherType
<1> QED
  BY <1>1, <1>2, <1>3, <1>4, <1>5

\* A donor sponsors an orphan once at a time, for any number of creations,
\* activations, resumptions and cancellations under way.  The index makes this
\* inductive only because it covers just the statuses that count as live, and
\* because the worker, which no index check stops, moves rows inside them.
THEOREM OneSponsorshipPerPair == Spec => []OnePerPair
<1>1. Init => OnePerPair
  BY DEF Init, OnePerPair, Ids
<1> QED
  BY <1>1, NextPairs, TypeCorrect, PTL DEF Spec
-----------------------------------------------------------------------------
(* Why the invariants are inductive only together with what requests know:  *)
(* a request writes long after it read.  A change to a live status was      *)
(* accepted for a live row, so that row was paid for if the donor proposed  *)
(* it, and a delivery that read a status other than pending never has to    *)
(* activate, since no handler makes a row pending again.                    *)

Proposed(r)  == sponsorships[r].due = "never"
LiveRow(r)   == sponsorships[r].status \in ActiveLike
ChangeKnowsPaid(req) ==
    req.pc = "changing" /\ req.to \in ActiveLike /\ Proposed(req.row)
        => charge[req.row] = "settled"
ReadKnowsPending(req) ==
    req.pc \in {"sponsorshipRead", "activating"} /\ req.seen # "pending"
        => sponsorships[req.row].status # "pending"

UnusedIsUncharged == \A r \in Rows \ Ids : charge[r] = "none"

\* A charge is dropped only where something else had closed the payment.
DroppedWasClosed == \A r \in Rows : charge[r] = "dropped" => r \in closed

LifeInv ==
    /\ TypeOK
    /\ PaidBeforeLive
    /\ SettledIsNotPending
    /\ DroppedWasClosed
    /\ UnusedIsUncharged
    /\ \A s \in Slots : ChangeKnowsPaid(reqs[s]) /\ ReadKnowsPending(reqs[s])

\* What a write may do to the row: a proposal stays one, a settled charge stays
\* settled, and no row becomes pending.
RowGoesOn(r) ==
    /\ Proposed(r)' => Proposed(r)
    /\ charge[r] = "settled" => charge'[r] = "settled"
    /\ sponsorships'[r].status = "pending" => sponsorships[r].status = "pending"

\* Requests that go on keep what they know.
LEMMA KnowledgeKept ==
    ASSUME LifeInv, NEW s \in Slots, NEW req \in Request, Goto(s, req),
           Ids \subseteq Ids', \A r \in Ids : RowGoesOn(r),
           ChangeKnowsPaid(req)', ReadKnowsPending(req)'
    PROVE  \A t \in Slots : ChangeKnowsPaid(reqs[t])' /\ ReadKnowsPending(reqs[t])'
<1> TAKE t \in Slots
<1>1. CASE t = s
  <2>1. reqs'[t] = req
    BY <1>1 DEF Goto, LifeInv, TypeOK
  <2> QED
    BY <2>1 DEF ChangeKnowsPaid, ReadKnowsPending, Proposed
<1>2. CASE t # s
  <2>1. reqs'[t] = reqs[t] /\ (OnRow(reqs[t]) => reqs[t].row \in Ids)
    BY <1>2 DEF Goto, LifeInv, TypeOK
  <2>2. ChangeKnowsPaid(reqs[t]) /\ ReadKnowsPending(reqs[t])
    BY DEF LifeInv
  <2> QED
    BY <2>1, <2>2 DEF ChangeKnowsPaid, ReadKnowsPending, RowGoesOn, Proposed, OnRow
<1> QED
  BY <1>1, <1>2

\* A worker without a request has nothing to know.
LEMMA IdleKnows == ChangeKnowsPaid(Idle)' /\ ReadKnowsPending(Idle)'
  BY DEF ChangeKnowsPaid, ReadKnowsPending, Idle

\* Steps that leave the table alone and settle no charge.
LEMMA QuietLife ==
    ASSUME LifeInv, TypeOK', UNCHANGED sponsorships, ChargesKept, NEW s \in Slots,
           NEW req \in Request, Goto(s, req), ChangeKnowsPaid(req), ReadKnowsPending(req)
    PROVE  LifeInv'
<1>0. Ids \subseteq Rows
  BY DEF LifeInv, TypeOK
<1>1. \A r \in Ids : RowGoesOn(r)
  BY <1>0 DEF RowGoesOn, Proposed, ChargesKept
<1>2. Ids' = Ids /\ ChangeKnowsPaid(req)' /\ ReadKnowsPending(req)'
  BY RequestFields DEF Ids, ChangeKnowsPaid, ReadKnowsPending, Proposed, ChargesKept
<1>4. PaidBeforeLive' /\ UnusedIsUncharged'
  BY <1>0, <1>2 DEF LifeInv, PaidBeforeLive, UnusedIsUncharged, ChargesKept
<1>5. DroppedWasClosed'
  BY DEF LifeInv, DroppedWasClosed, ChargesKept
<1>6. SettledIsNotPending'
  BY <1>0, <1>2, <1>5 DEF LifeInv, SettledIsNotPending, DroppedWasClosed, ChargesKept
<1>3. \A t \in Slots : ChangeKnowsPaid(reqs[t])' /\ ReadKnowsPending(reqs[t])'
  BY <1>1, <1>2, KnowledgeKept
<1> QED
  BY <1>3, <1>4, <1>5, <1>6 DEF LifeInv

\* A handler that starts reads what the table holds.
LEMMA StartLife ==
    ASSUME LifeInv, TypeOK', NEW s \in Slots,
           \/ \E d \in Donors, o \in Orphans : StartCreate(s, d, o) \/ StartPropose(s, d, o)
           \/ \E d \in Donors : StartDeleteDonor(s, d)
           \/ \E r \in Ids : Deliver(s, r) \/ Redeliver(s, r) \/ StartClose(s, r)
           \/ \E r \in Ids, to \in DOMAIN Accepts : StartChange(s, r, to)
           \/ \E r \in Ids, amount \in Amounts : StartEdit(s, r, amount)
    PROVE  LifeInv'
<1>0. UNCHANGED sponsorships /\ ChargesKept
  BY StartType DEF LifeInv, ChargesKept
<1>1. PICK req \in Request : Goto(s, req)
  BY StartType DEF LifeInv
<1>2. reqs'[s] = req
  BY <1>1 DEF Goto, LifeInv, TypeOK
<1>3. ChangeKnowsPaid(req) /\ ReadKnowsPending(req)
  <2>1. CASE \E d \in Donors, o \in Orphans : StartCreate(s, d, o) \/ StartPropose(s, d, o)
    <3>1. req.pc \in {"creating", "proposing"}
      BY <1>2, <2>1 DEF StartCreate, StartPropose, Begin, Goto, LifeInv, TypeOK
    <3> QED
      BY <3>1 DEF ChangeKnowsPaid, ReadKnowsPending
  <2>2. CASE \E d \in Donors : StartDeleteDonor(s, d)
    <3>1. req.pc = "deleting"
      BY <1>2, <2>2 DEF StartDeleteDonor, Begin, Goto, LifeInv, TypeOK
    <3> QED
      BY <3>1 DEF ChangeKnowsPaid, ReadKnowsPending
  <2>3. CASE \E r \in Ids : Deliver(s, r) \/ Redeliver(s, r) \/ StartClose(s, r)
    <3>1. PICK r \in Ids : \/ req = [pc |-> "sponsorshipRead", row |-> r,
                                     seen |-> sponsorships[r].status]
                           \/ req = [pc |-> "closing", row |-> r]
      BY <1>2, <2>3 DEF Deliver, Redeliver, ReadSponsorship, StartClose, Begin, Goto, LifeInv, TypeOK
    <3> QED
      BY <3>1 DEF ChangeKnowsPaid, ReadKnowsPending
  <2>4. CASE \E r \in Ids, to \in DOMAIN Accepts : StartChange(s, r, to)
    <3>1. PICK r \in Ids, to \in DOMAIN Accepts : StartChange(s, r, to)
      BY <2>4
    <3>2. req = [pc |-> "changing", row |-> r, to |-> to]
      BY <1>2, <3>1 DEF StartChange, Begin, Goto, LifeInv, TypeOK
    <3>3. to \in ActiveLike => sponsorships[r].status \in ActiveLike
      BY <3>1 DEF StartChange, Accepts, ActiveLike
    <3> QED
      BY <3>2, <3>3 DEF ChangeKnowsPaid, ReadKnowsPending, Proposed, LifeInv, PaidBeforeLive
  <2>5. CASE \E r \in Ids, amount \in Amounts : StartEdit(s, r, amount)
    <3>1. req.pc = "editing"
      BY <1>2, <2>5 DEF StartEdit, Begin, Goto, LifeInv, TypeOK
    <3> QED
      BY <3>1 DEF ChangeKnowsPaid, ReadKnowsPending
  <2> QED
    BY <2>1, <2>2, <2>3, <2>4, <2>5
<1> QED
  BY <1>0, <1>1, <1>3, QuietLife

\* The steps between keep what was read true of the table.
LEMMA ContinueLife ==
    ASSUME LifeInv, TypeOK', NEW s \in Slots,
           \/ CheckExisting(s) \/ LookUpPayment(s) \/ CommitClose(s)
           \/ CommitDeleteDonor(s) \/ IndexRefuses(s) \/ Crash(s)
    PROVE  LifeInv'
<1>0. UNCHANGED sponsorships /\ ChargesKept /\ reqs[s] \in Request
  BY ContinueType DEF LifeInv, TypeOK
<1>1. CASE Goto(s, Idle)
  <2>1. ChangeKnowsPaid(Idle) /\ ReadKnowsPending(Idle)
    BY DEF ChangeKnowsPaid, ReadKnowsPending, Idle
  <2> QED
    BY <1>0, <1>1, <2>1, IdleIsRequest, QuietLife
<1>2. CASE CheckExisting(s) /\ Goto(s, [reqs[s] EXCEPT !.pc = "inserting"])
  <2> DEFINE req == [reqs[s] EXCEPT !.pc = "inserting"]
  <2>1. req \in Request /\ req.pc = "inserting"
    BY <1>0, <1>2 DEF CheckExisting, Request, Idle
  <2>2. ChangeKnowsPaid(req) /\ ReadKnowsPending(req)
    BY <2>1 DEF ChangeKnowsPaid, ReadKnowsPending
  <2>3. Goto(s, req)
    BY <1>2
  <2> HIDE DEF req
  <2> QED
    BY <1>0, <2>1, <2>2, <2>3, QuietLife
<1>3. CASE LookUpPayment(s) /\ Goto(s, [reqs[s] EXCEPT !.pc = "activating"])
  <2> DEFINE req == [reqs[s] EXCEPT !.pc = "activating"]
  <2>1. /\ req \in Request /\ req.pc = "activating"
        /\ req.row = reqs[s].row /\ req.seen = reqs[s].seen
    BY <1>0, <1>3 DEF LookUpPayment, Request, Idle
  <2>2. ChangeKnowsPaid(req) /\ ReadKnowsPending(req)
    BY <1>3, <2>1 DEF LookUpPayment, ChangeKnowsPaid, ReadKnowsPending, LifeInv
  <2>3. Goto(s, req)
    BY <1>3
  <2> HIDE DEF req
  <2> QED
    BY <1>0, <2>1, <2>2, <2>3, QuietLife
<1> QED
  BY <1>1, <1>2, <1>3 DEF CheckExisting, LookUpPayment, CommitClose, CommitDeleteDonor, IndexRefuses,
     Crash

\* A row begins pending, or live when staff create it, and uncharged.
LEMMA InsertLife ==
    ASSUME LifeInv, TypeOK', NEW s \in Slots, CommitCreate(s) \/ CommitPropose(s)
    PROVE  LifeInv'
<1>1. /\ UNCHANGED <<charge, closed>>
      /\ Goto(s, Idle)
  BY DEF CommitCreate, CommitPropose
<1> DEFINE Row(status, amount, due) ==
      [donor |-> reqs[s].donor, orphan |-> reqs[s].orphan, status |-> status,
       amount |-> amount, due |-> due, months |-> 0]
<1>2. PICK r \in Rows, status \in {"active", "pending"}, amount \in Amounts,
           due \in {"never", "ahead", "past"} :
         /\ Insert(r, Row(status, amount, due))
         /\ due = "never" => status = "pending"
  BY DEF CommitCreate, CommitPropose
<1>a. PICK sp : Insert(r, sp) /\ (sp.due = "never" => sp.status = "pending")
  BY <1>2
<1>3. /\ r \notin Ids /\ Ids' = Ids \cup {r}
      /\ sponsorships'[r] = sp
      /\ \A x \in Ids : sponsorships'[x] = sponsorships[x]
  BY <1>a DEF Insert, Ids
<1>4. charge[r] = "none"
  BY <1>3 DEF LifeInv, UnusedIsUncharged
<1>5. \A x \in Ids : RowGoesOn(x)
  BY <1>1, <1>3 DEF RowGoesOn, Proposed
<1>6. \A t \in Slots : ChangeKnowsPaid(reqs[t])' /\ ReadKnowsPending(reqs[t])'
  BY <1>1, <1>3, <1>5, KnowledgeKept, IdleKnows, IdleIsRequest
<1>7. PaidBeforeLive'
  BY <1>1, <1>a, <1>3 DEF LifeInv, PaidBeforeLive, ActiveLike
<1>8. SettledIsNotPending'
  BY <1>1, <1>3, <1>4 DEF LifeInv, SettledIsNotPending
<1>9. UnusedIsUncharged'
  BY <1>1, <1>3 DEF LifeInv, UnusedIsUncharged
<1>10. DroppedWasClosed'
  BY <1>1 DEF LifeInv, DroppedWasClosed
<1> QED
  BY <1>6, <1>7, <1>8, <1>9, <1>10 DEF LifeInv

\* One row written, the request over.
LEMMA UpdateLife ==
    ASSUME LifeInv, TypeOK', NEW s \in Slots, Settle(s) \/ CommitChange(s) \/ CommitEdit(s)
    PROVE  LifeInv'
<1>0. Ids' = Ids /\ Goto(s, Idle)
  BY UpdateRowType DEF LifeInv, Settle, CommitChange, CommitEdit
<1>r. PICK r \in Ids : r = reqs[s].row
  BY DEF LifeInv, TypeOK, OnRow, Settle, CommitChange, CommitEdit
<1>1. reqs[s] \in Request /\ ChangeKnowsPaid(reqs[s]) /\ ReadKnowsPending(reqs[s])
  BY DEF LifeInv, TypeOK
<1>2. /\ \A x \in Ids : x # r => sponsorships'[x] = sponsorships[x]
      /\ \A x \in Rows : x # r => charge'[x] = charge[x]
      /\ sponsorships'[r].due = sponsorships[r].due
      /\ closed' = closed
  BY <1>r, <1>1 DEF Settle, CommitChange, CommitEdit, LifeInv, TypeOK, Sponsorship
<1>3. /\ sponsorships'[r].status = "pending" => sponsorships[r].status = "pending"
      /\ charge[r] = "settled" => charge'[r] = "settled"
      /\ LiveRow(r)' /\ Proposed(r) => charge'[r] = "settled"
      /\ charge'[r] = "settled" => sponsorships'[r].status # "pending"
      /\ charge'[r] = "dropped" => charge[r] = "dropped"
  <2>1. CASE Settle(s)
    <3>1. /\ sponsorships'[r].status = Activated(r, reqs[s].seen)
          /\ charge'[r] = "settled"
      BY <1>r, <1>1, <2>1 DEF Settle, LifeInv, TypeOK, Sponsorship
    <3>2. reqs[s].seen # "pending" => sponsorships[r].status # "pending"
      BY <1>r, <1>1, <2>1 DEF Settle, ReadKnowsPending
    <3> QED
      BY <3>1, <3>2 DEF Activated
  <2>2. CASE CommitChange(s)
    <3>1. sponsorships'[r].status = reqs[s].to /\ charge'[r] = charge[r]
      BY <1>r, <1>1, <2>2 DEF CommitChange, LifeInv, TypeOK, Sponsorship
    <3>2. reqs[s].to \in {"paused", "active", "cancelled"}
      BY <1>r, <1>1, <2>2, RequestFields DEF CommitChange
    <3>3. reqs[s].to \in ActiveLike /\ Proposed(r) => charge[r] = "settled"
      BY <1>r, <1>1, <2>2 DEF CommitChange, ChangeKnowsPaid
    <3> QED
      BY <3>1, <3>2, <3>3 DEF LiveRow
  <2>3. CASE CommitEdit(s)
    <3>1. sponsorships'[r].status = sponsorships[r].status /\ charge'[r] = charge[r]
      BY <1>r, <1>1, <2>3 DEF CommitEdit, LifeInv, TypeOK, Sponsorship
    <3> QED
      BY <1>r, <1>1, <3>1 DEF LifeInv, PaidBeforeLive, SettledIsNotPending, LiveRow, Proposed
  <2> QED
    BY <2>1, <2>2, <2>3
<1>4. \A x \in Ids : RowGoesOn(x)
  BY <1>2, <1>3 DEF RowGoesOn, Proposed, LifeInv, TypeOK
<1>5. \A t \in Slots : ChangeKnowsPaid(reqs[t])' /\ ReadKnowsPending(reqs[t])'
  BY <1>0, <1>4, KnowledgeKept, IdleKnows, IdleIsRequest
<1>6. PaidBeforeLive' /\ UnusedIsUncharged'
  BY <1>0, <1>r, <1>1, <1>2, <1>3 DEF LifeInv, PaidBeforeLive, UnusedIsUncharged,
     LiveRow, Proposed, TypeOK
<1>7. DroppedWasClosed'
  BY <1>r, <1>2, <1>3 DEF LifeInv, DroppedWasClosed
<1>8. SettledIsNotPending'
  <2>1. \A x \in Ids : x \in Rows
    BY DEF LifeInv, TypeOK
  <2>2. \A x \in Ids : charge'[x] = "settled" => sponsorships'[x].status # "pending"
    BY <1>2, <1>3, <2>1 DEF LifeInv, SettledIsNotPending
  <2> QED
    BY <1>0, <1>7, <2>1, <2>2 DEF SettledIsNotPending, DroppedWasClosed
<1> QED
  BY <1>5, <1>6, <1>7, <1>8 DEF LifeInv

\* The calendar, the worker, the gateway and everything beside the table.
LEMMA OutsideLife ==
    ASSUME LifeInv, TypeOK',
           \/ MarkOverdue
           \/ \E r \in Rows : DueDatePasses(r)
           \/ \E r \in Rows : GatewayCharges(r)
           \/ \E d \in Donors : RestoreDonor(d)
           \/ \E o \in Orphans : ApproveOrphan(o) \/ DeleteOrphan(o)
           \/ UNCHANGED vars
    PROVE  LifeInv'
<1>1. Ids' = Ids /\ reqs' = reqs
  BY SweepType, OtherType DEF LifeInv, MarkOverdue, DueDatePasses, Ids
<1>2. \A r \in Ids :
         /\ RowGoesOn(r)
         /\ LiveRow(r)' => LiveRow(r)
         /\ charge'[r] = "settled" => charge[r] = "settled"
  <2>1. CASE MarkOverdue
    <3> SUFFICES ASSUME NEW r \in Ids
                 PROVE  /\ RowGoesOn(r)
                        /\ LiveRow(r)' => LiveRow(r)
                        /\ charge'[r] = "settled" => charge[r] = "settled"
      OBVIOUS
    <3>1. charge' = charge /\ sponsorships[r] \in Sponsorship
      BY <2>1 DEF MarkOverdue, LifeInv, TypeOK
    <3>2. CASE Late(sponsorships[r])
      <4>1. sponsorships'[r] = Marked(sponsorships[r])
        BY <2>1, <3>2 DEF MarkOverdue
      <4>2. /\ sponsorships'[r].due = sponsorships[r].due
            /\ sponsorships'[r].status = "overdue"
        BY <3>1, <4>1 DEF Marked, Sponsorship
      <4> QED
        BY <3>1, <3>2, <4>2 DEF Late, RowGoesOn, Proposed, LiveRow, ActiveLike
    <3>3. CASE ~Late(sponsorships[r])
      <4>1. sponsorships'[r] = sponsorships[r]
        BY <2>1, <3>3 DEF MarkOverdue
      <4> QED
        BY <3>1, <4>1 DEF RowGoesOn, Proposed, LiveRow
    <3> QED
      BY <3>2, <3>3
  <2>2. CASE \E r \in Rows : DueDatePasses(r)
    BY <2>2 DEF DueDatePasses, RowGoesOn, Proposed, LiveRow, LifeInv, TypeOK, Sponsorship
  <2>3. CASE \E r \in Rows : GatewayCharges(r)
    BY <2>3 DEF GatewayCharges, RowGoesOn, Proposed, LiveRow, LifeInv, TypeOK
  <2>4. CASE \/ \E d \in Donors : RestoreDonor(d)
             \/ \E o \in Orphans : ApproveOrphan(o) \/ DeleteOrphan(o)
             \/ UNCHANGED vars
    <3>1. UNCHANGED <<sponsorships, charge>>
      BY <2>4 DEF RestoreDonor, ApproveOrphan, DeleteOrphan, OneStep, vars
    <3> QED
      BY <3>1 DEF RowGoesOn, Proposed, LiveRow
  <2> QED
    BY <2>1, <2>2, <2>3, <2>4
<1>3. UnusedIsUncharged'
  BY <1>1 DEF LifeInv, UnusedIsUncharged, MarkOverdue, DueDatePasses, GatewayCharges, RestoreDonor,
     ApproveOrphan, DeleteOrphan, OneStep, vars, TypeOK
<1>6. DroppedWasClosed'
  BY DEF LifeInv, DroppedWasClosed, MarkOverdue, DueDatePasses, GatewayCharges, RestoreDonor,
     ApproveOrphan, DeleteOrphan, OneStep, vars, TypeOK
<1>7. PaidBeforeLive'
  BY <1>1, <1>2 DEF LifeInv, PaidBeforeLive, RowGoesOn, Proposed, LiveRow
<1>4. SettledIsNotPending'
  <2>1. \A r \in Ids : r \in Rows
    BY DEF LifeInv, TypeOK
  <2>2. \A r \in Ids : charge'[r] = "settled" => sponsorships'[r].status # "pending"
    BY <1>2 DEF LifeInv, SettledIsNotPending, RowGoesOn
  <2> QED
    BY <1>1, <1>6, <2>1, <2>2 DEF SettledIsNotPending, DroppedWasClosed
<1>5. \A t \in Slots : ChangeKnowsPaid(reqs[t])' /\ ReadKnowsPending(reqs[t])'
  BY <1>1, <1>2 DEF LifeInv, TypeOK, OnRow, ChangeKnowsPaid, ReadKnowsPending, RowGoesOn, Proposed
<1> QED
  BY <1>3, <1>4, <1>5, <1>6, <1>7 DEF LifeInv

\* The invariant behind the two theorems on a row's life.
LEMMA LifeInvariant == Spec => []LifeInv
<1>1. Init => LifeInv
  <2> SUFFICES ASSUME Init PROVE LifeInv
    OBVIOUS
  <2>1. Ids = {} /\ \A s \in Slots : reqs[s] = Idle
    BY DEF Init, Ids
  <2> QED
    BY <2>1, InitTypeOK DEF LifeInv, PaidBeforeLive, SettledIsNotPending, UnusedIsUncharged, DroppedWasClosed,
       ChangeKnowsPaid, ReadKnowsPending, Idle, Init
<1>2. LifeInv /\ TypeOK' /\ [Next]_vars => LifeInv'
  <2> SUFFICES ASSUME LifeInv, TypeOK', [Next]_vars PROVE LifeInv'
    OBVIOUS
  <2>1. CASE \E s \in Slots :
               \/ \E d \in Donors, o \in Orphans : StartCreate(s, d, o) \/ StartPropose(s, d, o)
               \/ \E d \in Donors : StartDeleteDonor(s, d)
               \/ \E r \in Ids : Deliver(s, r) \/ Redeliver(s, r) \/ StartClose(s, r)
               \/ \E r \in Ids, to \in DOMAIN Accepts : StartChange(s, r, to)
               \/ \E r \in Ids, amount \in Amounts : StartEdit(s, r, amount)
    BY <2>1, StartLife
  <2>2. CASE \E s \in Slots : \/ CheckExisting(s) \/ LookUpPayment(s) \/ CommitClose(s)
                              \/ CommitDeleteDonor(s) \/ IndexRefuses(s) \/ Crash(s)
    BY <2>2, ContinueLife
  <2>3. CASE \E s \in Slots : CommitCreate(s) \/ CommitPropose(s)
    BY <2>3, InsertLife
  <2>4. CASE \E s \in Slots : Settle(s) \/ CommitChange(s) \/ CommitEdit(s)
    BY <2>4, UpdateLife
  <2>5. CASE \/ MarkOverdue
             \/ \E r \in Rows : DueDatePasses(r)
             \/ \E r \in Rows : GatewayCharges(r)
             \/ \E d \in Donors : RestoreDonor(d)
             \/ \E o \in Orphans : ApproveOrphan(o) \/ DeleteOrphan(o)
             \/ UNCHANGED vars
    BY <2>5, OutsideLife
  <2> QED
    BY <2>1, <2>2, <2>3, <2>4, <2>5, Steps
<1> QED
  BY <1>1, <1>2, TypeCorrect, PTL DEF Spec

\* A proposal never goes live before a payment of it has settled, however
\* webhooks, staff and crashes interleave.
THEOREM ProposalsPayFirst == Spec => []PaidBeforeLive
  BY LifeInvariant, PTL DEF LifeInv

\* However deliveries, failures and refunds of its invoice interleave and crash, a
\* charge that is settled does not leave the sponsorship pending, nor does one that
\* is answered 200 and dropped, unless something else had closed the payment.
THEOREM PaidLeavesPending == Spec => []SettledIsNotPending
  BY LifeInvariant, PTL DEF LifeInv
-----------------------------------------------------------------------------
(* The refinement.  With one request at a time a handler's commit finds the *)
(* row as its read found it, but for what the worker and the calendar do,   *)
(* which neither Kafala nor any handler's test can tell.                    *)

\* What a request was accepted for still holds when it writes.
StillSo(req) ==
    /\ req.pc = "changing" => IF req.to \in ActiveLike THEN LiveRow(req.row)
                              ELSE Editable(sponsorships[req.row].status)
    /\ req.pc = "editing" => Editable(sponsorships[req.row].status)
    /\ req.pc \in {"sponsorshipRead", "activating"} /\ req.seen = "pending"
         => sponsorships[req.row].status = "pending"
    /\ req.pc = "deleting" => ~HasActiveLike(req.donor)

NothingStale == \A s \in Slots : StillSo(reqs[s])

\* A handler starts with what it has just read.
LEMMA StartsFresh ==
    ASSUME TypeOK, NEW s \in Slots,
           \/ \E d \in Donors, o \in Orphans : StartCreate(s, d, o) \/ StartPropose(s, d, o)
           \/ \E d \in Donors : StartDeleteDonor(s, d)
           \/ \E r \in Ids : Deliver(s, r) \/ Redeliver(s, r) \/ StartClose(s, r)
           \/ \E r \in Ids, to \in DOMAIN Accepts : StartChange(s, r, to)
           \/ \E r \in Ids, amount \in Amounts : StartEdit(s, r, amount)
    PROVE  UNCHANGED <<sponsorships, charge>> /\ StillSo(reqs'[s])
<1>1. UNCHANGED <<sponsorships, charge>>
  BY StartType
<1>2. PICK req : req = reqs'[s]
  OBVIOUS
<1>3. StillSo(req)
  <2>1. CASE \E d \in Donors, o \in Orphans : StartCreate(s, d, o) \/ StartPropose(s, d, o)
    <3>1. req.pc \in {"creating", "proposing"}
      BY <1>2, <2>1 DEF StartCreate, StartPropose, Begin, Goto, TypeOK
    <3> QED
      BY <3>1 DEF StillSo
  <2>2. CASE \E d \in Donors : StartDeleteDonor(s, d)
    <3>1. PICK d \in Donors : StartDeleteDonor(s, d)
      BY <2>2
    <3>2. req = [pc |-> "deleting", donor |-> d] /\ ~HasActiveLike(d)
      BY <1>2, <3>1 DEF StartDeleteDonor, Begin, Goto, TypeOK
    <3> QED
      BY <3>2 DEF StillSo
  <2>3. CASE \E r \in Ids : Deliver(s, r) \/ Redeliver(s, r) \/ StartClose(s, r)
    <3>1. PICK r \in Ids : \/ req = [pc |-> "sponsorshipRead", row |-> r,
                                     seen |-> sponsorships[r].status]
                           \/ req = [pc |-> "closing", row |-> r]
      BY <1>2, <2>3 DEF Deliver, Redeliver, ReadSponsorship, StartClose, Begin, Goto, TypeOK
    <3> QED
      BY <3>1 DEF StillSo
  <2>4. CASE \E r \in Ids, to \in DOMAIN Accepts : StartChange(s, r, to)
    <3>1. PICK r \in Ids, to \in DOMAIN Accepts : StartChange(s, r, to)
      BY <2>4
    <3>2. req = [pc |-> "changing", row |-> r, to |-> to]
      BY <1>2, <3>1 DEF StartChange, Begin, Goto, TypeOK
    <3>3. IF to \in ActiveLike THEN LiveRow(r) ELSE Editable(sponsorships[r].status)
      BY <3>1 DEF StartChange, Accepts, ActiveLike, LiveRow, Editable
    <3> QED
      BY <3>2, <3>3 DEF StillSo
  <2>5. CASE \E r \in Ids, amount \in Amounts : StartEdit(s, r, amount)
    <3>1. PICK r \in Ids, amount \in Amounts : StartEdit(s, r, amount)
      BY <2>5
    <3>2. req = [pc |-> "editing", row |-> r, amount |-> amount] /\ Editable(sponsorships[r].status)
      BY <1>2, <3>1 DEF StartEdit, Begin, Goto, TypeOK
    <3> QED
      BY <3>2 DEF StillSo
  <2> QED
    BY <2>1, <2>2, <2>3, <2>4, <2>5
<1> QED
  BY <1>1, <1>2, <1>3

\* The worker and the calendar keep donors, orphans, amounts and stages.
LEMMA SweepKeeps ==
    ASSUME TypeOK, MarkOverdue \/ \E r \in Rows : DueDatePasses(r)
    PROVE  /\ Ids' = Ids
           /\ \A r \in Ids :
                /\ sponsorships'[r].donor = sponsorships[r].donor
                /\ sponsorships'[r].orphan = sponsorships[r].orphan
                /\ sponsorships'[r].amount = sponsorships[r].amount
                /\ \/ sponsorships'[r].status = sponsorships[r].status
                   \/ sponsorships[r].status = "active" /\ sponsorships'[r].status = "overdue"
<1>1. Ids' = Ids
  BY SweepType
<1>2. ASSUME NEW r \in Ids
      PROVE  /\ sponsorships'[r].donor = sponsorships[r].donor
             /\ sponsorships'[r].orphan = sponsorships[r].orphan
             /\ sponsorships'[r].amount = sponsorships[r].amount
             /\ \/ sponsorships'[r].status = sponsorships[r].status
                \/ sponsorships[r].status = "active" /\ sponsorships'[r].status = "overdue"
  <2>0. sponsorships[r] \in Sponsorship
    BY DEF TypeOK
  <2>1. CASE MarkOverdue
    <3>1. CASE Late(sponsorships[r])
      <4>1. sponsorships'[r] = Marked(sponsorships[r])
        BY <2>1, <3>1 DEF MarkOverdue
      <4> QED
        BY <2>0, <3>1, <4>1 DEF Marked, Late, Sponsorship
    <3>2. CASE ~Late(sponsorships[r])
      BY <2>1, <3>2 DEF MarkOverdue
    <3> QED
      BY <3>1, <3>2
  <2>2. CASE \E x \in Rows : DueDatePasses(x)
    BY <2>0, <2>2 DEF DueDatePasses, Sponsorship, TypeOK
  <2> QED
    BY <2>1, <2>2
<1> QED
  BY <1>1, <1>2

\* One request at a time never acts on a row that has changed under it.
LEMMA NothingGetsStale ==
    ASSUME TypeOK, NothingStale, NEW s, Slots = {s}, [Next]_vars
    PROVE  NothingStale'
<1>0. s \in Slots /\ reqs[s] \in Request /\ (OnRow(reqs[s]) => reqs[s].row \in Ids) /\ StillSo(reqs[s])
  BY DEF TypeOK, NothingStale
<1>1. SUFFICES StillSo(reqs[s])'
  BY DEF NothingStale
<1>2. ASSUME UNCHANGED sponsorships, StillSo(reqs'[s])
      PROVE  StillSo(reqs[s])'
  BY <1>2 DEF StillSo, LiveRow, Editable, HasActiveLike, Ids
<1>3. ASSUME reqs'[s].pc \in {"idle", "inserting"}
      PROVE  StillSo(reqs[s])'
  BY <1>3 DEF StillSo
<1>4. ASSUME Goto(s, Idle) PROVE StillSo(reqs[s])'
  BY <1>3, <1>4 DEF Goto, TypeOK, Idle
<1>5. CASE \/ \E d \in Donors, o \in Orphans : StartCreate(s, d, o) \/ StartPropose(s, d, o)
           \/ \E d \in Donors : StartDeleteDonor(s, d)
           \/ \E r \in Ids : Deliver(s, r) \/ Redeliver(s, r) \/ StartClose(s, r)
           \/ \E r \in Ids, to \in DOMAIN Accepts : StartChange(s, r, to)
           \/ \E r \in Ids, amount \in Amounts : StartEdit(s, r, amount)
  BY <1>0, <1>2, <1>5, StartsFresh
<1>6. CASE CheckExisting(s)
  <2> DEFINE req == [reqs[s] EXCEPT !.pc = "inserting"]
  <2>1. req.pc = "inserting"
    BY <1>0, <1>6 DEF CheckExisting, Request, Idle
  <2>2. Goto(s, Idle) \/ Goto(s, req)
    BY <1>6 DEF CheckExisting
  <2>3. Goto(s, req) => reqs'[s] = req
    BY <1>0 DEF Goto, TypeOK
  <2> HIDE DEF req
  <2> QED
    BY <1>3, <1>4, <2>1, <2>2, <2>3
<1>7. CASE LookUpPayment(s)
  <2> DEFINE req == [reqs[s] EXCEPT !.pc = "activating"]
  <2>1. req.pc = "activating" /\ req.row = reqs[s].row /\ req.seen = reqs[s].seen
    BY <1>0, <1>7 DEF LookUpPayment, Request, Idle
  <2>2. UNCHANGED sponsorships /\ (Goto(s, Idle) \/ Goto(s, req))
    BY <1>7 DEF LookUpPayment
  <2>3. Goto(s, req) => reqs'[s] = req
    BY <1>0 DEF Goto, TypeOK
  <2> HIDE DEF req
  <2>4. StillSo(req)
    BY <1>0, <1>7, <2>1 DEF StillSo, LookUpPayment
  <2> QED
    BY <1>2, <1>4, <2>2, <2>3, <2>4
<1>8. CASE \/ CommitCreate(s) \/ CommitPropose(s) \/ Settle(s) \/ CommitChange(s) \/ CommitEdit(s)
           \/ CommitClose(s) \/ CommitDeleteDonor(s) \/ IndexRefuses(s) \/ Crash(s)
  BY <1>4, <1>8 DEF CommitCreate, CommitPropose, Settle, CommitChange, CommitEdit,
     CommitClose, CommitDeleteDonor, IndexRefuses, Crash
<1>9. CASE MarkOverdue \/ \E r \in Rows : DueDatePasses(r)
  <2>1. reqs'[s] = reqs[s]
    BY <1>9 DEF MarkOverdue, DueDatePasses
  <2>2. PICK req : req = reqs[s]
    OBVIOUS
  <2>3. /\ Ids' = Ids
        /\ \A r \in Ids :
             /\ sponsorships'[r].donor = sponsorships[r].donor
             /\ LiveRow(r) <=> LiveRow(r)'
             /\ sponsorships[r].status = "pending" => sponsorships'[r].status = "pending"
             /\ Editable(sponsorships[r].status) => Editable(sponsorships'[r].status)
    BY <1>9, SweepKeeps DEF LiveRow, ActiveLike, Editable
  <2>4. HasActiveLike(req.donor)' => HasActiveLike(req.donor)
    BY <2>3 DEF HasActiveLike, LiveRow
  <2>5. StillSo(req)'
    BY <1>0, <2>2, <2>3, <2>4 DEF StillSo, OnRow, LiveRow, Editable
  <2> QED
    BY <2>1, <2>2, <2>5 DEF StillSo, LiveRow, Editable, HasActiveLike
<1>10. CASE \/ \E r \in Rows : GatewayCharges(r)
            \/ \E d \in Donors : RestoreDonor(d)
            \/ \E o \in Orphans : ApproveOrphan(o) \/ DeleteOrphan(o)
            \/ UNCHANGED vars
  BY <1>0, <1>2, <1>10, OtherType
<1> QED
  BY <1>5, <1>6, <1>7, <1>8, <1>9, <1>10, Steps

\* The table, and the money, as Kafala sees them.
View == [r \in Ids |-> [donor |-> sponsorships[r].donor, orphan |-> sponsorships[r].orphan,
                        stage |-> Stage[sponsorships[r].status], amount |-> sponsorships[r].amount]]
Funded == {r \in Ids : charge[r] = "settled"}

\* The stages of the statuses.
LEMMA StageOfStatus ==
    \A st \in Statuses : /\ Stage[st] = "live" <=> st \in ActiveLike
                         /\ Stage[st] = "live" <=> st \in Indexed
                         /\ Stage[st] = "proposed" <=> st = "pending"
                         /\ Stage[st] = "closed" <=> ~Editable(st)
BY DEF Statuses, Stage, ActiveLike, Indexed, Editable

\* No twin in the index, no other live sponsorship of the pair.
LEMMA NoTwinIsFree ==
    ASSUME TypeOK, NEW r, NEW d, NEW o, Twins(d, o) \ {r} = {}
    PROVE  Promise!Free(r, d, o)
<1>1. \A x \in Ids : sponsorships[x].status \in Statuses
  BY DEF TypeOK, Sponsorship
<1>2. ASSUME NEW x \in Ids \ {r}, View[x].stage = "live"
      PROVE  View[x].donor # d \/ View[x].orphan # o
  <2>1. sponsorships[x].status \in Indexed
    BY <1>1, <1>2, StageOfStatus DEF View
  <2> QED
    BY <2>1 DEF Twins, View
<1> QED
  BY <1>2 DEF Promise!Free, Promise!Live, View

\* A step that moves no row between stages.
LEMMA ViewKept ==
    ASSUME TypeOK, Ids' = Ids,
           \A r \in Ids : /\ sponsorships'[r].donor = sponsorships[r].donor
                          /\ sponsorships'[r].orphan = sponsorships[r].orphan
                          /\ sponsorships'[r].amount = sponsorships[r].amount
                          /\ Stage[sponsorships'[r].status] = Stage[sponsorships[r].status]
    PROVE  View' = View
BY DEF View

\* A commit that writes one row writes one of the view.
LEMMA ViewWritten ==
    ASSUME TypeOK, NEW r \in Ids, Ids' = Ids,
           \A x \in Ids \ {r} : sponsorships'[x] = sponsorships[x],
           sponsorships'[r].donor = sponsorships[r].donor,
           sponsorships'[r].orphan = sponsorships[r].orphan
    PROVE  /\ sponsorships'[r].amount = sponsorships[r].amount
              => View' = [View EXCEPT ![r].stage = Stage[sponsorships'[r].status]]
           /\ sponsorships'[r].status = sponsorships[r].status
              => View' = [View EXCEPT ![r].amount = sponsorships'[r].amount]
BY DEF View

\* Insertions add to the view, and the row added is not funded.
LEMMA InsertPromise ==
    ASSUME LifeInv, NEW s \in Slots, CommitCreate(s) \/ CommitPropose(s)
    PROVE  Promise!Next
<1>1. reqs[s] \in Request /\ reqs[s].pc \in {"inserting", "proposing"}
  BY DEF LifeInv, TypeOK, CommitCreate, CommitPropose
<1>2. PICK d \in Donors, o \in Orphans : d = reqs[s].donor /\ o = reqs[s].orphan
  BY <1>1, RequestFields
<1>3. PICK r \in Rows, a \in Amounts, st \in {"active", "pending"}, due \in {"never", "ahead", "past"} :
         Insert(r, [donor |-> d, orphan |-> o, status |-> st, amount |-> a, due |-> due, months |-> 0])
  <2>1. CASE CommitCreate(s)
    BY <1>2, <2>1 DEF CommitCreate
  <2>2. CASE CommitPropose(s)
    BY <1>2, <2>2 DEF CommitPropose
  <2> QED
    BY <2>1, <2>2
<1> DEFINE sp == [donor |-> d, orphan |-> o, status |-> st, amount |-> a, due |-> due, months |-> 0]
<1>4. /\ r \in Rows \ Ids /\ Ids' = Ids \cup {r}
      /\ sponsorships'[r] = sp
      /\ \A x \in Ids : sponsorships'[x] = sponsorships[x]
      /\ st \in Indexed => Twins(d, o) = {}
  BY <1>3 DEF Insert, Ids
<1>5. st \in Statuses /\ Stage[st] \in {"proposed", "live"}
  BY DEF Statuses, Stage
<1>6. Stage[st] = "live" => Promise!Free(r, d, o)
  BY <1>4, <1>5, StageOfStatus, NoTwinIsFree DEF LifeInv
<1>7. View' = [x \in Ids \cup {r} |->
                 IF x = r THEN [donor |-> d, orphan |-> o, stage |-> Stage[st], amount |-> a] ELSE View[x]]
  BY <1>4 DEF View
<1>8. Funded' = Funded
  BY <1>4 DEF Funded, LifeInv, UnusedIsUncharged, CommitCreate, CommitPropose
<1>9. deleted' = deleted
  BY DEF CommitCreate, CommitPropose
<1>10. DOMAIN View = Ids
  BY DEF View
<1>11. PICK stage \in {"proposed", "live"} : stage = Stage[st]
  BY <1>5
<1>12. Promise!Add(r, d, o, stage, a)
  BY ONLY <1>4, <1>6, <1>7, <1>8, <1>9, <1>10, <1>11 DEF Promise!Add, View, Funded
<1> QED
  BY <1>12 DEF Promise!Next

\* A delivery that settles its charge funds the row, bringing it to life if it
\* was a proposal.
LEMMA SettlePromise ==
    ASSUME LifeInv, NEW s \in Slots, StillSo(reqs[s]), Settle(s)
    PROVE  Promise!Next
<1>1. reqs[s] \in Request /\ ReadKnowsPending(reqs[s]) /\ reqs[s].pc = "activating"
  BY DEF LifeInv, TypeOK, Settle
<1>2. PICK r \in Ids : r = reqs[s].row
  BY DEF LifeInv, TypeOK, OnRow, Settle
<1>3. r \in Rows /\ sponsorships[r] \in Sponsorship /\ charge \in [Rows -> {"none", "reported", "settled", "dropped"}]
      /\ sponsorships \in [Ids -> Sponsorship] /\ TypeOK
  BY DEF LifeInv, TypeOK
<1>4. PICK st : /\ st = Activated(r, reqs[s].seen) /\ ~ClashOf(r, st)
                /\ sponsorships' = [sponsorships EXCEPT ![r].status = st]
                /\ charge' = [charge EXCEPT ![r] = "settled"]
                /\ deleted' = deleted
  BY <1>2 DEF Settle
<1>5. /\ Ids' = Ids
      /\ \A x \in Ids \ {r} : sponsorships'[x] = sponsorships[x]
      /\ sponsorships'[r].donor = sponsorships[r].donor
      /\ sponsorships'[r].orphan = sponsorships[r].orphan
      /\ sponsorships'[r].amount = sponsorships[r].amount
      /\ sponsorships'[r].status = st
  BY <1>3, <1>4 DEF Sponsorship, Ids
<1>6. Funded' = Funded \cup {r}
  BY <1>3, <1>4, <1>5 DEF Funded, TypeOK
<1>7. DOMAIN View = Ids /\ View[r].stage = Stage[sponsorships[r].status]
      /\ View[r].donor = sponsorships[r].donor /\ View[r].orphan = sponsorships[r].orphan
  BY DEF View
<1>8. sponsorships[r].status \in Statuses
  BY <1>3 DEF Sponsorship
<1>9. CASE reqs[s].seen = "pending"
  <2>1. sponsorships[r].status = "pending" /\ st = "active"
    BY <1>1, <1>2, <1>4, <1>9 DEF StillSo, Activated
  <2>2. Twins(sponsorships[r].donor, sponsorships[r].orphan) \ {r} = {}
    BY <1>4, <2>1 DEF ClashOf, Indexed
  <2>3. Promise!Free(r, View[r].donor, View[r].orphan)
    BY <1>3, <1>7, <2>2, NoTwinIsFree
  <2>4. View[r].stage = "proposed" /\ Stage[st] = "live"
    BY <1>7, <2>1 DEF Stage
  <2>5. View' = [View EXCEPT ![r].stage = "live"]
    BY <1>3, <1>5, <2>4, ViewWritten
  <2>6. Promise!Fund(r)
    BY ONLY <1>2, <1>4, <1>6, <1>7, <2>3, <2>4, <2>5 DEF Promise!Fund, View, Funded
  <2> QED
    BY <1>3, <2>6 DEF Promise!Next
<1>10. CASE reqs[s].seen # "pending"
  <2>1. st = sponsorships[r].status /\ sponsorships[r].status # "pending"
    BY <1>1, <1>2, <1>4, <1>10 DEF ReadKnowsPending, Activated
  <2>2. View[r].stage # "proposed"
    BY <1>7, <1>8, <2>1, StageOfStatus
  <2>3. View' = View
    BY <1>3, <1>5, <2>1, ViewKept
  <2>4. Promise!Fund(r)
    BY ONLY <1>2, <1>4, <1>6, <1>7, <2>2, <2>3 DEF Promise!Fund, View, Funded
  <2> QED
    BY <1>3, <2>4 DEF Promise!Next
<1> QED
  BY <1>9, <1>10

\* A pause or a resumption shows nothing, a cancellation closes the row, an edit
\* amends it.
LEMMA ChangePromise ==
    ASSUME LifeInv, NEW s \in Slots, StillSo(reqs[s]), CommitChange(s) \/ CommitEdit(s)
    PROVE  Promise!Next \/ UNCHANGED <<View, Funded, deleted>>
<1>1. reqs[s] \in Request
  BY DEF LifeInv, TypeOK
<1>2. PICK r \in Ids : r = reqs[s].row
  BY DEF LifeInv, TypeOK, OnRow, CommitChange, CommitEdit
<1>3. r \in Rows /\ sponsorships[r] \in Sponsorship /\ sponsorships \in [Ids -> Sponsorship] /\ TypeOK
      /\ sponsorships[r].status \in Statuses
  BY DEF LifeInv, TypeOK, Sponsorship
<1>4. DOMAIN View = Ids /\ View[r].stage = Stage[sponsorships[r].status]
  BY DEF View
<1>5. deleted' = deleted /\ charge' = charge
  BY DEF CommitChange, CommitEdit
<1>6. CASE CommitChange(s)
  <2>1. PICK to \in {"paused", "active", "cancelled"} : to = reqs[s].to
    BY <1>1, <1>6, RequestFields DEF CommitChange
  <2>2. sponsorships' = [sponsorships EXCEPT ![r].status = to]
    BY <1>2, <1>6, <2>1 DEF CommitChange
  <2>3. /\ Ids' = Ids
        /\ \A x \in Ids \ {r} : sponsorships'[x] = sponsorships[x]
        /\ sponsorships'[r].donor = sponsorships[r].donor
        /\ sponsorships'[r].orphan = sponsorships[r].orphan
        /\ sponsorships'[r].amount = sponsorships[r].amount
        /\ sponsorships'[r].status = to
    BY <1>3, <2>2 DEF Sponsorship, Ids
  <2>4. Funded' = Funded
    BY <1>5, <2>3 DEF Funded
  <2>5. CASE to = "cancelled"
    <3>1. View[r].stage # "closed"
      BY <1>2, <1>3, <1>4, <1>6, <2>1, <2>5, StageOfStatus DEF StillSo, CommitChange, ActiveLike
    <3>2. View' = [View EXCEPT ![r].stage = "closed"]
      BY <1>3, <2>3, <2>5, ViewWritten DEF Stage
    <3>3. Promise!Close(r)
      BY ONLY <1>2, <1>4, <1>5, <2>4, <3>1, <3>2 DEF Promise!Close, View, Funded
    <3> QED
      BY <1>3, <3>3 DEF Promise!Next
  <2>6. CASE to # "cancelled"
    <3>1. sponsorships[r].status \in ActiveLike /\ Stage[to] = "live"
      BY <1>2, <1>6, <2>1, <2>6 DEF StillSo, CommitChange, ActiveLike, LiveRow, Stage
    <3>2. Stage[sponsorships'[r].status] = Stage[sponsorships[r].status]
      BY <1>3, <2>3, <3>1, StageOfStatus
    <3>3. View' = View
      BY <1>3, <2>3, <3>2, ViewKept
    <3> QED
      BY <1>5, <2>4, <3>3
  <2> QED
    BY <2>5, <2>6
<1>7. CASE CommitEdit(s)
  <2>1. PICK a \in Amounts : a = reqs[s].amount
    BY <1>1, <1>7, RequestFields DEF CommitEdit
  <2>2. sponsorships' = [sponsorships EXCEPT ![r].amount = a]
    BY <1>2, <1>7, <2>1 DEF CommitEdit
  <2>3. /\ Ids' = Ids
        /\ \A x \in Ids \ {r} : sponsorships'[x] = sponsorships[x]
        /\ sponsorships'[r].donor = sponsorships[r].donor
        /\ sponsorships'[r].orphan = sponsorships[r].orphan
        /\ sponsorships'[r].status = sponsorships[r].status
        /\ sponsorships'[r].amount = a
    BY <1>3, <2>2 DEF Sponsorship, Ids
  <2>4. Funded' = Funded
    BY <1>5, <2>3 DEF Funded
  <2>5. View[r].stage # "closed"
    BY <1>2, <1>3, <1>4, <1>7, StageOfStatus DEF StillSo, CommitEdit
  <2>6. View' = [View EXCEPT ![r].amount = a]
    BY <1>3, <2>3, ViewWritten
  <2>7. Promise!Amend(r, a)
    BY ONLY <1>2, <1>4, <1>5, <2>4, <2>5, <2>6 DEF Promise!Amend, View, Funded
  <2> QED
    BY <1>3, <2>7 DEF Promise!Next
<1> QED
  BY <1>6, <1>7

\* Donors leave when none of their sponsorships is live, and return.
LEMMA DonorPromise ==
    ASSUME LifeInv, \/ \E s \in Slots : StillSo(reqs[s]) /\ CommitDeleteDonor(s)
                    \/ \E d \in Donors : RestoreDonor(d)
    PROVE  Promise!Next
<1>1. UNCHANGED <<sponsorships, charge>>
  BY DEF CommitDeleteDonor, RestoreDonor, OneStep
<1>2. View' = View /\ Funded' = Funded
  BY <1>1 DEF View, Funded, Ids
<1>3. CASE \E s \in Slots : StillSo(reqs[s]) /\ CommitDeleteDonor(s)
  <2>1. PICK s \in Slots : StillSo(reqs[s]) /\ CommitDeleteDonor(s)
    BY <1>3
  <2>2. reqs[s] \in Request /\ reqs[s].pc = "deleting"
    BY <2>1 DEF LifeInv, TypeOK, CommitDeleteDonor
  <2>3. PICK d \in Donors : d = reqs[s].donor
    BY <2>2, RequestFields
  <2>4. ~HasActiveLike(d) /\ deleted' = deleted \cup {d}
    BY <2>1, <2>2, <2>3 DEF StillSo, CommitDeleteDonor
  <2>5. \A r \in Ids : sponsorships[r].status \in Statuses
    BY DEF LifeInv, TypeOK, Sponsorship
  <2>6. DOMAIN View = Ids /\ \A r \in Ids : View[r].donor = d => View[r].stage # "live"
    BY <2>4, <2>5, StageOfStatus DEF HasActiveLike, View
  <2>7. Promise!Leave(d)
    BY ONLY <1>2, <2>4, <2>6 DEF Promise!Leave, Promise!Live, View, Funded
  <2> QED
    BY <2>7 DEF Promise!Next
<1>4. CASE \E d \in Donors : RestoreDonor(d)
  <2>1. PICK d \in Donors : deleted' = deleted \ {d}
    BY <1>4 DEF RestoreDonor
  <2>2. Promise!Return(d)
    BY ONLY <1>2, <2>1 DEF Promise!Return, View, Funded
  <2> QED
    BY <2>2 DEF Promise!Next
<1> QED
  BY <1>3, <1>4

\* Everything else shows nothing.
LEMMA StepPromise ==
    ASSUME LifeInv, NothingStale, [Next]_vars
    PROVE  [Promise!Next]_<<View, Funded, deleted>>
<1>1. CASE \E s \in Slots : CommitCreate(s) \/ CommitPropose(s)
  BY <1>1, InsertPromise
<1>2. CASE \E s \in Slots : Settle(s)
  BY <1>2, SettlePromise DEF NothingStale
<1>3. CASE \E s \in Slots : CommitChange(s) \/ CommitEdit(s)
  BY <1>3, ChangePromise DEF NothingStale
<1>4. CASE \/ \E s \in Slots : CommitDeleteDonor(s)
           \/ \E d \in Donors : RestoreDonor(d)
  BY <1>4, DonorPromise DEF NothingStale
<1>5. ASSUME UNCHANGED <<sponsorships, charge, deleted>>
      PROVE  UNCHANGED <<View, Funded, deleted>>
  BY <1>5 DEF View, Funded, Ids
<1>6. CASE MarkOverdue \/ \E r \in Rows : DueDatePasses(r)
  <2>1. UNCHANGED <<charge, deleted>>
    BY <1>6 DEF MarkOverdue, DueDatePasses
  <2>2. Ids' = Ids /\ View' = View
    <3>1. Stage["active"] = Stage["overdue"]
      BY DEF Stage
    <3> QED
      BY <1>6, <3>1, SweepKeeps, ViewKept DEF LifeInv
  <2> QED
    BY <2>1, <2>2 DEF Funded
<1>7. CASE \E r \in Rows : GatewayCharges(r)
  <2>1. PICK r \in Rows : /\ charge[r] = "none" /\ charge' = [charge EXCEPT ![r] = "reported"]
                          /\ UNCHANGED <<sponsorships, deleted>>
    BY <1>7 DEF GatewayCharges
  <2>2. Funded' = Funded
    BY <2>1 DEF Funded, Ids, LifeInv, TypeOK
  <2> QED
    BY <2>1, <2>2 DEF View, Ids
<1>8. CASE \E s \in Slots :
             \/ \E d \in Donors, o \in Orphans : StartCreate(s, d, o) \/ StartPropose(s, d, o)
             \/ \E d \in Donors : StartDeleteDonor(s, d)
             \/ \E r \in Ids : Deliver(s, r) \/ Redeliver(s, r) \/ StartClose(s, r)
             \/ \E r \in Ids, to \in DOMAIN Accepts : StartChange(s, r, to)
             \/ \E r \in Ids, amount \in Amounts : StartEdit(s, r, amount)
  BY <1>5, <1>8 DEF StartCreate, StartPropose, StartDeleteDonor, Deliver, Redeliver, ReadSponsorship,
     StartClose, StartChange, StartEdit
<1>10. CASE \E s \in Slots : LookUpPayment(s) \/ CommitClose(s)
  <2>1. UNCHANGED sponsorships /\ ChargesKept
    BY <1>10, ContinueType DEF LifeInv
  <2>2. deleted' = deleted /\ Ids' = Ids /\ Ids \subseteq Rows
    BY <1>10, <2>1 DEF LookUpPayment, CommitClose, Ids, LifeInv, TypeOK
  <2>3. Funded' = Funded
    BY <2>1, <2>2 DEF Funded, ChargesKept
  <2> QED
    BY <2>1, <2>2, <2>3 DEF View
<1>9. CASE \/ \E s \in Slots : CheckExisting(s) \/ IndexRefuses(s) \/ Crash(s)
           \/ \E o \in Orphans : ApproveOrphan(o) \/ DeleteOrphan(o)
           \/ UNCHANGED vars
  BY <1>5, <1>9 DEF CheckExisting, IndexRefuses, Crash, ApproveOrphan, DeleteOrphan,
     OneStep, vars
<1> QED
  BY <1>1, <1>2, <1>3, <1>4, <1>6, <1>7, <1>8, <1>9, <1>10, Steps

\* With one request at a time Sponsorships implements Kafala, while the worker,
\* the calendar and the gateway interleave and the process may die anywhere: a
\* pair has one live sponsorship, a proposal lives with the money, a closed one
\* is final, and no donor leaves a live one.
THEOREM OneAtATimeKeepsPromise ==
    ASSUME NEW s, Slots = {s}
    PROVE  Spec => KeepsPromise
<1>1. Init => NothingStale
  BY DEF Init, NothingStale, StillSo, Idle
<1>2. TypeOK /\ NothingStale /\ [Next]_vars => NothingStale'
  BY NothingGetsStale
<1>3. Init => Promise!Init
  BY DEF Init, Promise!Init, Ids
<1>4. LifeInv /\ NothingStale /\ [Next]_vars => [Promise!Next]_<<View, Funded, deleted>>
  BY StepPromise
<1> QED
  BY <1>1, <1>2, <1>3, <1>4, TypeCorrect, LifeInvariant, PTL
     DEF Spec, KeepsPromise, Promise!KafalaSpec, View, Funded
=============================================================================
