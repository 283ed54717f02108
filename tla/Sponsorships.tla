---------------------------- MODULE Sponsorships ----------------------------
(***************************************************************************)
(* The life of sponsorships: created by staff (api/v1/sponsorships.py) or  *)
(* proposed by a donor (api/v1/donor_self.py), activated by the webhook of *)
(* their first payment (api/v1/webhooks.py), edited, paused, resumed and   *)
(* cancelled by staff, marked overdue by the nightly worker                *)
(* (workers/tasks/sponsorships.py), and what deleting a donor checks       *)
(* (api/v1/donors.py).                                                     *)
(*                                                                         *)
(* As in PaymentLedger a request reads rows with plain SELECTs, one step   *)
(* per read that matters, and writes and commits in its last step.  The    *)
(* worker is one bulk UPDATE, which tests and writes each row atomically.  *)
(* A partial unique index of PostgreSQL guards every write; no handler     *)
(* catches the IntegrityError it raises.                                   *)
(***************************************************************************)
EXTENDS Integers

CONSTANTS
    Slots,        \* requests the API can be serving at the same moment
    Rows,         \* ids the sponsorships table can hand out (a bound)
    Donors,
    Orphans,
    Amounts,      \* monthly amounts staff choose from
    Ops,          \* staff and donor operations in use, and "crash"
    MaxRequests   \* bound on those operations, redeliveries and crashes

Statuses   == {"pending", "active", "paused", "overdue", "cancelled", "completed"}
ActiveLike == {"active", "paused", "overdue"}

\* mutant: an index that forgets the paused ones
IndexedUnpaused == {"active", "overdue"}

\* idx_sponsorships_no_duplicate: WHERE status IN (...)
Indexed == {"active", "paused", "overdue"}

ASSUME SponsorshipsAssumption == MaxRequests \in Nat

VARIABLES
    sponsorships,  \* the table: a function of the ids in use
    deleted,       \* donors with deleted_at set
    orphans,       \* "hidden" from donors, "browseable" or "deleted"
    charge,        \* Paid report of a row's first invoice: none, reported (and
                   \* not answered 200), settled, or dropped as a duplicate
    closed,        \* rows whose first payment something else than a Paid report
                   \* took out of pending and processing
    reqs,          \* what each slot is doing, with all it has read so far
    requests       \* bound counter for MaxRequests

vars == <<sponsorships, deleted, orphans, charge, closed, reqs, requests>>

\* next_payment_date is NULL ("never"), today or later ("ahead"), or "past".
Sponsorship ==
    [donor : Donors, orphan : Orphans, status : Statuses, amount : Amounts,
     due : {"never", "ahead", "past"}, months : Nat]

Idle == [pc |-> "idle"]
Request ==
    {Idle}
    \cup [pc : {"creating", "inserting", "proposing"}, donor : Donors,
          orphan : Orphans]
    \cup [pc : {"sponsorshipRead", "activating"}, row : Rows, seen : Statuses]
    \cup [pc : {"closing"}, row : Rows]
    \cup [pc : {"changing"}, row : Rows, to : {"paused", "active", "cancelled"}]
    \cup [pc : {"editing"}, row : Rows, amount : Amounts]
    \cup [pc : {"deleting"}, donor : Donors]

Ids == DOMAIN sponsorships

\* A request that works on a row of the table.
OnRow(req) == req.pc \in {"sponsorshipRead", "activating", "closing", "changing", "editing"}

TypeOK ==
    /\ Ids \subseteq Rows
    /\ sponsorships \in [Ids -> Sponsorship]
    /\ deleted \subseteq Donors
    /\ orphans \in [Orphans -> {"hidden", "browseable", "deleted"}]
    /\ charge \in [Rows -> {"none", "reported", "settled", "dropped"}]
    /\ closed \subseteq Rows
    /\ reqs \in [Slots -> Request]
    /\ \A s \in Slots : OnRow(reqs[s]) => reqs[s].row \in Ids
    /\ requests \in Nat

Init ==
    /\ sponsorships = << >>
    /\ deleted = {}
    /\ orphans \in [Orphans -> {"hidden", "browseable"}]
    /\ charge = [r \in Rows |-> "none"]
    /\ closed = {}
    /\ reqs = [s \in Slots |-> Idle]
    /\ requests = 0

-----------------------------------------------------------------------------
Goto(s, req) == reqs' = [reqs EXCEPT ![s] = req]

Begin(s, op, req) ==
    /\ op \in Ops /\ reqs[s] = Idle
    /\ requests < MaxRequests /\ requests' = requests + 1
    /\ Goto(s, req)

\* The rows of this donor and orphan that are in the index.
Twins(d, o) == {x \in Ids : /\ sponsorships[x].donor = d /\ sponsorships[x].orphan = o
                            /\ sponsorships[x].status \in Indexed}

\* Would writing this status to row r break the index?
ClashOf(r, status) ==
    status \in Indexed /\ Twins(sponsorships[r].donor, sponsorships[r].orphan) \ {r} # {}

Insert(r, sp) ==
    /\ r \in Rows \ Ids
    /\ sp.status \in Indexed => Twins(sp.donor, sp.orphan) = {}
    /\ sponsorships' = [x \in Ids \cup {r} |-> IF x = r THEN sp ELSE sponsorships[x]]

-----------------------------------------------------------------------------
(* Staff create, a donor proposes.                                         *)

\* The donor must exist, deleted or not; the orphan must not be deleted.
StartCreate(s, d, o) ==
    /\ orphans[o] # "deleted" /\ Ids # Rows
    /\ Begin(s, "create", [pc |-> "creating", donor |-> d, orphan |-> o])
    /\ UNCHANGED <<sponsorships, deleted, orphans, charge, closed>>

\* 409 when the donor has this orphan already.
CheckExisting(s) ==
    /\ reqs[s].pc = "creating"
    /\ Goto(s, IF \E x \in Ids : /\ sponsorships[x].donor = reqs[s].donor
                                 /\ sponsorships[x].orphan = reqs[s].orphan
                                 /\ sponsorships[x].status \in ActiveLike
               THEN Idle ELSE [reqs[s] EXCEPT !.pc = "inserting"])
    /\ UNCHANGED <<sponsorships, deleted, orphans, charge, closed, requests>>

\* start_date is the caller's: the first payment may be due already.
CommitCreate(s) ==
    /\ reqs[s].pc = "inserting"
    /\ \E r \in Rows, amount \in Amounts, due \in {"ahead", "past"} :
         Insert(r, [donor |-> reqs[s].donor, orphan |-> reqs[s].orphan,
                    status |-> "active", amount |-> amount, due |-> due, months |-> 0])
    /\ Goto(s, Idle)
    /\ UNCHANGED <<deleted, orphans, charge, closed, requests>>

\* create_my_sponsorship asks for an orphan donors can browse, nothing else.
StartPropose(s, d, o) ==
    /\ orphans[o] = "browseable" /\ Ids # Rows
    /\ Begin(s, "propose", [pc |-> "proposing", donor |-> d, orphan |-> o])
    /\ UNCHANGED <<sponsorships, deleted, orphans, charge, closed>>

\* No next_payment_date, and a status outside the index.
CommitPropose(s) ==
    /\ reqs[s].pc = "proposing"
    /\ \E r \in Rows, amount \in Amounts :
         Insert(r, [donor |-> reqs[s].donor, orphan |-> reqs[s].orphan,
                    status |-> "pending", amount |-> amount, due |-> "never", months |-> 0])
    /\ Goto(s, Idle)
    /\ UNCHANGED <<deleted, orphans, charge, closed, requests>>

-----------------------------------------------------------------------------
(* The first payment.                                                      *)

\* The donor pays at the gateway, which is going to tell us (external).
GatewayCharges(r) ==
    /\ r \in Ids /\ charge[r] = "none"
    /\ charge' = [charge EXCEPT ![r] = "reported"]
    /\ UNCHANGED <<sponsorships, deleted, orphans, closed, reqs, requests>>

InFlight(r) == \E s \in Slots :
    reqs[s].pc \in {"sponsorshipRead", "activating"} /\ reqs[s].row = r

\* _process_myfatoorah_payload reads the sponsorship, then the payment.
ReadSponsorship(s, r) ==
    /\ reqs[s] = Idle
    /\ Goto(s, [pc |-> "sponsorshipRead", row |-> r, seen |-> sponsorships[r].status])
    /\ UNCHANGED <<sponsorships, deleted, orphans, charge, closed>>

Deliver(s, r) ==
    /\ charge[r] = "reported" /\ ~InFlight(r)
    /\ ReadSponsorship(s, r)
    /\ UNCHANGED requests

Redeliver(s, r) ==
    /\ charge[r] \in {"settled", "dropped"} \/ InFlight(r)
    /\ "redeliver" \in Ops /\ requests < MaxRequests /\ requests' = requests + 1
    /\ ReadSponsorship(s, r)

\* mutant: a charge that has been reported counts as a duplicate
AlreadySeen(r) == charge[r] # "none"

\* The payment is neither pending nor processing, whatever else it is.
Duplicate(r) == charge[r] = "settled" \/ r \in closed

\* A duplicate is answered 200 and changes nothing, the first time as well: the
\* gateway is never going to report the charge again.
LookUpPayment(s) ==
    /\ reqs[s].pc = "sponsorshipRead"
    /\ LET r == reqs[s].row IN
         IF Duplicate(r)
         THEN /\ Goto(s, Idle)
              /\ charge' = [charge EXCEPT ![r] = IF @ = "settled" THEN @ ELSE "dropped"]
         ELSE Goto(s, [reqs[s] EXCEPT !.pc = "activating"]) /\ UNCHANGED charge
    /\ UNCHANGED <<sponsorships, deleted, orphans, closed, requests>>

\* What takes the first payment out of pending without its charge: a Failed
\* report (an earlier attempt on the same invoice), a refund or RefundFailed report
\* that overtakes the Paid one, a status set by ops.  None looks at sponsorships.
StartClose(s, r) ==
    /\ ~Duplicate(r)
    /\ Begin(s, "close", [pc |-> "closing", row |-> r])
    /\ UNCHANGED <<sponsorships, deleted, orphans, charge, closed>>

CommitClose(s) ==
    /\ reqs[s].pc = "closing"
    /\ closed' = closed \cup {reqs[s].row}
    /\ Goto(s, Idle)
    /\ UNCHANGED <<sponsorships, deleted, orphans, charge, requests>>

\* mutants: no activation; activation of whatever is not live
Unmoved(r, seen)    == sponsorships[r].status
Reactivated(r, seen) == IF seen \notin ActiveLike THEN "active" ELSE sponsorships[r].status

\* Activates a sponsorship READ as pending.
Activated(r, seen) == IF seen = "pending" THEN "active" ELSE sponsorships[r].status

Settle(s) ==
    /\ reqs[s].pc = "activating"
    /\ LET r == reqs[s].row  status == Activated(r, reqs[s].seen) IN
         /\ ~ClashOf(r, status)
         /\ sponsorships' = [sponsorships EXCEPT ![r].status = status]
         /\ charge' = [charge EXCEPT ![r] = "settled"]
    /\ Goto(s, Idle)
    /\ UNCHANGED <<deleted, orphans, closed, requests>>

-----------------------------------------------------------------------------
(* Staff change a sponsorship.                                             *)

\* mutant: anything that is not cancelled can be resumed
ResumeAny == [paused |-> {"active"}, active |-> Statuses \ {"cancelled", "completed"},
              cancelled |-> Statuses \ {"cancelled", "completed"}]

\* What pause, resume and cancel accept; anything else is a 409.
Accepts == [paused |-> {"active"}, active |-> {"paused"},
            cancelled |-> Statuses \ {"cancelled", "completed"}]

StartChange(s, r, to) ==
    /\ sponsorships[r].status \in Accepts[to]
    /\ Begin(s, "change", [pc |-> "changing", row |-> r, to |-> to])
    /\ UNCHANGED <<sponsorships, deleted, orphans, charge, closed>>

CommitChange(s) ==
    /\ reqs[s].pc = "changing"
    /\ ~ClashOf(reqs[s].row, reqs[s].to)
    /\ sponsorships' = [sponsorships EXCEPT ![reqs[s].row].status = reqs[s].to]
    /\ Goto(s, Idle)
    /\ UNCHANGED <<deleted, orphans, charge, closed, requests>>

\* mutant: the immutability check forgotten
AnyStatus(status) == TRUE

Editable(status) == status \notin {"cancelled", "completed"}

StartEdit(s, r, amount) ==
    /\ Editable(sponsorships[r].status)
    /\ Begin(s, "edit", [pc |-> "editing", row |-> r, amount |-> amount])
    /\ UNCHANGED <<sponsorships, deleted, orphans, charge, closed>>

CommitEdit(s) ==
    /\ reqs[s].pc = "editing"
    /\ sponsorships' = [sponsorships EXCEPT ![reqs[s].row].amount = reqs[s].amount]
    /\ Goto(s, Idle)
    /\ UNCHANGED <<deleted, orphans, charge, closed, requests>>

\* IntegrityError: 500, nothing written, no row in inbound_webhook_log either.
IndexRefuses(s) ==
    /\ \/ reqs[s].pc = "inserting" /\ Twins(reqs[s].donor, reqs[s].orphan) # {}
       \/ reqs[s].pc = "activating" /\ reqs[s].seen = "pending" /\ ClashOf(reqs[s].row, "active")
       \/ reqs[s].pc = "changing" /\ ClashOf(reqs[s].row, reqs[s].to)
    /\ Goto(s, Idle)
    /\ UNCHANGED <<sponsorships, deleted, orphans, charge, closed, requests>>
-----------------------------------------------------------------------------
(* The nightly worker and the calendar.                                    *)

DueDatePasses(r) ==
    /\ r \in Ids /\ sponsorships[r].due = "ahead"
    /\ sponsorships' = [sponsorships EXCEPT ![r].due = "past"]
    /\ UNCHANGED <<deleted, orphans, charge, closed, reqs, requests>>

\* mutant: months_overdue counted down
MarkedDown(sp) == [sp EXCEPT !.status = "overdue", !.months = @ - 1]

Late(sp)   == sp.status = "active" /\ sp.due = "past"
Marked(sp) == [sp EXCEPT !.status = "overdue", !.months = @ + 1]

MarkOverdue ==
    /\ \E r \in Ids : Late(sponsorships[r])
    /\ sponsorships' = [r \in Ids |-> IF Late(sponsorships[r]) THEN Marked(sponsorships[r])
                                      ELSE sponsorships[r]]
    /\ UNCHANGED <<deleted, orphans, charge, closed, reqs, requests>>

-----------------------------------------------------------------------------
(* Donors and orphans.                                                     *)

\* mutant: only active sponsorships protect a donor from deletion
HasActive(d) == \E r \in Ids : sponsorships[r].donor = d /\ sponsorships[r].status = "active"

HasActiveLike(d) == \E r \in Ids :
    sponsorships[r].donor = d /\ sponsorships[r].status \in ActiveLike

StartDeleteDonor(s, d) ==
    /\ d \notin deleted /\ ~HasActiveLike(d)
    /\ Begin(s, "donor", [pc |-> "deleting", donor |-> d])
    /\ UNCHANGED <<sponsorships, deleted, orphans, charge, closed>>

CommitDeleteDonor(s) ==
    /\ reqs[s].pc = "deleting"
    /\ deleted' = deleted \cup {reqs[s].donor}
    /\ Goto(s, Idle)
    /\ UNCHANGED <<sponsorships, orphans, charge, closed, requests>>

\* A request whose write depends on nothing it read but its own guard.
OneStep(op) ==
    /\ op \in Ops /\ \E s \in Slots : reqs[s] = Idle
    /\ requests < MaxRequests /\ requests' = requests + 1
    /\ UNCHANGED <<sponsorships, charge, closed, reqs>>

RestoreDonor(d) ==
    /\ d \in deleted /\ deleted' = deleted \ {d}
    /\ OneStep("donor") /\ UNCHANGED orphans

ApproveOrphan(o) ==
    /\ orphans[o] = "hidden" /\ orphans' = [orphans EXCEPT ![o] = "browseable"]
    /\ OneStep("orphan") /\ UNCHANGED deleted

\* delete_orphan does not look at sponsorships.
DeleteOrphan(o) ==
    /\ orphans[o] # "deleted" /\ orphans' = [orphans EXCEPT ![o] = "deleted"]
    /\ OneStep("orphan") /\ UNCHANGED deleted

\* The worker process dies: its transaction is rolled back.
Crash(s) ==
    /\ reqs[s] # Idle /\ "crash" \in Ops
    /\ requests < MaxRequests /\ requests' = requests + 1
    /\ Goto(s, Idle)
    /\ UNCHANGED <<sponsorships, deleted, orphans, charge, closed>>
-----------------------------------------------------------------------------
Webhook(s) == LookUpPayment(s) \/ Settle(s) \/ CommitClose(s)
Write(s)   == CheckExisting(s) \/ CommitCreate(s) \/ CommitPropose(s) \/ CommitChange(s)
              \/ CommitEdit(s) \/ CommitDeleteDonor(s)

Next ==
    \/ \E s \in Slots :
         \/ \E d \in Donors, o \in Orphans : StartCreate(s, d, o) \/ StartPropose(s, d, o)
         \/ \E d \in Donors : StartDeleteDonor(s, d)
         \/ \E r \in Ids : \/ Deliver(s, r) \/ Redeliver(s, r) \/ StartClose(s, r)
                           \/ \E to \in DOMAIN Accepts : StartChange(s, r, to)
                           \/ \E amount \in Amounts : StartEdit(s, r, amount)
         \/ Webhook(s) \/ Write(s) \/ IndexRefuses(s) \/ Crash(s)
    \/ \E r \in Rows : GatewayCharges(r) \/ DueDatePasses(r)
    \/ MarkOverdue
    \/ \E d \in Donors : RestoreDonor(d)
    \/ \E o \in Orphans : ApproveOrphan(o) \/ DeleteOrphan(o)

Spec == Init /\ [][Next]_vars

(* A handler that started runs on, to its commit or to the IntegrityError;  *)
(* the gateway keeps delivering what it has not had a 200 for; the worker   *)
(* runs every night (workers/celery_app.py, beat_schedule).                 *)
Fairness ==
    /\ \A s \in Slots : WF_vars(Webhook(s) \/ Write(s) \/ IndexRefuses(s))
    /\ \A r \in Rows : SF_vars(\E s \in Slots : Deliver(s, r))
    /\ WF_vars(MarkOverdue)

FairSpec == Spec /\ Fairness
-----------------------------------------------------------------------------
(* Properties.                                                             *)

\* A status seen from outside.
Stage == [pending |-> "proposed", active |-> "live", paused |-> "live",
          overdue |-> "live", cancelled |-> "closed", completed |-> "closed"]

\* A donor sponsors an orphan once at a time ("CRITICAL: Prevent duplicate
\* sponsorships", 01_database_schema.sql), however creations, activations,
\* resumptions and cancellations overlap.
OnePerPair ==
    \A x, y \in Ids :
        /\ sponsorships[x].donor = sponsorships[y].donor
        /\ sponsorships[x].orphan = sponsorships[y].orphan
        /\ sponsorships[x].status \in ActiveLike /\ sponsorships[y].status \in ActiveLike
        => x = y

\* What a donor proposed never goes live before a payment of it has settled,
\* through stale changes and crashes (donor_self.py, webhooks.py).  A proposal
\* is the row without a next_payment_date.
PaidBeforeLive ==
    \A r \in Ids : sponsorships[r].due = "never" /\ sponsorships[r].status \in ActiveLike
                   => charge[r] = "settled"

\* "the linked sponsorship's status moves from pending -> active" with the
\* payment (myfatoorah.md): a charge we have settled never leaves it pending, and
\* one we have answered 200 does so only if something else than the charge had
\* closed the payment: then the Paid report was a duplicate (webhooks.py,
\* _process_myfatoorah_payload).
SettledIsNotPending ==
    \A r \in Ids :
        charge[r] = "settled" \/ (charge[r] = "dropped" /\ r \notin closed)
            => sponsorships[r].status # "pending"

AwaitsActivation(r) ==
    r \in Ids /\ sponsorships[r].status = "pending" /\ charge[r] \in {"reported", "dropped"}

\* A proposal that is paid for does not stay pending: its "status moves from
\* pending -> active" (myfatoorah.md; webhooks.py, myfatoorah_webhook).
PaidActivates == \A r \in Rows : AwaitsActivation(r) ~> ~AwaitsActivation(r)

\* A charge is settled unless the donor has another live sponsorship of the same
\* orphan, or the report was dropped because the payment had been closed before,
\* through redeliveries and crashes (webhooks.py, _run_and_log).
PaidActivatesUnlessTwin ==
    \A r \in Rows : charge[r] = "reported" ~>
        \/ charge[r] = "settled"
        \/ charge[r] = "dropped" /\ r \in closed
        \/ r \in Ids /\ ClashOf(r, "active")

-----------------------------------------------------------------------------
\* What the table promises, seen from outside.
Promise == INSTANCE Kafala WITH
    kafalat <- [r \in Ids |-> [donor |-> sponsorships[r].donor,
                               orphan |-> sponsorships[r].orphan,
                               stage |-> Stage[sponsorships[r].status],
                               amount |-> sponsorships[r].amount]],
    funded <- {r \in Ids : charge[r] = "settled"},
    left <- deleted

\* One request at a time implements it, with the nightly worker and the gateway
\* interleaving and the process dying anywhere (all the handlers above).
KeepsPromise == Promise!KafalaSpec
=============================================================================
