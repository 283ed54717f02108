------------------------------ MODULE Workflows ------------------------------
(***************************************************************************)
(* The three tables whose rows people walk from status to status: monthly  *)
(* reports (reports.py), bank transfers to partners (bank_transfers.py)    *)
(* and orphan cases (orphans.py); the web consoles the staff does it with; *)
(* and the Celery task that mails the donors of a published report.        *)
(*                                                                         *)
(* A console shows the statuses it fetched last and offers operations by   *)
(* them.  A click sends a request; its handler reads the row, checks role  *)
(* and status, and commits later, without a lock.  A click that is refused *)
(* changes nothing, not even what the console shows, so it is no step.     *)
(***************************************************************************)
EXTENDS Naturals, Sequences, FiniteSets

CONSTANTS
    Row,         \* rows of the table
    MaxOpen,     \* bound: rows created, per workflow
    Staff,       \* users of the consoles
    Role,        \* their roles
    Registrant,  \* users who register orphans: staff, and guardians for themselves
    Donor,       \* donors with an e-mail address who sponsor the orphan of a report
    Task         \* bound: deliveries of the notification task

Kinds == {"report", "transfer", "case"}
Roles == {"org_admin", "partner_manager", "partner_staff"}

ASSUME WorkflowsAssumption ==
    /\ Row \subseteq Nat /\ IsFiniteSet(Row)
    /\ MaxOpen \in [Kinds -> Nat]
    /\ Role \in [Staff -> Roles]
    /\ IsFiniteSet(Donor)
    /\ Task \subseteq Nat /\ IsFiniteSet(Task)

VARIABLES
    kind,         \* the workflow of this behaviour: the tables share nothing
    rows,         \* the table
    shown,        \* status of each row as the console of each user shows it
    request,      \* request under way per user and button
    registering,  \* registrations past the search for a duplicate
    tasks,        \* deliveries of notify_donors_of_report
    mails,        \* mails sent per report and donor
    raced,        \* history: rows where a commit wrote over a status it had not read
    repeated,     \* history: reports with two runs of the task past the check of the stamp
    lost          \* history: reports whose task never reached a worker, or died with it

vars == <<kind, rows, shown, request, registering, tasks, mails, raced, repeated, lost>>

-----------------------------------------------------------------------------
(* The handlers' tables of transitions.                                    *)

\* mutant: what is executed can still be cancelled
CancellableTooLate == {"pending", "approved", "processing", "completed"}

Cancellable == {"pending", "approved", "processing"}

\* mutant: the partner's approval does for both
StraightToApproved == "org_approved"

\* approve_partner skips the status partner_approved, of which _NEXT speaks.
AfterPartner == "pending_org_approval"

\* The statuses each operation accepts; anything else is a 409.
From == [
  report |-> [
    submit          |-> {"draft"},
    approve_partner |-> {"pending_partner_approval"},
    approve_org     |-> {"pending_org_approval"},
    publish         |-> {"org_approved"},
    reject          |-> {"draft", "pending_partner_approval", "pending_org_approval",
                         "org_approved"}],
  transfer |-> [
    approve         |-> {"pending"},
    mark_completed  |-> {"approved", "processing"},
    confirm_receipt |-> {"completed"},
    cancel          |-> Cancellable],
  case |-> [
    approve         |-> {"pending_review"},
    release         |-> {"approved", "reserved"},
    reject          |-> {"pending_review"}]]

\* The status each operation writes.  confirm_receipt writes none.
To == [
  report |-> [
    submit          |-> "pending_partner_approval",
    approve_partner |-> AfterPartner,
    approve_org     |-> "org_approved",
    publish         |-> "published_to_donor",
    reject          |-> "rejected"],
  transfer |-> [
    approve         |-> "approved",
    mark_completed  |-> "completed",
    cancel          |-> "cancelled"],
  case |-> [
    approve         |-> "approved",
    release         |-> "available",
    reject          |-> "rejected"]]

\* Who may call it; anybody else is answered 403.
Allowed == [
  report   |-> [op \in DOMAIN From.report |->
                  IF op = "submit" THEN Roles ELSE {"org_admin", "partner_manager"}],
  transfer |-> [op \in DOMAIN From.transfer |-> {"org_admin"}],
  case     |-> [op \in DOMAIN From.case |-> {"org_admin", "partner_manager"}]]

First == [report |-> "draft", transfer |-> "pending", case |-> "pending_review"]
Refusal == [report |-> "reject", transfer |-> "cancel", case |-> "reject"]

\* The operations that sign a row off, in their order.
Order == [report   |-> <<"submit", "approve_partner", "approve_org", "publish">>,
          transfer |-> <<"approve", "mark_completed", "confirm_receipt">>,
          case     |-> <<"approve", "release">>]

Ops(k) == DOMAIN From[k]
Statuses(k) == {"absent", First[k]} \cup {To[k][op] : op \in DOMAIN To[k]}

-----------------------------------------------------------------------------
(* The consoles.                                                           *)

\* mutant: the button of the partner's step calls the organisation's
AdminSkipsPartner == [draft                    |-> "submit",
                      pending_partner_approval |-> "approve_org",
                      pending_org_approval     |-> "approve_org",
                      org_approved             |-> "publish"]

\* ADMIN_NEXT_ACTION of ReportsCenterPage.
AdminNext == [draft                    |-> "submit",
              pending_partner_approval |-> "approve_partner",
              pending_org_approval     |-> "approve_org",
              org_approved             |-> "publish"]

\* The manager's NEXT_ACTION, for the reports the tabs of
\* PartnerReportsReviewPage list: those pending, those rejected, and those with
\* the status partner_approved, which nothing sets.
ManagerNext == [pending_partner_approval |-> "approve_partner"]

ReportOffers(role, status) ==
    LET next == [org_admin |-> AdminNext, partner_manager |-> ManagerNext,
                 partner_staff |-> <<>>][role]
    IN  IF status \in DOMAIN next THEN {next[status], "reject"} ELSE {}

\* The buttons of a TransferCard on BankTransfersPage; the partner manager
\* approves on PartnerApprovalsPage and confirms on PartnerTransfersPage.
TransferOffers(role, status) ==
    {op \in CASE role = "org_admin"       -> Ops("transfer")
              [] role = "partner_manager" -> {"approve", "confirm_receipt"}
              [] OTHER                    -> {} : status \in From.transfer[op]}

\* showApproveReject and showRelease of OrphansPage and OrphanDetailPage.
CaseOffers(role, status) ==
    IF role = "partner_staff" THEN {}
    ELSE CASE status = "pending_review"            -> {"approve", "reject"}
           [] status \in {"approved", "reserved"} -> {"release"}
           [] OTHER                                -> {}

Offers(k, role, status) ==
    CASE k = "report"   -> ReportOffers(role, status)
      [] k = "transfer" -> TransferOffers(role, status)
      [] k = "case"     -> CaseOffers(role, status)

\* A mutation disables its buttons while it runs.  Where approval and refusal
\* are disabled separately (ReportsCenterPage), both can be under way.
Buttons == {"next", "refuse"}
ButtonOf(k, op) == IF op = Refusal[k] THEN "refuse" ELSE "next"
Separate(k, u) == k = "report" /\ Role[u] = "org_admin"

Idle == [op |-> "none"]

CanPress(u, b) ==
    /\ request[u][b] = Idle
    /\ Separate(kind, u) \/ \A c \in Buttons : request[u][c] = Idle

-----------------------------------------------------------------------------
Absent == [status |-> "absent", done |-> {}, deleted |-> FALSE, creator |-> "nobody",
           notified |-> FALSE]

NoTask == [st |-> "unused"]

Operations == UNION {Ops(k) : k \in Kinds}

TypeOK ==
    /\ kind \in Kinds
    /\ \A r \in Row :
         /\ rows[r].status \in Statuses(kind)
         /\ rows[r].done \subseteq Ops(kind)
         /\ rows[r].deleted \in BOOLEAN /\ rows[r].notified \in BOOLEAN
         /\ rows[r].status = "absent" => rows[r] = Absent
    /\ \A u \in Staff, r \in Row : shown[u][r] \in Statuses(kind)
    /\ \A u \in Staff, b \in Buttons :
         request[u][b] # Idle => /\ request[u][b].row \in Row
                                 /\ request[u][b].op \in Ops(kind)
                                 /\ ButtonOf(kind, request[u][b].op) = b
                                 /\ request[u][b].read \in From[kind][request[u][b].op]
                                 /\ rows[request[u][b].row].status # "absent"
    /\ registering \subseteq Registrant
    /\ \A i \in Task : tasks[i] # NoTask =>
         /\ tasks[i].row \in Row /\ tasks[i].told \subseteq Donor
         /\ tasks[i].st \in {"queued", "mailing", "over"}
    /\ mails \in [Row -> [Donor -> 0..Cardinality(Task)]]
    /\ raced \subseteq Row /\ repeated \subseteq Row /\ lost \subseteq Row

Init ==
    /\ kind \in Kinds
    /\ rows = [r \in Row |-> Absent]
    /\ shown = [u \in Staff |-> [r \in Row |-> "absent"]]
    /\ request = [u \in Staff |-> [b \in Buttons |-> Idle]]
    /\ registering = {}
    /\ tasks = [i \in Task |-> NoTask]
    /\ mails = [r \in Row |-> [d \in Donor |-> 0]]
    /\ raced = {} /\ repeated = {} /\ lost = {}

-----------------------------------------------------------------------------
(* Creation.                                                               *)

IsNext(r) ==
    /\ rows[r].status = "absent"
    /\ \A q \in Row : q < r => rows[q].status # "absent"
    /\ Cardinality({q \in Row : rows[q].status # "absent"}) < MaxOpen[kind]

\* mutant: a new transfer is taken to be at the bank already
InsertedProcessing(r, u) ==
    [rows EXCEPT ![r] = [Absent EXCEPT !.status = "processing", !.creator = u]]

Inserted(r, u) == [rows EXCEPT ![r] = [Absent EXCEPT !.status = First[kind], !.creator = u]]

\* create_report and create_bank_transfer insert whatever there is already.
Create(u) ==
    /\ kind # "case"
    /\ \E r \in Row : IsNext(r) /\ rows' = Inserted(r, u)
    /\ UNCHANGED <<kind, shown, request, registering, tasks, mails, raced, repeated, lost>>

\* mutant: the duplicate index covers nothing
IndexIgnored == {}

\* idx_orphans_no_duplicate, over rows that are all the same child.
Indexed == {r \in Row : rows[r].status # "absent" /\ ~rows[r].deleted}

\* create_orphan_record, for staff and guardians: the search for a duplicate ...
SearchDuplicate(u) ==
    /\ kind = "case"
    /\ u \notin registering
    /\ ~\E r \in Row : rows[r].status # "absent" /\ ~rows[r].deleted
    /\ registering' = registering \cup {u}
    /\ UNCHANGED <<kind, rows, shown, request, tasks, mails, raced, repeated, lost>>

\* ... and the insertion, or the 409 out of its IntegrityError.
Register(u) ==
    /\ u \in registering
    /\ registering' = registering \ {u}
    /\ IF Indexed # {} THEN UNCHANGED rows
       ELSE \E r \in Row : IsNext(r) /\ rows' = Inserted(r, u)
    /\ UNCHANGED <<kind, shown, request, tasks, mails, raced, repeated, lost>>

\* delete_orphan decides on nothing but the row being there.
DeleteCase(r) ==
    /\ kind = "case" /\ rows[r].status # "absent" /\ ~rows[r].deleted
    /\ rows' = [rows EXCEPT ![r].deleted = TRUE]
    /\ UNCHANGED <<kind, shown, request, registering, tasks, mails, raced, repeated, lost>>

-----------------------------------------------------------------------------
(* Decisions.                                                              *)

\* Segregation of duties: a manager may not approve what they registered.
OwnCase(u, op, row) ==
    kind = "case" /\ op = "approve" /\ Role[u] # "org_admin" /\ row.creator = u

Accepted(u, op, row) ==
    /\ Role[u] \in Allowed[kind][op]
    /\ row.status \in From[kind][op]
    /\ ~row.deleted
    /\ ~OwnCase(u, op, row)

\* A click, and the handler up to its commit.
Click(u, r, op) ==
    /\ op \in Offers(kind, Role[u], shown[u][r])
    /\ CanPress(u, ButtonOf(kind, op))
    /\ Accepted(u, op, rows[r])
    /\ request' = [request EXCEPT ![u][ButtonOf(kind, op)] =
                      [op |-> op, row |-> r, read |-> rows[r].status]]
    /\ UNCHANGED <<kind, rows, shown, registering, tasks, mails, raced, repeated, lost>>

\* publish_report queues the task, after its commit.
Announces(op) == op = "publish"

\* .delay: the task is queued, or the broker is down and nobody is told.
Queue(r) ==
    \/ \E i \in Task :
         /\ tasks[i] = NoTask /\ \A j \in Task : j < i => tasks[j] # NoTask
         /\ tasks' = [tasks EXCEPT ![i] = [st |-> "queued", row |-> r, told |-> {}]]
         /\ UNCHANGED lost
    \/ lost' = lost \cup {r} /\ UNCHANGED tasks

Decided(q) ==
    [rows EXCEPT ![q.row].done = @ \cup {q.op},
                 ![q.row].status = IF q.op \in DOMAIN To[kind] THEN To[kind][q.op] ELSE @]

\* onSuccess invalidates the list: it is fetched again, or the answer is lost
\* and the console goes on with what it had.
Refreshed(u, table) ==
    shown' \in {shown, [shown EXCEPT ![u] = [r \in Row |-> table[r].status]]}

\* The commit: status and stamps, whatever the row has become since it was read.
Commit(u, b) ==
    LET q == request[u][b] IN
    /\ q # Idle
    /\ rows' = Decided(q)
    /\ raced' = IF rows[q.row].status # q.read THEN raced \cup {q.row} ELSE raced
    /\ request' = [request EXCEPT ![u][b] = Idle]
    /\ Refreshed(u, rows')
    /\ IF Announces(q.op) THEN Queue(q.row) ELSE UNCHANGED <<tasks, lost>>
    /\ UNCHANGED <<kind, registering, mails, repeated>>

\* The list is fetched: the page is opened again, or a filter changed.
Fetch(u) ==
    /\ shown' = [shown EXCEPT ![u] = [r \in Row |-> rows[r].status]]
    /\ UNCHANGED <<kind, rows, request, registering, tasks, mails, raced, repeated, lost>>

-----------------------------------------------------------------------------
(* notify_donors_of_report.                                                *)

\* mutant: the stamp is not looked at
NeverNotified(r) == FALSE

AlreadyNotified(r) == rows[r].notified

\* A run that has mailed, or may yet mail, without having stamped.
Mailing(r) == \E i \in Task : tasks[i].st # "unused" /\ tasks[i].row = r
                              /\ (tasks[i].st = "mailing" \/ tasks[i].told # {})

StartTask(i) ==
    /\ tasks[i].st = "queued"
    /\ IF AlreadyNotified(tasks[i].row)
       THEN tasks' = [tasks EXCEPT ![i].st = "over"] /\ UNCHANGED repeated
       ELSE /\ tasks' = [tasks EXCEPT ![i].st = "mailing"]
            /\ repeated' = IF Mailing(tasks[i].row) /\ ~rows[tasks[i].row].notified
                           THEN repeated \cup {tasks[i].row} ELSE repeated
    /\ UNCHANGED <<kind, rows, shown, request, registering, mails, raced, lost>>

\* mutant: the exception of one bad recipient ends the task
Aborted(i, d) == [tasks EXCEPT ![i].st = "over"]

\* "one bad recipient must not abort the rest"
Skipped(i, d) == [tasks EXCEPT ![i].told = @ \cup {d}]

Mail(i, d) ==
    /\ tasks[i].st = "mailing" /\ d \notin tasks[i].told
    /\ \/ /\ mails' = [mails EXCEPT ![tasks[i].row][d] = @ + 1]
          /\ tasks' = [tasks EXCEPT ![i].told = @ \cup {d}]
       \/ /\ UNCHANGED mails
          /\ tasks' = Skipped(i, d)
    /\ UNCHANGED <<kind, rows, shown, request, registering, raced, repeated, lost>>

Stamp(i) ==
    /\ tasks[i].st = "mailing" /\ tasks[i].told = Donor
    /\ rows' = [rows EXCEPT ![tasks[i].row].notified = TRUE]
    /\ tasks' = [tasks EXCEPT ![i].st = "over"]
    /\ UNCHANGED <<kind, shown, request, registering, mails, raced, repeated, lost>>

\* A task is acknowledged when a worker takes it: it dies with the worker.
WorkerDies(i) ==
    /\ tasks[i].st = "mailing"
    /\ tasks' = [tasks EXCEPT ![i].st = "over"]
    /\ lost' = lost \cup {tasks[i].row}
    /\ UNCHANGED <<kind, rows, shown, request, registering, mails, raced, repeated>>

\* "the task can be retried out of band": an operator queues it once more.
Replay(r) ==
    /\ kind = "report" /\ "publish" \in rows[r].done
    /\ Queue(r)
    /\ UNCHANGED <<kind, rows, shown, request, registering, mails, raced, repeated>>

-----------------------------------------------------------------------------
TaskStep(i) == StartTask(i) \/ Stamp(i) \/ \E d \in Donor : Mail(i, d)

Next ==
    \/ \E u \in Staff : Create(u) \/ Fetch(u)
    \/ \E u \in Registrant : SearchDuplicate(u) \/ Register(u)
    \/ \E r \in Row : DeleteCase(r) \/ Replay(r)
    \/ \E u \in Staff, r \in Row : \E op \in Ops(kind) : Click(u, r, op)
    \/ \E u \in Staff, b \in Buttons : Commit(u, b)
    \/ \E i \in Task : TaskStep(i) \/ WorkerDies(i)

\* Celery runs what is queued, and a run goes on to its end.
Spec == Init /\ [][Next]_vars /\ \A i \in Task : WF_vars(TaskStep(i))

-----------------------------------------------------------------------------
(* Reports, transfers and cases collect their signatures in order: nothing *)
(* is published without the partner's and the organisation's approval,     *)
(* completed without approval or confirmed without completion, and no case *)
(* enters the pool unapproved, however requests of the consoles overlap.   *)
Signed == INSTANCE Signatures WITH
              Item   <- Row,
              Orders <- {Order[k] : k \in Kinds},
              order  <- Order[kind],
              signed <- [r \in Row |-> rows[r].done \ {Refusal[kind]}]

SignsInOrder == Signed!Spec

(* Only decisions that overlap contradict each other: a report both        *)
(* rejected and published, a transfer both cancelled and completed, a case *)
(* both rejected and approved was decided by two requests of which one     *)
(* wrote over a status it had not read (_check_transition, _transition,    *)
(* _check_case_transition test a row nobody has locked).                   *)
DecidedOnce ==
    \A r \in Row \ raced :
        LET final == [report |-> "publish", transfer |-> "mark_completed", case |-> "approve"]
        IN  ~({Refusal[kind], final[kind]} \subseteq rows[r].done)

(* One child is registered once: staff and guardian may register the same  *)
(* child at the same moment, and a deleted record may be followed by a new *)
(* one (create_orphan_record and its backstop).                            *)
OneRecordPerChild == kind = "case" => Cardinality({r \in Row :
                         rows[r].status # "absent" /\ ~rows[r].deleted}) <= 1

(* What a console offers by an up-to-date list is accepted, when nobody    *)
(* else decides meanwhile and the case is not the user's own; and the      *)
(* admin's console leaves no row without a way on.  (Of transfers this     *)
(* holds for the organisation's staff only, see README.)                   *)
Fresh(u, r) ==
    /\ rows[r].status # "absent" /\ ~rows[r].deleted
    /\ shown[u][r] = rows[r].status
    /\ \A v \in Staff, b \in Buttons : request[v][b] = Idle

Finished == {"published_to_donor", "rejected", "cancelled", "completed", "available"}

OfferedIsAccepted ==
    \A u \in Staff, r \in Row : Fresh(u, r) =>
        LET offers == Offers(kind, Role[u], shown[u][r]) IN
        /\ kind # "transfer" \/ Role[u] # "partner_manager"
           => \A op \in offers : Accepted(u, op, rows[r]) \/ OwnCase(u, op, rows[r])
        /\ Role[u] = "org_admin" /\ rows[r].status \notin Finished => offers # {}

(* "checks donors_notified_at first and stamps it on success so a Celery   *)
(* retry won't double-send" (notify_donors_of_report): a donor hears of a  *)
(* report twice only if one run of the task began while another was past   *)
(* the check, or had died on the way to the stamp; of one not published    *)
(* never, although the task does not look at the status.                   *)
OneMailUnlessRepeated ==
    \A r \in Row, d \in Donor :
        /\ mails[r][d] > 0 => "publish" \in rows[r].done
        /\ mails[r][d] > 1 => r \in repeated

(* A published report is stamped as announced in the end, unless the       *)
(* broker was down or the worker died: publish_report swallows the one,    *)
(* the early acknowledgement the other.  What is published stays so, so    *)
(* each report is announced when again and again none is left over.        *)
PublishedIsAnnounced ==
    []<>(\A r \in Row : "publish" \in rows[r].done => rows[r].notified \/ r \in lost)
=============================================================================
