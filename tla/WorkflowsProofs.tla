-------------------------- MODULE WorkflowsProofs --------------------------
(***************************************************************************)
(* TLAPS proofs about Workflows, for any number of rows, consoles, roles,  *)
(* donors and deliveries of the notification task: what each status        *)
(* attests, who may have decided, and which run of the task mailed.        *)
(***************************************************************************)
EXTENDS Workflows, FiniteSetTheorems, TLAPS

-----------------------------------------------------------------------------
(* The inductive invariant.                                                *)

AllStatuses == UNION {Statuses(k) : k \in Kinds}
RowRecord == [status : AllStatuses, done : SUBSET Operations, deleted : BOOLEAN,
              creator : Staff \cup Registrant \cup {"nobody"}, notified : BOOLEAN]
Request == [op : Operations, row : Row, read : AllStatuses]
Delivery == [st : {"queued", "mailing", "over"}, row : Row, told : SUBSET Donor]

\* The shape of the state, whatever the workflow.
ShapeOK ==
    /\ kind \in Kinds
    /\ rows \in [Row -> RowRecord]
    /\ shown \in [Staff -> [Row -> AllStatuses]]
    /\ request \in [Staff -> [Buttons -> Request \cup {Idle}]]
    /\ registering \subseteq Registrant
    /\ tasks \in [Task -> Delivery \cup {NoTask}]
    /\ mails \in [Row -> [Donor -> Nat]]
    /\ raced \subseteq Row /\ repeated \subseteq Row /\ lost \subseteq Row

\* What is on record belongs to the workflow, and to a row that has been created.
RowsInv ==
    /\ \A r \in Row : /\ rows[r].status \in Statuses(kind)
                      /\ rows[r].done \subseteq Ops(kind)
                      /\ rows[r].status = "absent" => rows[r] = Absent
    /\ \A u \in Staff, r \in Row : shown[u][r] \in Statuses(kind)

RequestsInv ==
    \A u \in Staff, b \in Buttons : request[u][b] # Idle =>
        LET q == request[u][b] IN
        /\ q.op \in Ops(kind) /\ ButtonOf(kind, q.op) = b
        /\ q.read \in From[kind][q.op]
        /\ rows[q.row].status # "absent"

\* The number of signatures a row had, at least, when it was given a status.
Attests(k, status) ==
    CASE k = "report"   -> (CASE status = "pending_partner_approval" -> 1
                              [] status = "pending_org_approval"     -> 2
                              [] status = "org_approved"             -> 3
                              [] status = "published_to_donor"       -> 4
                              [] OTHER                               -> 0)
      [] k = "transfer" -> (CASE status \in {"approved", "processing"} -> 1
                              [] status = "completed"                  -> 2
                              [] OTHER                                 -> 0)
      [] k = "case"     -> (CASE status \in {"approved", "reserved"} -> 1
                              [] status = "available"                -> 2
                              [] OTHER                               -> 0)

FirstSignatures(k, n) == {Order[k][i] : i \in 1..n}

Collected(r) == rows[r].done \ {Refusal[kind]}

\* Why SignsInOrder is kept: a row has the first n signatures of its workflow,
\* and no status, on record or read by a handler, attests more of them.
SignedInv ==
    \A r \in Row : \E n \in 0..Len(Order[kind]) :
        /\ Collected(r) = FirstSignatures(kind, n)
        /\ Attests(kind, rows[r].status) <= n
        /\ \A u \in Staff, b \in Buttons :
             request[u][b] # Idle /\ request[u][b].row = r
             => Attests(kind, request[u][b].read) <= n

Final == [report |-> "publish", transfer |-> "mark_completed", case |-> "approve"]

\* The statuses of a row that has its final signature.
Settled == [report |-> {"published_to_donor"}, transfer |-> {"completed"},
            case |-> {"approved", "available"}]

\* Why DecidedOnce is kept: where no decision was written over, the status tells
\* which decision was made.
DecidedInv ==
    \A r \in Row \ raced :
        /\ Refusal[kind] \in rows[r].done => rows[r].status = To[kind][Refusal[kind]]
        /\ Final[kind] \in rows[r].done => rows[r].status \in Settled[kind]

\* At most one record of the child is not deleted.
SingleInv == kind = "case" => \A r, s \in Indexed : r = s

\* A run that has mailed, or may yet mail, without being known to have ended well.
Active(i) == tasks[i] # NoTask /\ (tasks[i].st = "mailing" \/ tasks[i].told # {})

\* The runs that got as far as donor d of report r.
RunsTo(r, d) == {i \in Task : tasks[i] # NoTask /\ tasks[i].row = r /\ d \in tasks[i].told}

\* Why OneMailUnlessRepeated is kept: only published reports have tasks, a mail
\* is the mail of a run, and a report has one active run unless it is marked.
TasksInv ==
    /\ \A i \in Task : tasks[i] # NoTask =>
         /\ "publish" \in rows[tasks[i].row].done
         /\ tasks[i].st = "queued" => tasks[i].told = {}
    /\ \A r \in Row, d \in Donor : mails[r][d] <= Cardinality(RunsTo(r, d))
    /\ \A i, j \in Task : Active(i) /\ Active(j) /\ tasks[i].row = tasks[j].row
                          => i = j \/ tasks[i].row \in repeated

WorkflowsInv ==
    ShapeOK /\ RowsInv /\ RequestsInv /\ SignedInv /\ DecidedInv /\ SingleInv /\ TasksInv
-----------------------------------------------------------------------------
(* What the tables of transitions say, workflow by workflow.               *)

\* The status an operation leaves a row with that had status s.
Written(k, op, s) == IF op \in DOMAIN To[k] THEN To[k][op] ELSE s

\* The tables of one workflow, as records of their own.
LEMMA ReportTables ==
    /\ Ops("report") = {"submit", "approve_partner", "approve_org", "publish", "reject"}
    /\ DOMAIN To["report"] = Ops("report")
    /\ From["report"]["submit"] = {"draft"}
    /\ From["report"]["approve_partner"] = {"pending_partner_approval"}
    /\ From["report"]["approve_org"] = {"pending_org_approval"}
    /\ From["report"]["publish"] = {"org_approved"}
    /\ From["report"]["reject"] = {"draft", "pending_partner_approval", "pending_org_approval",
                                   "org_approved"}
    /\ To["report"]["submit"] = "pending_partner_approval"
    /\ To["report"]["approve_partner"] = "pending_org_approval"
    /\ To["report"]["approve_org"] = "org_approved"
    /\ To["report"]["publish"] = "published_to_donor"
    /\ To["report"]["reject"] = "rejected"
    /\ First["report"] = "draft" /\ Refusal["report"] = "reject"
    /\ Order["report"] = <<"submit", "approve_partner", "approve_org", "publish">>
  BY DEF Ops, From, To, First, Refusal, Order, AfterPartner

\* What the tables of the transfer console say, spelled out.
LEMMA TransferTables ==
    /\ Ops("transfer") = {"approve", "mark_completed", "confirm_receipt", "cancel"}
    /\ DOMAIN To["transfer"] = {"approve", "mark_completed", "cancel"}
    /\ From["transfer"]["approve"] = {"pending"}
    /\ From["transfer"]["mark_completed"] = {"approved", "processing"}
    /\ From["transfer"]["confirm_receipt"] = {"completed"}
    /\ From["transfer"]["cancel"] = {"pending", "approved", "processing"}
    /\ To["transfer"]["approve"] = "approved"
    /\ To["transfer"]["mark_completed"] = "completed"
    /\ To["transfer"]["cancel"] = "cancelled"
    /\ First["transfer"] = "pending" /\ Refusal["transfer"] = "cancel"
    /\ Order["transfer"] = <<"approve", "mark_completed", "confirm_receipt">>
  BY DEF Ops, From, To, First, Refusal, Order, Cancellable

\* What the tables of the case console say, spelled out.
LEMMA CaseTables ==
    /\ Ops("case") = {"approve", "release", "reject"}
    /\ DOMAIN To["case"] = Ops("case")
    /\ From["case"]["approve"] = {"pending_review"}
    /\ From["case"]["release"] = {"approved", "reserved"}
    /\ From["case"]["reject"] = {"pending_review"}
    /\ To["case"]["approve"] = "approved"
    /\ To["case"]["release"] = "available"
    /\ To["case"]["reject"] = "rejected"
    /\ First["case"] = "pending_review" /\ Refusal["case"] = "reject"
    /\ Order["case"] = <<"approve", "release">>
  BY DEF Ops, From, To, First, Refusal, Order

\* An operation that signs is one of the workflow's, in its place: the statuses it
\* is called in attest the signatures before it, and the one it writes no more
\* than those and its own.
LEMMA SigningTable ==
    ASSUME NEW k \in Kinds, NEW op \in Ops(k), NEW s \in From[k][op], NEW t
    PROVE  \/ op = Refusal[k] /\ Attests(k, Written(k, op, t)) = 0
           \/ \E j \in 1..Len(Order[k]) :
                /\ op = Order[k][j] /\ Attests(k, s) = j - 1
                /\ Written(k, op, t) = t \/ Attests(k, Written(k, op, t)) <= j
  <1>1. CASE k = "report"
    <2>1. Len(Order[k]) = 4
      BY <1>1, ReportTables
    <2> QED
      BY <1>1, <2>1, ReportTables DEF Attests, Written
  <1>2. CASE k = "transfer"
    <2>1. Len(Order[k]) = 3
      BY <1>2, TransferTables
    <2> QED
      BY <1>2, <2>1, TransferTables DEF Attests, Written
  <1>3. CASE k = "case"
    <2>1. Len(Order[k]) = 2
      BY <1>3, CaseTables
    <2> QED
      BY <1>3, <2>1, CaseTables DEF Attests, Written
  <1> QED
    BY <1>1, <1>2, <1>3 DEF Kinds

\* The signatures of a workflow are its operations but for the refusal, each once.
LEMMA OrderTable ==
    ASSUME NEW k \in Kinds
    PROVE  /\ Len(Order[k]) \in 0..4 /\ Refusal[k] \in Ops(k)
           /\ \A i \in 1..Len(Order[k]) : Order[k][i] \in Ops(k) /\ Order[k][i] # Refusal[k]
           /\ \A i, j \in 1..Len(Order[k]) : Order[k][i] = Order[k][j] => i = j
  <1>1. CASE k = "report"
    <2>1. Len(Order[k]) = 4
      BY <1>1, ReportTables
    <2> QED
      BY <1>1, <2>1, ReportTables
  <1>2. CASE k = "transfer"
    <2>1. Len(Order[k]) = 3
      BY <1>2, TransferTables
    <2> QED
      BY <1>2, <2>1, TransferTables
  <1>3. CASE k = "case"
    <2>1. Len(Order[k]) = 2
      BY <1>3, CaseTables
    <2> QED
      BY <1>3, <2>1, CaseTables
  <1> QED
    BY <1>1, <1>2, <1>3 DEF Kinds

\* The first n signatures are n.
LEMMA CountSignatures ==
    ASSUME NEW k \in Kinds, NEW n \in 0..Len(Order[k])
    PROVE  Cardinality(FirstSignatures(k, n)) = n
  <1> DEFINE S(i) == FirstSignatures(k, i)
             Counted(i) == IsFiniteSet(S(i)) /\ Cardinality(S(i)) = i
  <1>1. Counted(0)
    <2>1. S(0) = {}
      BY DEF FirstSignatures
    <2> QED
      BY <2>1, FS_EmptySet
  <1>2. ASSUME NEW i \in 0..3, i + 1 <= Len(Order[k]), Counted(i)
        PROVE  Counted(i + 1)
    <2>1. S(i + 1) = S(i) \cup {Order[k][i + 1]}
      BY DEF FirstSignatures
    <2>2. Order[k][i + 1] \notin S(i)
      BY <1>2, OrderTable DEF FirstSignatures
    <2>3. IsFiniteSet(S(i)) /\ Cardinality(S(i)) = i
      BY <1>2
    <2> HIDE DEF S
    <2>4. /\ IsFiniteSet(S(i) \cup {Order[k][i + 1]})
          /\ Cardinality(S(i) \cup {Order[k][i + 1]}) = Cardinality(S(i)) + 1
      BY <2>2, <2>3, FS_AddElement
    <2> QED
      BY <2>1, <2>3, <2>4
  <1>3. Len(Order[k]) \in 0..4
    BY OrderTable
  <1> HIDE DEF Counted
  <1>4. 1 <= n => Counted(1)
    BY <1>1, <1>2, <1>3
  <1>5. 2 <= n => Counted(2)
    BY <1>2, <1>3, <1>4
  <1>6. 3 <= n => Counted(3)
    BY <1>2, <1>3, <1>5
  <1>7. 4 <= n => Counted(4)
    BY <1>2, <1>3, <1>6
  <1>8. n \in {0, 1, 2, 3, 4}
    <2>1. \A l \in 0..4 : \A m \in 0..l : m \in {0, 1, 2, 3, 4}
      OBVIOUS
    <2> QED
      BY <1>3, <2>1
  <1>9. Counted(n)
    BY <1>1, <1>4, <1>5, <1>6, <1>7, <1>8
  <1> QED
    BY <1>9 DEF Counted

\* Rows are created with the first status, and no operation unmakes them.
LEMMA StatusTable ==
    ASSUME NEW k \in Kinds
    PROVE  /\ First[k] \in Statuses(k) \ {"absent"} /\ "absent" \in Statuses(k)
           /\ Statuses(k) \subseteq AllStatuses /\ Ops(k) \subseteq Operations
           /\ Attests(k, First[k]) = 0 /\ Attests(k, "absent") = 0
           /\ \A op \in Ops(k), s \in Statuses(k) \ {"absent"} :
                Written(k, op, s) \in Statuses(k) \ {"absent"}
           /\ \A op \in Ops(k) : "absent" \notin From[k][op]
  <1>0. Ops(k) \subseteq Operations /\ Statuses(k) \subseteq AllStatuses
    BY DEF Operations, AllStatuses
  <1>1. CASE k = "report"
    <2>1. Statuses(k) = {"absent", "draft", "pending_partner_approval", "pending_org_approval",
                        "org_approved", "published_to_donor", "rejected"}
      BY <1>1, ReportTables DEF Statuses
    <2>2. \A op \in Ops(k), s \in Statuses(k) \ {"absent"} :
              Written(k, op, s) \in Statuses(k) \ {"absent"}
      BY <1>1, <2>1, ReportTables DEF Written
    <2>3. First[k] \in Statuses(k) \ {"absent"}
      BY <1>1, <2>1, ReportTables
    <2>4. \A op \in Ops(k) : "absent" \notin From[k][op]
      BY <1>1, ReportTables
    <2>5. Attests(k, First[k]) = 0 /\ Attests(k, "absent") = 0
      BY <1>1, ReportTables DEF Attests
    <2> QED
      BY <1>0, <2>1, <2>2, <2>3, <2>4, <2>5
  <1>2. CASE k = "transfer"
    <2>1. Statuses(k) = {"absent", "pending", "approved", "completed", "cancelled"}
      BY <1>2, TransferTables DEF Statuses
    <2>2. \A op \in Ops(k), s \in Statuses(k) \ {"absent"} :
              Written(k, op, s) \in Statuses(k) \ {"absent"}
      BY <1>2, <2>1, TransferTables DEF Written
    <2>3. First[k] \in Statuses(k) \ {"absent"}
      BY <1>2, <2>1, TransferTables
    <2>4. \A op \in Ops(k) : "absent" \notin From[k][op]
      BY <1>2, TransferTables
    <2>5. Attests(k, First[k]) = 0 /\ Attests(k, "absent") = 0
      BY <1>2, TransferTables DEF Attests
    <2> QED
      BY <1>0, <2>1, <2>2, <2>3, <2>4, <2>5
  <1>3. CASE k = "case"
    <2>1. Statuses(k) = {"absent", "pending_review", "approved", "available", "rejected"}
      BY <1>3, CaseTables DEF Statuses
    <2>2. \A op \in Ops(k), s \in Statuses(k) \ {"absent"} :
              Written(k, op, s) \in Statuses(k) \ {"absent"}
      BY <1>3, <2>1, CaseTables DEF Written
    <2>3. First[k] \in Statuses(k) \ {"absent"}
      BY <1>3, <2>1, CaseTables
    <2>4. \A op \in Ops(k) : "absent" \notin From[k][op]
      BY <1>3, CaseTables
    <2>5. Attests(k, First[k]) = 0 /\ Attests(k, "absent") = 0
      BY <1>3, CaseTables DEF Attests
    <2> QED
      BY <1>0, <2>1, <2>2, <2>3, <2>4, <2>5
  <1> QED
    BY <1>1, <1>2, <1>3 DEF Kinds

\* The refusal and the final signature exclude each other by the statuses they
\* leave and accept.
LEMMA DecisionTable ==
    ASSUME NEW k \in Kinds, NEW op \in Ops(k), NEW s \in From[k][op]
    PROVE  /\ Final[k] # Refusal[k] /\ s # To[k][Refusal[k]]
           /\ op = Refusal[k] => /\ s \notin Settled[k]
                                 /\ Written(k, op, s) = To[k][Refusal[k]]
           /\ op = Final[k] => Written(k, op, s) \in Settled[k]
           /\ op # Refusal[k] /\ s \in Settled[k] => Written(k, op, s) \in Settled[k]
  <1>1. CASE k = "report"
    BY <1>1, ReportTables DEF Written, Final, Settled
  <1>2. CASE k = "transfer"
    BY <1>2, TransferTables DEF Written, Final, Settled
  <1>3. CASE k = "case"
    BY <1>3, CaseTables DEF Written, Final, Settled
  <1> QED
    BY <1>1, <1>2, <1>3 DEF Kinds

-----------------------------------------------------------------------------
(* What the operations do to the table.                                    *)

\* A row that is stamped is a row.
Stamped(x, op, w) == [[x EXCEPT !.done = @ \cup {op}] EXCEPT !.status = w]

\* A stamped row is a row, with the operation done and its status written.
LEMMA StampedRow ==
    ASSUME NEW x \in RowRecord, NEW op \in Operations, NEW w \in AllStatuses
    PROVE  /\ Stamped(x, op, w) \in RowRecord
           /\ Stamped(x, op, w).done = x.done \cup {op}
           /\ Stamped(x, op, w).status = w
           /\ Stamped(x, op, w).deleted = x.deleted
  BY DEF RowRecord, Stamped

\* A commit stamps one row, for the request it takes off its button.
LEMMA CommitStamps ==
    ASSUME WorkflowsInv, NEW u \in Staff, NEW b \in Buttons, Commit(u, b)
    PROVE  LET q == request[u][b] IN
           /\ q \in Request /\ q.op \in Ops(kind) /\ q.read \in From[kind][q.op]
           /\ rows' \in [Row -> RowRecord]
           /\ rows'[q.row].done = rows[q.row].done \cup {q.op}
           /\ rows'[q.row].status = Written(kind, q.op, rows[q.row].status)
           /\ rows'[q.row].deleted = rows[q.row].deleted
           /\ \A r \in Row \ {q.row} : rows'[r] = rows[r]
           /\ request' = [request EXCEPT ![u][b] = Idle]
  <1> USE DEF WorkflowsInv
  <1> DEFINE q == request[u][b]
             w == Written(kind, q.op, rows[q.row].status)
  <1>1. q # Idle /\ request' = [request EXCEPT ![u][b] = Idle]
    BY DEF Commit
  <1>2. /\ q \in Request /\ q.op \in Ops(kind) /\ q.read \in From[kind][q.op]
        /\ rows[q.row].status # "absent" /\ q.row \in Row /\ q.op \in Operations
    BY <1>1 DEF ShapeOK, RequestsInv, Request
  <1>3. rows[q.row] \in RowRecord /\ kind \in Kinds
    BY <1>2 DEF ShapeOK
  <1>4. w \in AllStatuses
    BY <1>2, <1>3, StatusTable DEF RowsInv
  <1>5. rows' = [[rows EXCEPT ![q.row].done = @ \cup {q.op}] EXCEPT ![q.row].status = w]
    BY <1>2 DEF Commit, Decided, Written, ShapeOK, RowRecord
  <1> HIDE DEF w
  <1>6. /\ rows'[q.row] = [[rows[q.row] EXCEPT !.done = @ \cup {q.op}] EXCEPT !.status = w]
        /\ \A r \in Row \ {q.row} : rows'[r] = rows[r]
        /\ rows' = [rows EXCEPT ![q.row] = rows'[q.row]]
    BY <1>2, <1>5 DEF ShapeOK
  <1>7. /\ rows'[q.row] \in RowRecord
        /\ rows'[q.row].done = rows[q.row].done \cup {q.op}
        /\ rows'[q.row].status = w /\ rows'[q.row].deleted = rows[q.row].deleted
    <2>1. rows[q.row] \in RowRecord /\ q.op \in Operations /\ w \in AllStatuses
      BY <1>2, <1>3, <1>4
    <2>2. rows'[q.row] = Stamped(rows[q.row], q.op, w)
      BY <1>6 DEF Stamped
    <2> QED
      BY <2>1, <2>2, StampedRow
  <1>8. rows' \in [Row -> RowRecord]
    BY <1>2, <1>6, <1>7 DEF ShapeOK
  <1> QED
    BY <1>1, <1>2, <1>6, <1>7, <1>8 DEF w

\* An insertion makes the next row one of the first status, with no signature.
LEMMA InsertionIsBare ==
    ASSUME WorkflowsInv, NEW r \in Row, NEW u \in Staff \cup Registrant, rows' = Inserted(r, u)
    PROVE  /\ rows' \in [Row -> RowRecord]
           /\ rows'[r].status = First[kind] /\ rows'[r].done = {} /\ rows'[r].deleted = FALSE
           /\ \A s \in Row \ {r} : rows'[s] = rows[s]
  <1> USE DEF WorkflowsInv
  <1> DEFINE row == [Absent EXCEPT !.status = First[kind], !.creator = u]
  <1>1. First[kind] \in AllStatuses
    BY StatusTable DEF ShapeOK
  <1>2. row \in RowRecord /\ row.status = First[kind] /\ row.done = {} /\ row.deleted = FALSE
    BY <1>1 DEF Absent, RowRecord
  <1>3. rows' = [rows EXCEPT ![r] = row]
    BY DEF Inserted
  <1> HIDE DEF row
  <1> QED
    BY <1>2, <1>3 DEF ShapeOK

\* A step that writes one field of a row leaves its others.
LEMMA MarkedRow ==
    ASSUME ShapeOK, NEW r \in Row,
           \/ rows' = [rows EXCEPT ![r].deleted = TRUE]
           \/ rows' = [rows EXCEPT ![r].notified = TRUE]
    PROVE  /\ rows' \in [Row -> RowRecord]
           /\ \A s \in Row : rows'[s].status = rows[s].status /\ rows'[s].done = rows[s].done
           /\ \A s \in Row \ {r} : rows'[s] = rows[s]
           /\ \A s \in Row : rows'[s].deleted = FALSE => rows[s].deleted = FALSE
  <1>1. rows[r] \in RowRecord
    BY DEF ShapeOK
  <1>2. CASE rows' = [rows EXCEPT ![r].deleted = TRUE]
    BY <1>1, <1>2 DEF ShapeOK, RowRecord
  <1>3. CASE rows' = [rows EXCEPT ![r].notified = TRUE]
    BY <1>1, <1>3 DEF ShapeOK, RowRecord
  <1> QED
    BY <1>2, <1>3

\* Deliveries are told from tasks not queued yet by their rows.
LEMMA DeliveryFields ==
    /\ NoTask \notin Delivery /\ NoTask.st = "unused"
    /\ \A x \in Delivery \cup {NoTask} : x.st # "unused" => x \in Delivery
    /\ \A x \in Delivery : /\ x.st \in {"queued", "mailing", "over"} /\ x.row \in Row
                           /\ x.told \subseteq Donor
  BY DEF Delivery, NoTask

\* The task is queued once more, with nobody told, or lost.
LEMMA QueueAdds ==
    ASSUME ShapeOK, NEW r \in Row, Queue(r)
    PROVE  /\ tasks' \in [Task -> Delivery \cup {NoTask}] /\ lost' \subseteq Row
           /\ \A i \in Task : tasks[i] # NoTask => tasks'[i] = tasks[i]
           /\ \A i \in Task : tasks[i] = NoTask /\ tasks'[i] # NoTask =>
                tasks'[i].st = "queued" /\ tasks'[i].row = r /\ tasks'[i].told = {}
  <1> DEFINE n == [st |-> "queued", row |-> r, told |-> {}]
  <1>1. n \in Delivery /\ n.st = "queued" /\ n.row = r /\ n.told = {}
    BY DEF Delivery
  <1> HIDE DEF n
  <1>2. CASE lost' = lost \cup {r} /\ UNCHANGED tasks
    BY <1>2 DEF ShapeOK
  <1>3. ASSUME NEW i \in Task, tasks[i] = NoTask, tasks' = [tasks EXCEPT ![i] = n], UNCHANGED lost
        PROVE  /\ tasks' \in [Task -> Delivery \cup {NoTask}] /\ lost' \subseteq Row
               /\ \A j \in Task : tasks[j] # NoTask => tasks'[j] = tasks[j]
               /\ \A j \in Task : tasks[j] = NoTask /\ tasks'[j] # NoTask => tasks'[j] = n
    BY <1>1, <1>3 DEF ShapeOK
  <1> QED
    BY <1>1, <1>2, <1>3 DEF Queue, n

\* A run of the task goes on: it starts, gets as far as one more donor, or ends.
Run(i) == StartTask(i) \/ Stamp(i) \/ WorkerDies(i) \/ \E d \in Donor : Mail(i, d)

\* A worker's step keeps its task on its row and only adds to whom it has told.
LEMMA RunGoesOn ==
    ASSUME ShapeOK, NEW i \in Task, Run(i)
    PROVE  /\ tasks[i] \in Delivery /\ tasks'[i] \in Delivery
           /\ tasks' = [tasks EXCEPT ![i] = tasks'[i]]
           /\ tasks'[i].row = tasks[i].row /\ tasks'[i].st # "queued"
           /\ tasks[i].told \subseteq tasks'[i].told
           /\ UNCHANGED <<kind, shown, request, registering, raced>>
  <1>1. tasks[i] \in Delivery
    BY DeliveryFields DEF ShapeOK, Run, StartTask, Stamp, WorkerDies, Mail
  <1>4. UNCHANGED <<kind, shown, request, registering, raced>>
    BY DEF Run, StartTask, Stamp, WorkerDies, Mail
  <1>2. CASE \E st \in {"mailing", "over"} : tasks' = [tasks EXCEPT ![i].st = st]
    <2>1. PICK st \in {"mailing", "over"} : tasks' = [tasks EXCEPT ![i].st = st]
      BY <1>2
    <2>2. /\ tasks'[i] = [tasks[i] EXCEPT !.st = st]
          /\ tasks' = [tasks EXCEPT ![i] = tasks'[i]]
      BY <2>1 DEF ShapeOK
    <2>3. /\ tasks'[i] \in Delivery /\ tasks'[i].row = tasks[i].row /\ tasks'[i].st = st
          /\ tasks[i].told = tasks'[i].told
      BY <1>1, <2>2 DEF Delivery
    <2> QED
      BY <1>1, <1>4, <2>2, <2>3
  <1>3. CASE \E d \in Donor : Mail(i, d)
    <2>1. PICK d \in Donor : Mail(i, d)
      BY <1>3
    <2>2. tasks' = [tasks EXCEPT ![i].told = @ \cup {d}] /\ tasks[i].st = "mailing"
      BY <2>1 DEF Mail, Skipped
    <2>3. /\ tasks'[i] = [tasks[i] EXCEPT !.told = @ \cup {d}]
          /\ tasks' = [tasks EXCEPT ![i] = tasks'[i]]
      BY <2>2 DEF ShapeOK
    <2>4. /\ tasks'[i] \in Delivery /\ tasks'[i].row = tasks[i].row /\ tasks'[i].st = "mailing"
          /\ tasks[i].told \subseteq tasks'[i].told
      BY <1>1, <2>2, <2>3 DEF Delivery
    <2> QED
      BY <1>1, <1>4, <2>3, <2>4
  <1> QED
    BY <1>1, <1>2, <1>3, <1>4 DEF Run, StartTask, Stamp, WorkerDies

-----------------------------------------------------------------------------
(* Every step keeps the invariant, part by part.                           *)

\* Whatever a step does to a console's picture of the table is a refetch.
Refetched(u) ==
    \/ UNCHANGED shown
    \/ shown' = [shown EXCEPT ![u] = [r \in Row |-> rows'[r].status]]

\* The shape of the state is kept.
LEMMA ShapeKept ==
    ASSUME WorkflowsInv, [Next]_vars
    PROVE  ShapeOK'
  <1> USE DEF WorkflowsInv
  <1>0. ASSUME rows' \in [Row -> RowRecord], NEW u \in Staff, Refetched(u)
        PROVE  shown' \in [Staff -> [Row -> AllStatuses]]
    <2>1. [r \in Row |-> rows'[r].status] \in [Row -> AllStatuses]
      BY <1>0 DEF RowRecord
    <2> QED
      BY <1>0, <2>1 DEF Refetched, ShapeOK
  <1>1. ASSUME NEW u \in Staff, Create(u)
        PROVE  ShapeOK'
    BY <1>1, InsertionIsBare DEF Create, ShapeOK
  <1>2. ASSUME NEW u \in Staff, Fetch(u)
        PROVE  ShapeOK'
    BY <1>0, <1>2 DEF Fetch, ShapeOK, Refetched
  <1>3. ASSUME NEW u \in Registrant, SearchDuplicate(u)
        PROVE  ShapeOK'
    BY <1>3 DEF SearchDuplicate, ShapeOK
  <1>4. ASSUME NEW u \in Registrant, Register(u)
        PROVE  ShapeOK'
    <2>1. rows' \in [Row -> RowRecord]
      BY <1>4, InsertionIsBare DEF Register, ShapeOK
    <2> QED
      BY <1>4, <2>1 DEF Register, ShapeOK
  <1>5. ASSUME NEW r \in Row, DeleteCase(r)
        PROVE  ShapeOK'
    BY <1>5, MarkedRow DEF DeleteCase, ShapeOK
  <1>6. ASSUME NEW r \in Row, Replay(r)
        PROVE  ShapeOK'
    BY <1>6, QueueAdds DEF Replay, ShapeOK
  <1>7. ASSUME NEW u \in Staff, NEW r \in Row, NEW op \in Ops(kind), Click(u, r, op)
        PROVE  ShapeOK'
    <2> DEFINE q == [op |-> op, row |-> r, read |-> rows[r].status]
    <2>1. q \in Request
      BY StatusTable DEF ShapeOK, Request, RowRecord
    <2>2. request' = [request EXCEPT ![u][ButtonOf(kind, op)] = q]
      BY <1>7 DEF Click
    <2>3. ButtonOf(kind, op) \in Buttons
      BY DEF ButtonOf, Buttons
    <2> HIDE DEF q
    <2>4. request' \in [Staff -> [Buttons -> Request \cup {Idle}]]
      BY <2>1, <2>2, <2>3 DEF ShapeOK
    <2> QED
      BY <1>7, <2>4 DEF Click, ShapeOK
  <1>8. ASSUME NEW u \in Staff, NEW b \in Buttons, Commit(u, b)
        PROVE  ShapeOK'
    <2> DEFINE q == request[u][b]
    <2>1. rows' \in [Row -> RowRecord] /\ q.row \in Row
      BY <1>8, CommitStamps DEF Request
    <2>2. request' = [request EXCEPT ![u][b] = Idle]
      BY <1>8, CommitStamps
    <2>3. tasks' \in [Task -> Delivery \cup {NoTask}] /\ lost' \subseteq Row
      <3>1. Queue(q.row) \/ UNCHANGED <<tasks, lost>>
        BY <1>8 DEF Commit
      <3> QED
        BY <2>1, <3>1, QueueAdds DEF ShapeOK
    <2>4. raced' \subseteq Row
      BY <1>8, <2>1 DEF Commit, ShapeOK
    <2>5. shown' \in [Staff -> [Row -> AllStatuses]]
      BY <1>0, <1>8, <2>1 DEF Commit, Refreshed, Refetched
    <2>6. request' \in [Staff -> [Buttons -> Request \cup {Idle}]]
      BY <2>2 DEF ShapeOK
    <2>7. UNCHANGED <<kind, registering, mails, repeated>>
      BY <1>8 DEF Commit
    <2> QED
      BY <2>1, <2>3, <2>4, <2>5, <2>6, <2>7 DEF ShapeOK
  <1>9. ASSUME NEW i \in Task, Run(i)
        PROVE  ShapeOK'
    <2>1. tasks[i] \in Delivery /\ tasks' \in [Task -> Delivery \cup {NoTask}]
      BY <1>9, RunGoesOn DEF ShapeOK
    <2>2. tasks[i].row \in Row
      BY <2>1, DeliveryFields
    <2>3. rows' \in [Row -> RowRecord]
      BY <1>9, <2>2, MarkedRow DEF Run, StartTask, Stamp, WorkerDies, Mail, ShapeOK
    <2>4. mails' \in [Row -> [Donor -> Nat]]
      <3>1. \/ UNCHANGED mails
            \/ \E d \in Donor : mails' = [mails EXCEPT ![tasks[i].row][d] = @ + 1]
        BY <1>9 DEF Run, StartTask, Stamp, WorkerDies, Mail
      <3>2. ASSUME NEW d \in Donor, mails' = [mails EXCEPT ![tasks[i].row][d] = @ + 1]
            PROVE  mails' \in [Row -> [Donor -> Nat]]
        <4>1. mails[tasks[i].row] \in [Donor -> Nat] /\ mails[tasks[i].row][d] + 1 \in Nat
          BY <2>2 DEF ShapeOK
        <4>2. [mails[tasks[i].row] EXCEPT ![d] = @ + 1] \in [Donor -> Nat]
          BY <4>1
        <4> QED
          BY <2>2, <3>2, <4>2 DEF ShapeOK
      <3> QED
        BY <3>1, <3>2 DEF ShapeOK
    <2>5. repeated' \subseteq Row /\ lost' \subseteq Row
      <3>1. \/ UNCHANGED <<repeated, lost>>
            \/ repeated' = repeated \cup {tasks[i].row} /\ UNCHANGED lost
            \/ lost' = lost \cup {tasks[i].row} /\ UNCHANGED repeated
        <4>1. CASE StartTask(i)
          BY <4>1 DEF StartTask
        <4>2. CASE Stamp(i) \/ WorkerDies(i) \/ \E d \in Donor : Mail(i, d)
          BY <4>2 DEF Stamp, WorkerDies, Mail
        <4> QED
          BY <1>9, <4>1, <4>2 DEF Run
      <3> QED
        BY <2>2, <3>1 DEF ShapeOK
    <2> QED
      BY <1>9, <2>1, <2>3, <2>4, <2>5, RunGoesOn DEF ShapeOK
  <1>10. CASE UNCHANGED vars
    BY <1>10 DEF vars, ShapeOK
  <1> QED
    BY <1>1, <1>2, <1>3, <1>4, <1>5, <1>6, <1>7, <1>8, <1>9, <1>10
       DEF Next, Run, TaskStep

\* What is on record belongs to the workflow still, and no row is unmade.
LEMMA RowsKept ==
    ASSUME WorkflowsInv, [Next]_vars
    PROVE  /\ RowsInv' /\ kind' = kind
           /\ \A r \in Row : rows[r].status # "absent" => rows'[r].status # "absent"
           /\ \A r \in Row : rows[r].done \subseteq rows'[r].done
  <1> DEFINE Kept == /\ RowsInv' /\ kind' = kind
                     /\ \A r \in Row : rows[r].status # "absent" => rows'[r].status # "absent"
                     /\ \A r \in Row : rows[r].done \subseteq rows'[r].done
             Fits(x) == /\ x.status \in Statuses(kind) /\ x.done \subseteq Ops(kind)
                        /\ x.status = "absent" => x = Absent
  <1> USE DEF WorkflowsInv
  <1>a. /\ \A r \in Row : Fits(rows[r])
        /\ \A u \in Staff, r \in Row : shown[u][r] \in Statuses(kind)
        /\ rows \in [Row -> RowRecord] /\ kind \in Kinds
        /\ shown \in [Staff -> [Row -> AllStatuses]]
    BY DEF RowsInv, ShapeOK
  <1>b. ASSUME kind' = kind,
               \A r \in Row : /\ Fits(rows'[r]) /\ rows[r].done \subseteq rows'[r].done
                              /\ rows[r].status # "absent" => rows'[r].status # "absent",
               \E u \in Staff : Refetched(u)
        PROVE  Kept
    <2>1. PICK u \in Staff : Refetched(u)
      BY <1>b
    <2>2. \A v \in Staff, r \in Row : shown'[v][r] \in Statuses(kind)
      BY <1>a, <1>b, <2>1 DEF Refetched
    <2> QED
      BY <1>b, <2>2 DEF RowsInv
  <1>c. ASSUME kind' = kind, UNCHANGED shown,
               \A r \in Row : /\ Fits(rows'[r]) /\ rows[r].done \subseteq rows'[r].done
                              /\ rows[r].status # "absent" => rows'[r].status # "absent"
        PROVE  Kept
    BY <1>a, <1>c DEF RowsInv
  <1>d. CASE UNCHANGED <<kind, rows, shown>>
    BY <1>d DEF RowsInv
  <1>e. ASSUME NEW r \in Row, NEW u \in Staff \cup Registrant, rows' = Inserted(r, u),
               rows[r].status = "absent"
        PROVE  \A s \in Row : /\ Fits(rows'[s]) /\ rows[s].done \subseteq rows'[s].done
                              /\ rows[s].status # "absent" => rows'[s].status # "absent"
    <2>1. rows[r].done = {}
      BY <1>a, <1>e DEF Absent
    <2> QED
      BY <1>a, <1>e, <2>1, InsertionIsBare, StatusTable
  <1>1. ASSUME NEW u \in Staff, Create(u)
        PROVE  Kept
    BY <1>1, <1>c, <1>e DEF Create, IsNext
  <1>2. ASSUME NEW u \in Registrant, Register(u)
        PROVE  Kept
    <2>1. CASE UNCHANGED rows
      BY <1>2, <1>d, <2>1 DEF Register
    <2>2. CASE \E r \in Row : IsNext(r) /\ rows' = Inserted(r, u)
      BY <1>2, <1>c, <1>e, <2>2 DEF Register, IsNext
    <2> QED
      BY <1>2, <2>1, <2>2 DEF Register
  <1>3. ASSUME NEW u \in Staff, Fetch(u)
        PROVE  Kept
    <2>1. Refetched(u) /\ kind' = kind /\ rows' = rows
      BY <1>3 DEF Fetch, Refetched
    <2> QED
      BY <1>a, <1>b, <2>1
  <1>4. ASSUME NEW u \in Registrant, SearchDuplicate(u)
        PROVE  Kept
    BY <1>d, <1>4 DEF SearchDuplicate
  <1>5. ASSUME NEW r \in Row, rows[r].status # "absent", UNCHANGED <<kind, shown>>,
               \/ rows' = [rows EXCEPT ![r].deleted = TRUE]
               \/ rows' = [rows EXCEPT ![r].notified = TRUE]
        PROVE  Kept
    <2>1. /\ \A s \in Row : rows'[s].status = rows[s].status /\ rows'[s].done = rows[s].done
          /\ \A s \in Row \ {r} : rows'[s] = rows[s]
      BY <1>5, MarkedRow
    <2> QED
      BY <1>5, <1>a, <1>c, <2>1
  <1>6. ASSUME NEW r \in Row, DeleteCase(r)
        PROVE  Kept
    BY <1>5, <1>6 DEF DeleteCase
  <1>7. ASSUME NEW r \in Row, Replay(r)
        PROVE  Kept
    BY <1>d, <1>7 DEF Replay
  <1>8. ASSUME NEW u \in Staff, NEW r \in Row, NEW op \in Ops(kind), Click(u, r, op)
        PROVE  Kept
    BY <1>d, <1>8 DEF Click
  <1>9. ASSUME NEW u \in Staff, NEW b \in Buttons, Commit(u, b)
        PROVE  Kept
    <2> DEFINE q == request[u][b]
    <2>1. /\ q.row \in Row /\ q.op \in Ops(kind) /\ rows[q.row].status # "absent"
          /\ rows'[q.row].done = rows[q.row].done \cup {q.op}
          /\ rows'[q.row].status = Written(kind, q.op, rows[q.row].status)
          /\ \A r \in Row \ {q.row} : rows'[r] = rows[r]
      BY <1>9, CommitStamps DEF Commit, RequestsInv, Request
    <2>2. rows'[q.row].status \in Statuses(kind) \ {"absent"}
      BY <1>a, <2>1, StatusTable
    <2>3. Refetched(u) /\ kind' = kind
      BY <1>9 DEF Commit, Refreshed, Refetched
    <2> HIDE DEF q
    <2> QED
      BY <1>a, <1>b, <2>1, <2>2, <2>3
  <1>10. ASSUME NEW i \in Task, Run(i)
         PROVE  Kept
    <2>1. tasks[i] # NoTask /\ tasks[i].row \in Row /\ UNCHANGED <<kind, shown>>
      BY <1>10, RunGoesOn, DeliveryFields
    <2>2. rows[tasks[i].row].status # "absent"
      BY <1>a, <2>1 DEF TasksInv, Absent
    <2>3. CASE Stamp(i)
      BY <1>5, <2>1, <2>2, <2>3 DEF Stamp
    <2>4. CASE ~Stamp(i)
      BY <1>d, <1>10, <2>1, <2>4 DEF Run, StartTask, Mail, WorkerDies
    <2> QED
      BY <2>3, <2>4
  <1>11. CASE UNCHANGED vars
    BY <1>d, <1>11 DEF vars
  <1> QED
    BY <1>1, <1>2, <1>3, <1>4, <1>6, <1>7, <1>8, <1>9, <1>10, <1>11
       DEF Next, Run, TaskStep

\* Rows are decided on by three kinds of step: an insertion, a click and a commit.
Insertion ==
    \E r \in Row, u \in Staff \cup Registrant :
        /\ rows[r].status = "absent" /\ rows' = Inserted(r, u)
        /\ kind = "case" => Indexed = {}
        /\ UNCHANGED <<request, tasks, mails, raced, repeated>>

Undecided ==
    /\ \A r \in Row : /\ rows'[r].status = rows[r].status /\ rows'[r].done = rows[r].done
                      /\ rows'[r].deleted = FALSE => rows[r].deleted = FALSE
    /\ UNCHANGED <<request, raced>>

\* What a step can do to the table: insert, refuse or commit a click, or leave every
\* decision as it was.
LEMMA StepsOfRows ==
    ASSUME WorkflowsInv, [Next]_vars
    PROVE  \/ Insertion
           \/ \E u \in Staff, r \in Row : \E op \in Ops(kind) : Click(u, r, op)
           \/ \E u \in Staff, b \in Buttons : Commit(u, b)
           \/ Undecided
  <1> USE DEF WorkflowsInv
  <1>0. ASSUME UNCHANGED <<rows, request, raced>>
        PROVE  Undecided
    BY <1>0 DEF Undecided
  <1>1. ASSUME NEW u \in Staff, Create(u)
        PROVE  Insertion
    BY <1>1 DEF Create, Insertion, IsNext
  <1>2. ASSUME NEW u \in Registrant, Register(u)
        PROVE  Insertion \/ Undecided
    <2>1. CASE UNCHANGED rows
      BY <1>0, <1>2, <2>1 DEF Register
    <2>2. CASE Indexed = {} /\ \E r \in Row : IsNext(r) /\ rows' = Inserted(r, u)
      BY <1>2, <2>2 DEF Register, Insertion, IsNext
    <2> QED
      BY <1>2, <2>1, <2>2 DEF Register
  <1>3. ASSUME NEW u \in Staff, Fetch(u)
        PROVE  Undecided
    BY <1>0, <1>3 DEF Fetch
  <1>4. ASSUME NEW u \in Registrant, SearchDuplicate(u)
        PROVE  Undecided
    BY <1>0, <1>4 DEF SearchDuplicate
  <1>5. ASSUME NEW r \in Row, DeleteCase(r)
        PROVE  Undecided
    BY <1>5, MarkedRow DEF DeleteCase, Undecided
  <1>6. ASSUME NEW r \in Row, Replay(r)
        PROVE  Undecided
    BY <1>0, <1>6 DEF Replay
  <1>7. ASSUME NEW i \in Task, Run(i)
        PROVE  Undecided
    <2>1. tasks[i].row \in Row /\ UNCHANGED <<request, raced>>
      BY <1>7, RunGoesOn, DeliveryFields
    <2>2. CASE Stamp(i)
      BY <2>1, <2>2, MarkedRow DEF Stamp, Undecided
    <2>3. CASE ~Stamp(i)
      BY <1>0, <1>7, <2>1, <2>3 DEF Run, StartTask, Mail, WorkerDies
    <2> QED
      BY <2>2, <2>3
  <1>8. CASE UNCHANGED vars
    BY <1>0, <1>8 DEF vars
  <1> QED
    BY <1>1, <1>2, <1>3, <1>4, <1>5, <1>6, <1>7, <1>8 DEF Next, Run, TaskStep

\* A click puts a request on an idle button, for what its handler has read.
LEMMA ClickAsks ==
    ASSUME WorkflowsInv, NEW u \in Staff, NEW r \in Row, NEW op \in Ops(kind), Click(u, r, op)
    PROVE  \E b \in Buttons : \E q :
              /\ request' = [request EXCEPT ![u][b] = q]
              /\ q.op = op /\ q.row = r /\ q.read = rows[r].status
              /\ q.read \in From[kind][op] /\ ButtonOf(kind, op) = b
              /\ UNCHANGED <<kind, rows, raced, tasks, mails, repeated>>
  <1> DEFINE q == [op |-> op, row |-> r, read |-> rows[r].status]
             b == ButtonOf(kind, op)
  <1>1. b \in Buttons
    BY DEF ButtonOf, Buttons
  <1>2. q.op = op /\ q.row = r /\ q.read = rows[r].status
    OBVIOUS
  <1>3. /\ request' = [request EXCEPT ![u][b] = q]
        /\ rows[r].status \in From[kind][op]
        /\ UNCHANGED <<kind, rows, raced, tasks, mails, repeated>>
    BY DEF Click, Accepted
  <1> HIDE DEF q
  <1> QED
    BY <1>1, <1>2, <1>3

\* A request is for an operation of the workflow, on a row that is there, by a
\* status that allowed it.
LEMMA RequestsKept ==
    ASSUME WorkflowsInv, [Next]_vars
    PROVE  RequestsInv'
  <1> USE DEF WorkflowsInv
  <1>1. /\ kind' = kind /\ kind \in Kinds
        /\ \A r \in Row : rows[r].status # "absent" => rows'[r].status # "absent"
        /\ \A u \in Staff, b \in Buttons : request[u][b] # Idle => request[u][b].row \in Row
    BY RowsKept DEF ShapeOK, Request
  <1>2. CASE UNCHANGED request
    BY <1>1, <1>2 DEF RequestsInv
  <1>3. ASSUME NEW u \in Staff, NEW r \in Row, NEW op \in Ops(kind), Click(u, r, op)
        PROVE  RequestsInv'
    <2>1. PICK b, q :
              /\ b \in Buttons
              /\ request' = [request EXCEPT ![u][b] = q]
              /\ q.op = op /\ q.row = r /\ q.read = rows[r].status
              /\ q.read \in From[kind][op] /\ ButtonOf(kind, op) = b
      BY <1>3, ClickAsks
    <2>2. rows[r].status # "absent"
      BY <1>1, <2>1, StatusTable
    <2>3. \A v \in Staff, c \in Buttons : request'[v][c] = q \/ request'[v][c] = request[v][c]
      BY <2>1 DEF ShapeOK
    <2>4. \A v \in Staff, c \in Buttons : request'[v][c] # request[v][c] => c = b
      BY <2>1 DEF ShapeOK
    <2> QED
      BY <1>1, <2>1, <2>2, <2>3, <2>4 DEF RequestsInv
  <1>4. ASSUME NEW u \in Staff, NEW b \in Buttons, Commit(u, b)
        PROVE  RequestsInv'
    <2>1. request' = [request EXCEPT ![u][b] = Idle]
      BY <1>4, CommitStamps
    <2>2. \A v \in Staff, c \in Buttons : request'[v][c] \in {Idle, request[v][c]}
      BY <2>1 DEF ShapeOK
    <2> QED
      BY <1>1, <2>2 DEF RequestsInv
  <1> QED
    BY <1>2, <1>3, <1>4, StepsOfRows DEF Insertion, Undecided

\* The final signature and the refusal exclude each other where nothing was
\* written over.
LEMMA DecidedKept ==
    ASSUME WorkflowsInv, [Next]_vars
    PROVE  DecidedInv'
  <1> USE DEF WorkflowsInv
  <1>1. kind' = kind /\ kind \in Kinds
    BY RowsKept DEF ShapeOK
  <1>2. CASE Insertion
    <2>1. PICK r \in Row, u \in Staff \cup Registrant : rows' = Inserted(r, u)
      BY <1>2 DEF Insertion
    <2>2. rows'[r].done = {} /\ \A s \in Row \ {r} : rows'[s] = rows[s]
      BY <2>1, InsertionIsBare
    <2> QED
      BY <1>1, <1>2, <2>2 DEF DecidedInv, Insertion
  <1>3. ASSUME NEW u \in Staff, NEW r \in Row, NEW op \in Ops(kind), Click(u, r, op)
        PROVE  DecidedInv'
    BY <1>1, <1>3 DEF DecidedInv, Click
  <1>4. ASSUME NEW u \in Staff, NEW b \in Buttons, Commit(u, b)
        PROVE  DecidedInv'
    <2> DEFINE q == request[u][b]
    <2>1. /\ q.row \in Row /\ q.op \in Ops(kind) /\ q.read \in From[kind][q.op]
          /\ rows'[q.row].done = rows[q.row].done \cup {q.op}
          /\ rows'[q.row].status = Written(kind, q.op, rows[q.row].status)
          /\ \A r \in Row \ {q.row} : rows'[r] = rows[r]
      BY <1>4, CommitStamps DEF Request
    <2>2. /\ raced \subseteq raced'
          /\ q.row \notin raced' => rows[q.row].status = q.read
      BY <1>4 DEF Commit
    <2> HIDE DEF q
    <2>3. ASSUME q.row \notin raced'
          PROVE  /\ Refusal[kind] \in rows'[q.row].done
                    => rows'[q.row].status = To[kind][Refusal[kind]]
                 /\ Final[kind] \in rows'[q.row].done => rows'[q.row].status \in Settled[kind]
      <3>1. /\ Refusal[kind] \in rows[q.row].done => q.read = To[kind][Refusal[kind]]
            /\ Final[kind] \in rows[q.row].done => q.read \in Settled[kind]
        BY <2>1, <2>2, <2>3 DEF DecidedInv
      <3>2. rows'[q.row].status = Written(kind, q.op, q.read)
        BY <2>1, <2>2, <2>3
      <3> QED
        BY <1>1, <2>1, <3>1, <3>2, DecisionTable
    <2> QED
      BY <1>1, <2>1, <2>2, <2>3 DEF DecidedInv
  <1>5. CASE Undecided
    BY <1>1, <1>5 DEF Undecided, DecidedInv
  <1> QED
    BY <1>2, <1>3, <1>4, <1>5, StepsOfRows

\* One record of the child at most is not deleted: a record is inserted where the
\* index has none.
LEMMA SingleKept ==
    ASSUME WorkflowsInv, [Next]_vars
    PROVE  SingleInv'
  <1> USE DEF WorkflowsInv
  <1>1. kind' = kind /\ kind \in Kinds
    BY RowsKept DEF ShapeOK
  <1>2. CASE Insertion
    <2>1. PICK r \in Row, u \in Staff \cup Registrant : rows' = Inserted(r, u)
      BY <1>2 DEF Insertion
    <2>2. \A s \in Row \ {r} : rows'[s] = rows[s]
      BY <2>1, InsertionIsBare
    <2> QED
      BY <1>1, <1>2, <2>2 DEF SingleInv, Insertion, Indexed
  <1>3. ASSUME NEW u \in Staff, NEW r \in Row, NEW op \in Ops(kind), Click(u, r, op)
        PROVE  SingleInv'
    BY <1>1, <1>3 DEF SingleInv, Click, Indexed
  <1>4. ASSUME \A r \in Row : /\ rows[r].status = "absent" => rows'[r].status = "absent"
                              /\ rows'[r].deleted = FALSE => rows[r].deleted = FALSE,
               \A r \in Row : rows[r].deleted \in BOOLEAN /\ rows'[r].deleted \in BOOLEAN
        PROVE  SingleInv'
    <2>1. Indexed' \subseteq Indexed
      BY <1>4 DEF Indexed
    <2> QED
      BY <1>1, <2>1 DEF SingleInv
  <1>5. \A r \in Row : rows[r].deleted \in BOOLEAN /\ rows'[r].deleted \in BOOLEAN
    BY ShapeKept DEF ShapeOK, RowRecord
  <1>6. ASSUME NEW u \in Staff, NEW b \in Buttons, Commit(u, b)
        PROVE  SingleInv'
    <2> DEFINE q == request[u][b]
    <2>1. /\ rows'[q.row].deleted = rows[q.row].deleted /\ rows[q.row].status # "absent"
          /\ \A r \in Row \ {q.row} : rows'[r] = rows[r]
      BY <1>6, CommitStamps DEF Commit, RequestsInv
    <2> QED
      BY <1>4, <1>5, <2>1
  <1>7. CASE Undecided
    BY <1>4, <1>5, <1>7 DEF Undecided
  <1> QED
    BY <1>2, <1>3, <1>6, <1>7, StepsOfRows

\* What SignedInv says of one row that has n signatures.
SignedTo(r, n) ==
    /\ Collected(r) = FirstSignatures(kind, n)
    /\ Attests(kind, rows[r].status) <= n
    /\ \A u \in Staff, b \in Buttons :
         request[u][b] # Idle /\ request[u][b].row = r
         => Attests(kind, request[u][b].read) <= n

\* A commit leaves its row with the signatures it had, or with the next one.
LEMMA CommitSigns ==
    ASSUME WorkflowsInv, [Next]_vars, NEW u \in Staff, NEW b \in Buttons, Commit(u, b),
           NEW r \in Row, r = request[u][b].row,
           NEW n \in 0..Len(Order[kind]), SignedTo(r, n)
    PROVE  SignedTo(r, n)' \/ (n + 1 <= Len(Order[kind]) /\ SignedTo(r, n + 1)')
  <1> USE DEF WorkflowsInv
  <1> DEFINE q == request[u][b]
  <1>1. /\ r = q.row /\ r \in Row /\ q.op \in Ops(kind) /\ q.read \in From[kind][q.op] /\ q # Idle
        /\ rows'[r].done = rows[r].done \cup {q.op}
        /\ rows'[r].status = Written(kind, q.op, rows[r].status)
        /\ request' = [request EXCEPT ![u][b] = Idle]
    BY CommitStamps DEF Request, Commit
  <1>2. kind' = kind /\ kind \in Kinds /\ Len(Order[kind]) \in Nat
    BY RowsKept, OrderTable DEF ShapeOK
  <1>3. Attests(kind, q.read) <= n /\ Attests(kind, rows[r].status) <= n
    BY <1>1 DEF SignedTo
  <1>4. \A v \in Staff, c \in Buttons :
            request'[v][c] # Idle => request'[v][c] = request[v][c]
    BY <1>1 DEF ShapeOK
  <1>5. \A s : Attests(kind, s) \in Nat
    BY <1>2 DEF Attests, Kinds
  <1>6. \A m \in Nat : n <= m =>
            \A v \in Staff, c \in Buttons :
                request'[v][c] # Idle /\ request'[v][c].row = r
                => Attests(kind, request'[v][c].read) <= m
    BY <1>4, <1>5 DEF SignedTo
  <1> HIDE DEF q
  <1>7. CASE q.op = Refusal[kind] /\ Attests(kind, rows'[r].status) = 0
    <2>1. (rows'[r].done \ {Refusal[kind]}) = (rows[r].done \ {Refusal[kind]})
      BY <1>1, <1>7
    <2>2. SignedTo(r, n)'
      BY <1>2, <1>6, <1>7, <2>1 DEF SignedTo, Collected
    <2> QED
      BY <2>2
  <1>8. ASSUME NEW j \in 1..Len(Order[kind]), q.op = Order[kind][j],
               Attests(kind, q.read) = j - 1,
               \/ rows'[r].status = rows[r].status
               \/ Attests(kind, rows'[r].status) <= j
        PROVE  SignedTo(r, n)' \/ (n + 1 <= Len(Order[kind]) /\ SignedTo(r, n + 1)')
    <2>1. rows'[r].done \ {Refusal[kind]} = FirstSignatures(kind, n) \cup {Order[kind][j]}
      <3>1. q.op # Refusal[kind]
        BY <1>2, <1>8, OrderTable
      <3> QED
        BY <1>1, <1>8, <3>1 DEF SignedTo, Collected
    <2>2. CASE j <= n
      <3>1. FirstSignatures(kind, n) \cup {Order[kind][j]} = FirstSignatures(kind, n)
        BY <2>2 DEF FirstSignatures
      <3>2. Attests(kind, rows'[r].status) <= n
        BY <1>2, <1>3, <1>5, <1>8, <2>2
      <3> QED
        BY <1>2, <1>6, <2>1, <3>1, <3>2 DEF SignedTo, Collected
    <2>3. CASE j = n + 1
      <3>1. FirstSignatures(kind, n) \cup {Order[kind][j]} = FirstSignatures(kind, n + 1)
        BY <2>3 DEF FirstSignatures
      <3>2. Attests(kind, rows'[r].status) <= n + 1
        BY <1>2, <1>3, <1>5, <1>8, <2>3
      <3> QED
        BY <1>2, <1>6, <2>1, <2>3, <3>1, <3>2 DEF SignedTo, Collected
    <2> QED
      BY <1>2, <1>3, <1>8, <2>2, <2>3
  <1>9. \/ q.op = Refusal[kind] /\ Attests(kind, rows'[r].status) = 0
        \/ \E j \in 1..Len(Order[kind]) :
             /\ q.op = Order[kind][j] /\ Attests(kind, q.read) = j - 1
             /\ rows'[r].status = rows[r].status \/ Attests(kind, rows'[r].status) <= j
    BY <1>1, <1>2, SigningTable
  <1> QED
    BY <1>7, <1>8, <1>9

\* Every row has the first signatures of its workflow.
LEMMA SignedKept ==
    ASSUME WorkflowsInv, [Next]_vars
    PROVE  SignedInv'
  <1> USE DEF WorkflowsInv
  <1>1. /\ kind' = kind /\ kind \in Kinds /\ Len(Order[kind]) \in Nat
        /\ \A r \in Row : \E n \in 0..Len(Order[kind]) : SignedTo(r, n)
    BY RowsKept, OrderTable DEF ShapeOK, SignedInv, SignedTo
  <1>2. SUFFICES ASSUME NEW r \in Row
                 PROVE  \E n \in 0..Len(Order[kind]) : SignedTo(r, n)'
    BY <1>1 DEF SignedInv, SignedTo
  <1>3. PICK n \in 0..Len(Order[kind]) : SignedTo(r, n)
    BY <1>1
  <1>4. CASE Insertion
    <2>1. PICK s \in Row, u \in Staff \cup Registrant :
              rows[s].status = "absent" /\ rows' = Inserted(s, u) /\ UNCHANGED request
      BY <1>4 DEF Insertion
    <2>2. CASE r = s
      <3>1. rows'[r].done = {} /\ rows'[r].status = First[kind]
        BY <2>1, <2>2, InsertionIsBare
      <3>2. \A u_1 \in Staff, b \in Buttons :
                request[u_1][b] # Idle => request[u_1][b].row # r
        BY <2>1, <2>2 DEF RequestsInv
      <3>3. Attests(kind, First[kind]) = 0 /\ FirstSignatures(kind, 0) = {}
        BY <1>1, StatusTable DEF FirstSignatures
      <3>4. SignedTo(r, 0)'
        BY <1>1, <2>1, <3>1, <3>2, <3>3 DEF SignedTo, Collected
      <3> QED
        BY <1>1, <3>4
    <2>3. CASE r # s
      <3>1. rows'[r] = rows[r]
        BY <2>1, <2>3, InsertionIsBare
      <3> QED
        BY <1>1, <1>3, <2>1, <3>1 DEF SignedTo, Collected
    <2> QED
      BY <2>2, <2>3
  <1>5. ASSUME NEW u \in Staff, NEW s \in Row, NEW op \in Ops(kind), Click(u, s, op)
        PROVE  \E m \in 0..Len(Order[kind]) : SignedTo(r, m)'
    <2>1. PICK b, q :
              /\ b \in Buttons
              /\ request' = [request EXCEPT ![u][b] = q]
              /\ q.row = s /\ q.read = rows[s].status /\ UNCHANGED rows
      BY <1>5, ClickAsks
    <2>2. \A v \in Staff, c \in Buttons : request'[v][c] = q \/ request'[v][c] = request[v][c]
      BY <2>1 DEF ShapeOK
    <2>3. SignedTo(r, n)'
      BY <1>1, <1>3, <2>1, <2>2 DEF SignedTo, Collected
    <2> QED
      BY <2>3
  <1>6. ASSUME NEW u \in Staff, NEW b \in Buttons, Commit(u, b)
        PROVE  \E m \in 0..Len(Order[kind]) : SignedTo(r, m)'
    <2>1. CASE r = request[u][b].row
      <3>1. SignedTo(r, n)' \/ (n + 1 <= Len(Order[kind]) /\ SignedTo(r, n + 1)')
        BY <1>3, <1>6, <2>1, CommitSigns
      <3>2. n + 1 <= Len(Order[kind]) => n + 1 \in 0..Len(Order[kind])
        BY <1>1
      <3> QED
        BY <3>1, <3>2
    <2>2. CASE r # request[u][b].row
      <3>1. rows'[r] = rows[r] /\ request' = [request EXCEPT ![u][b] = Idle]
        BY <1>6, <2>2, CommitStamps
      <3>2. \A v \in Staff, c \in Buttons : request'[v][c] # Idle => request'[v][c] = request[v][c]
        BY <3>1 DEF ShapeOK
      <3>3. SignedTo(r, n)'
        BY <1>1, <1>3, <3>1, <3>2 DEF SignedTo, Collected
      <3> QED
        BY <3>3
    <2> QED
      BY <2>1, <2>2
  <1>7. CASE Undecided
    <2>1. SignedTo(r, n)'
      BY <1>1, <1>3, <1>7 DEF Undecided, SignedTo, Collected
    <2> QED
      BY <2>1
  <1> QED
    BY <1>4, <1>5, <1>6, <1>7, StepsOfRows

\* A set with no two members has one at most.
LEMMA AtMostOne ==
    ASSUME NEW S, IsFiniteSet(S), \A x, y \in S : x = y
    PROVE  Cardinality(S) <= 1
  <1>1. CASE S = {}
    BY <1>1, FS_EmptySet
  <1>2. ASSUME NEW x \in S
        PROVE  Cardinality(S) = 1
    <2>1. S = {x}
      BY <1>2
    <2> QED
      BY <2>1, FS_Singleton
  <1> QED
    BY <1>1, <1>2

\* The runs that got as far as a donor are finitely many.
LEMMA RunsAreFinite ==
    ASSUME NEW r \in Row, NEW d \in Donor
    PROVE  /\ IsFiniteSet(RunsTo(r, d)) /\ Cardinality(RunsTo(r, d)) \in Nat
           /\ Cardinality(RunsTo(r, d)) <= Cardinality(Task) /\ Cardinality(Task) \in Nat
  <1>1. RunsTo(r, d) \in SUBSET Task /\ IsFiniteSet(Task)
    BY WorkflowsAssumption DEF RunsTo
  <1> QED
    BY <1>1, FS_Subset, FS_CardinalityType

\* A task that is queued has told nobody, and is for a published report.
LEMMA QueueKeepsTasks ==
    ASSUME ShapeOK, TasksInv, NEW r \in Row, Queue(r), "publish" \in rows'[r].done,
           \A s \in Row : rows[s].done \subseteq rows'[s].done, UNCHANGED <<mails, repeated>>
    PROVE  TasksInv'
  <1>1. /\ \A i \in Task : tasks[i] # NoTask => tasks'[i] = tasks[i]
        /\ \A i \in Task : tasks[i] = NoTask /\ tasks'[i] # NoTask =>
             tasks'[i].st = "queued" /\ tasks'[i].row = r /\ tasks'[i].told = {}
    BY QueueAdds
  <1>2. \A i \in Task : tasks[i] # NoTask => tasks[i].row \in Row
    BY DeliveryFields DEF ShapeOK
  <1>3. \A s \in Row, d \in Donor : RunsTo(s, d)' = RunsTo(s, d)
    BY <1>1 DEF RunsTo
  <1>4. \A i \in Task : Active(i)' => Active(i) /\ tasks'[i] = tasks[i]
    BY <1>1 DEF Active
  <1>5. \A s \in Row, d \in Donor : mails'[s][d] <= Cardinality(RunsTo(s, d))'
    BY <1>3 DEF TasksInv
  <1>6. \A i \in Task : tasks'[i] # NoTask =>
            /\ "publish" \in rows'[tasks'[i].row].done
            /\ tasks'[i].st = "queued" => tasks'[i].told = {}
    BY <1>1, <1>2 DEF TasksInv
  <1>7. \A i, j \in Task : Active(i)' /\ Active(j)' /\ tasks'[i].row = tasks'[j].row
                           => i = j \/ tasks'[i].row \in repeated'
    BY <1>4 DEF TasksInv
  <1> QED
    BY <1>5, <1>6, <1>7 DEF TasksInv

\* A run that goes on mails those it has not told, and becomes active only where no
\* other is, or marks the report.
LEMMA RunKeepsTasks ==
    ASSUME ShapeOK, TasksInv, NEW i \in Task, Run(i),
           \A s \in Row : rows[s].done \subseteq rows'[s].done
    PROVE  TasksInv'
  <1> DEFINE row == tasks[i].row
  <1>1. /\ tasks[i] \in Delivery /\ tasks'[i] \in Delivery
        /\ tasks'[i].row = row /\ tasks'[i].st # "queued"
        /\ tasks[i].told \subseteq tasks'[i].told
        /\ \A j \in Task \ {i} : tasks'[j] = tasks[j]
        /\ tasks[i] # NoTask /\ tasks'[i] # NoTask /\ row \in Row
    <2>1. /\ tasks[i] \in Delivery /\ tasks'[i] \in Delivery
          /\ tasks'[i].row = row /\ tasks'[i].st # "queued"
          /\ tasks[i].told \subseteq tasks'[i].told
          /\ tasks' = [tasks EXCEPT ![i] = tasks'[i]]
      BY RunGoesOn
    <2>2. \A j \in Task \ {i} : tasks'[j] = tasks[j]
      BY <2>1 DEF ShapeOK
    <2> QED
      BY <2>1, <2>2, DeliveryFields
  <1>2. \A j \in Task : tasks[j] # NoTask => tasks[j].row \in Row
    BY DeliveryFields DEF ShapeOK
  <1>3. \A j \in Task : tasks'[j] # NoTask =>
            /\ "publish" \in rows'[tasks'[j].row].done
            /\ tasks'[j].st = "queued" => tasks'[j].told = {}
    BY <1>1, <1>2 DEF TasksInv
  <1>4. \A s \in Row, d \in Donor : mails'[s][d] <= Cardinality(RunsTo(s, d))'
    <2>1. SUFFICES ASSUME NEW s \in Row, NEW d \in Donor
                   PROVE  mails'[s][d] <= Cardinality(RunsTo(s, d))'
      OBVIOUS
    <2>2. /\ RunsTo(s, d) \subseteq RunsTo(s, d)' /\ RunsTo(s, d)' \subseteq Task
          /\ mails[s][d] <= Cardinality(RunsTo(s, d)) /\ mails[s][d] \in Nat
      BY <1>1 DEF RunsTo, TasksInv, ShapeOK
    <2>3. /\ IsFiniteSet(RunsTo(s, d)') /\ Cardinality(RunsTo(s, d)') \in Nat
          /\ IsFiniteSet(RunsTo(s, d)) /\ Cardinality(RunsTo(s, d)) \in Nat
          /\ Cardinality(RunsTo(s, d)) <= Cardinality(RunsTo(s, d)')
      BY <2>2, WorkflowsAssumption, FS_Subset, FS_CardinalityType
    <2>4. CASE mails'[s][d] = mails[s][d]
      BY <2>2, <2>3, <2>4
    <2>5. CASE mails'[s][d] # mails[s][d]
      <3>1. PICK e \in Donor : /\ mails' = [mails EXCEPT ![row][e] = @ + 1]
                               /\ tasks' = [tasks EXCEPT ![i].told = @ \cup {e}]
                               /\ e \notin tasks[i].told
        BY <2>5 DEF Run, StartTask, Stamp, WorkerDies, Mail
      <3>2. s = row /\ d = e /\ mails'[s][d] = mails[s][d] + 1
        BY <1>1, <2>5, <3>1 DEF ShapeOK
      <3>3. d \in tasks'[i].told
        BY <1>1, <3>1, <3>2 DEF ShapeOK, Delivery
      <3>4. i \notin RunsTo(s, d) /\ i \in RunsTo(s, d)'
        BY <1>1, <3>1, <3>2, <3>3 DEF RunsTo
      <3>5. RunsTo(s, d)' = RunsTo(s, d) \cup {i}
        BY <1>1, <2>2, <3>4 DEF RunsTo
      <3>6. Cardinality(RunsTo(s, d)') = Cardinality(RunsTo(s, d)) + 1
        BY <2>3, <3>4, <3>5, FS_AddElement
      <3> QED
        BY <2>2, <2>3, <3>2, <3>6
    <2> QED
      BY <2>4, <2>5
  <1>5. \A j \in Task \ {i} : (Active(j)' <=> Active(j)) /\ tasks'[j] = tasks[j]
    BY <1>1 DEF Active
  <1>6. repeated \subseteq repeated'
    BY DEF Run, StartTask, Stamp, WorkerDies, Mail
  <1>7. ASSUME NEW j \in Task \ {i}, Active(i)', Active(j), tasks[j].row = row
        PROVE  row \in repeated'
    <2>1. CASE Active(i)
      BY <1>6, <1>7, <2>1 DEF TasksInv
    <2>2. CASE ~Active(i)
      <3>1. StartTask(i)
        <4>1. tasks[i].st # "mailing" /\ tasks[i].told = {}
          BY <1>1, <2>2 DEF Active
        <4> QED
          BY <4>1 DEF Run, Stamp, WorkerDies, Mail
      <3>2. tasks[i].st = "queued" /\ tasks[i].told = {}
        BY <1>1, <3>1 DEF StartTask, TasksInv
      <3>3. ~AlreadyNotified(row)
        <4>1. SUFFICES ASSUME AlreadyNotified(row)
                       PROVE  FALSE
          OBVIOUS
        <4>2. tasks' = [tasks EXCEPT ![i].st = "over"]
          BY <3>1, <4>1 DEF StartTask
        <4>3. tasks'[i].st = "over" /\ tasks'[i].told = {}
          BY <1>1, <3>2, <4>2 DEF ShapeOK, Delivery
        <4> QED
          BY <1>7, <4>3 DEF Active
      <3>4. Mailing(row)
        BY <1>1, <1>7, DeliveryFields DEF Mailing, Active, ShapeOK
      <3> QED
        BY <3>1, <3>3, <3>4 DEF StartTask, AlreadyNotified
    <2> QED
      BY <2>1, <2>2
  <1>8. \A j, k \in Task : Active(j)' /\ Active(k)' /\ tasks'[j].row = tasks'[k].row
                           => j = k \/ tasks'[j].row \in repeated'
    <2>1. SUFFICES ASSUME NEW j \in Task, NEW k \in Task, Active(j)', Active(k)', j # k,
                          tasks'[j].row = tasks'[k].row
                   PROVE  tasks'[j].row \in repeated'
      OBVIOUS
    <2>2. CASE j = i
      BY <1>1, <1>5, <1>7, <2>1, <2>2
    <2>3. CASE k = i
      BY <1>1, <1>5, <1>7, <2>1, <2>3
    <2>4. CASE j # i /\ k # i
      BY <1>5, <1>6, <2>1, <2>4 DEF TasksInv
    <2> QED
      BY <2>2, <2>3, <2>4
  <1> QED
    BY <1>3, <1>4, <1>8 DEF TasksInv

\* The tasks are as TasksInv has them.
LEMMA TasksKept ==
    ASSUME WorkflowsInv, [Next]_vars
    PROVE  TasksInv'
  <1> USE DEF WorkflowsInv
  <1>1. \A r \in Row : rows[r].done \subseteq rows'[r].done
    BY RowsKept
  <1>2. CASE UNCHANGED <<tasks, mails, repeated>>
    <2>1. \A i \in Task : tasks[i] # NoTask => tasks[i].row \in Row
      BY DeliveryFields DEF ShapeOK
    <2>2. \A i \in Task : tasks'[i] # NoTask =>
            /\ "publish" \in rows'[tasks'[i].row].done
            /\ tasks'[i].st = "queued" => tasks'[i].told = {}
      BY <1>1, <1>2, <2>1 DEF TasksInv
    <2>3. /\ \A s \in Row, d \in Donor : RunsTo(s, d)' = RunsTo(s, d)
          /\ \A i \in Task : Active(i)' <=> Active(i)
      BY <1>2 DEF RunsTo, Active
    <2> QED
      BY <1>2, <2>2, <2>3 DEF TasksInv
  <1>3. ASSUME NEW r \in Row, Replay(r)
        PROVE  TasksInv'
    BY <1>1, <1>3, QueueKeepsTasks DEF Replay
  <1>4. ASSUME NEW u \in Staff, NEW b \in Buttons, Commit(u, b)
        PROVE  TasksInv'
    <2> DEFINE q == request[u][b]
    <2>1. q.row \in Row /\ rows'[q.row].done = rows[q.row].done \cup {q.op}
      BY <1>4, CommitStamps DEF Request
    <2>2. UNCHANGED <<mails, repeated>>
      BY <1>4 DEF Commit
    <2>3. CASE Announces(q.op)
      <3>1. Queue(q.row) /\ "publish" \in rows'[q.row].done
        BY <1>4, <2>1, <2>3 DEF Commit, Announces
      <3> HIDE DEF q
      <3> QED
        BY <1>1, <2>1, <2>2, <3>1, QueueKeepsTasks
    <2>4. CASE ~Announces(q.op)
      BY <1>2, <1>4, <2>2, <2>4 DEF Commit
    <2> QED
      BY <2>3, <2>4
  <1>5. ASSUME NEW i \in Task, Run(i)
        PROVE  TasksInv'
    BY <1>1, <1>5, RunKeepsTasks
  <1>6. ASSUME NEW u \in Staff, Create(u) \/ Fetch(u)
        PROVE  TasksInv'
    BY <1>2, <1>6 DEF Create, Fetch
  <1>7. ASSUME NEW u \in Registrant, SearchDuplicate(u) \/ Register(u)
        PROVE  TasksInv'
    BY <1>2, <1>7 DEF SearchDuplicate, Register
  <1>8. ASSUME NEW r \in Row, DeleteCase(r)
        PROVE  TasksInv'
    BY <1>2, <1>8 DEF DeleteCase
  <1>9. ASSUME NEW u \in Staff, NEW r \in Row, NEW op \in Ops(kind), Click(u, r, op)
        PROVE  TasksInv'
    BY <1>2, <1>9 DEF Click
  <1>10. CASE UNCHANGED vars
    BY <1>2, <1>10 DEF vars
  <1> QED
    BY <1>3, <1>4, <1>5, <1>6, <1>7, <1>8, <1>9, <1>10 DEF Next, Run, TaskStep

-----------------------------------------------------------------------------
(* What the consoles offer.                                                *)

\* The admin's and the manager's reports: what is offered is what is accepted,
\* and the admin is offered something until the report is published or rejected.
LEMMA ReportOffersFit ==
    ASSUME NEW role \in Roles, NEW s \in Statuses("report") \ {"absent"}
    PROVE  /\ \A op \in Offers("report", role, s) :
                role \in Allowed["report"][op] /\ s \in From["report"][op]
           /\ role = "org_admin" /\ s \notin Finished => Offers("report", role, s) # {}
  <1>1. /\ Offers("report", "org_admin", s)
             = IF s \in DOMAIN AdminNext THEN {AdminNext[s], "reject"} ELSE {}
        /\ Offers("report", "partner_manager", s)
             = IF s \in DOMAIN ManagerNext THEN {ManagerNext[s], "reject"} ELSE {}
        /\ Offers("report", "partner_staff", s) = {}
    BY DEF Offers, ReportOffers
  <1>2. /\ DOMAIN AdminNext = {"draft", "pending_partner_approval", "pending_org_approval",
                               "org_approved"}
        /\ AdminNext["draft"] = "submit"
        /\ AdminNext["pending_partner_approval"] = "approve_partner"
        /\ AdminNext["pending_org_approval"] = "approve_org"
        /\ AdminNext["org_approved"] = "publish"
        /\ DOMAIN ManagerNext = {"pending_partner_approval"}
        /\ ManagerNext["pending_partner_approval"] = "approve_partner"
    BY DEF AdminNext, ManagerNext
  <1>3. /\ Allowed["report"]["submit"] = Roles
        /\ \A op \in Ops("report") \ {"submit"} :
             Allowed["report"][op] = {"org_admin", "partner_manager"}
    BY ReportTables DEF Allowed, Ops
  <1>4. s \in {"draft", "pending_partner_approval", "pending_org_approval", "org_approved",
               "published_to_donor", "rejected"}
    BY ReportTables DEF Statuses
  <1>5. CASE role = "org_admin"
    BY <1>1, <1>2, <1>3, <1>4, <1>5, ReportTables DEF Finished
  <1>6. CASE role = "partner_manager"
    BY <1>1, <1>2, <1>3, <1>4, <1>6, ReportTables
  <1>7. CASE role = "partner_staff"
    BY <1>1, <1>7
  <1> QED
    BY <1>5, <1>6, <1>7 DEF Roles

\* Transfers, in the consoles of the organisation's staff.
LEMMA TransferOffersFit ==
    ASSUME NEW role \in Roles \ {"partner_manager"}, NEW s \in Statuses("transfer") \ {"absent"}
    PROVE  /\ \A op \in Offers("transfer", role, s) :
                role \in Allowed["transfer"][op] /\ s \in From["transfer"][op]
           /\ role = "org_admin" /\ s \notin Finished => Offers("transfer", role, s) # {}
  <1>1. /\ Offers("transfer", "org_admin", s)
             = {op \in Ops("transfer") : s \in From["transfer"][op]}
        /\ Offers("transfer", "partner_staff", s) = {}
    BY DEF Offers, TransferOffers
  <1>2. \A op \in Ops("transfer") : Allowed["transfer"][op] = {"org_admin"}
    BY TransferTables DEF Allowed, Ops
  <1>3. s \in {"pending", "approved", "completed", "cancelled"}
    BY TransferTables DEF Statuses
  <1>4. CASE role = "org_admin"
    <2>1. \A op \in Offers("transfer", role, s) :
              role \in Allowed["transfer"][op] /\ s \in From["transfer"][op]
      BY <1>1, <1>2, <1>4
    <2>2. s \notin Finished => "cancel" \in Offers("transfer", role, s)
      BY <1>1, <1>3, <1>4, TransferTables DEF Finished
    <2> QED
      BY <2>1, <2>2
  <1>5. CASE role = "partner_staff"
    BY <1>1, <1>5
  <1> QED
    BY <1>4, <1>5 DEF Roles

\* Cases.
LEMMA CaseOffersFit ==
    ASSUME NEW role \in Roles, NEW s \in Statuses("case") \ {"absent"}
    PROVE  /\ \A op \in Offers("case", role, s) :
                role \in Allowed["case"][op] /\ s \in From["case"][op]
           /\ role = "org_admin" /\ s \notin Finished => Offers("case", role, s) # {}
  <1>1. Offers("case", role, s) =
            IF role = "partner_staff" THEN {}
            ELSE IF s = "pending_review" THEN {"approve", "reject"}
            ELSE IF s \in {"approved", "reserved"} THEN {"release"} ELSE {}
    BY DEF Offers, CaseOffers
  <1>2. \A op \in Ops("case") : Allowed["case"][op] = {"org_admin", "partner_manager"}
    BY CaseTables DEF Allowed, Ops
  <1>3. s \in {"pending_review", "approved", "available", "rejected"}
    BY CaseTables DEF Statuses
  <1> QED
    BY <1>1, <1>2, <1>3, CaseTables DEF Roles, Finished

-----------------------------------------------------------------------------
(* The theorems.                                                           *)

\* The empty tables.
LEMMA WorkflowsStart == Init => WorkflowsInv
  <1> SUFFICES ASSUME Init
               PROVE  WorkflowsInv
    OBVIOUS
  <1>0. /\ kind \in Kinds /\ \A r \in Row : rows[r] = Absent
        /\ Absent.status = "absent" /\ Absent.done = {} /\ Absent.deleted = FALSE
        /\ \A u \in Staff, b \in Buttons : request[u][b] = Idle
        /\ \A i \in Task : tasks[i] = NoTask
    BY DEF Init, Absent
  <1>a. Len(Order[kind]) \in Nat /\ "absent" \in Statuses(kind) /\ "absent" \in AllStatuses
        /\ Attests(kind, "absent") = 0
    BY <1>0, OrderTable, StatusTable
  <1>1. ShapeOK
    <2>1. Absent \in RowRecord
      BY <1>a DEF Absent, RowRecord
    <2> QED
      BY <1>a, <2>1 DEF Init, ShapeOK
  <1>2. RowsInv /\ RequestsInv
    BY <1>0, <1>a DEF Init, RowsInv, RequestsInv
  <1>3. SignedInv
    <2>1. FirstSignatures(kind, 0) = {} /\ \A r \in Row : Collected(r) = {}
      BY <1>0 DEF FirstSignatures, Collected
    <2>2. \A r \in Row : Attests(kind, rows[r].status) <= 0
      <3>1. \A r \in Row : rows[r].status = "absent"
        BY <1>0
      <3> QED
        BY <1>a, <3>1
    <2>3. \A r \in Row : SignedTo(r, 0)
      BY <1>0, <2>1, <2>2 DEF SignedTo
    <2> QED
      BY <1>a, <2>3 DEF SignedInv, SignedTo
  <1>4. DecidedInv /\ SingleInv
    BY <1>0 DEF DecidedInv, SingleInv, Indexed
  <1>5. TasksInv
    <2>1. \A r \in Row, d \in Donor : Cardinality(RunsTo(r, d)) \in Nat /\ mails[r][d] = 0
      BY RunsAreFinite DEF Init
    <2> QED
      BY <1>0, <2>1 DEF TasksInv, Active
  <1> QED
    BY <1>1, <1>2, <1>3, <1>4, <1>5 DEF WorkflowsInv

\* The inductive invariant is one.
THEOREM Inductive == Spec => []WorkflowsInv
  <1>1. WorkflowsInv /\ [Next]_vars => WorkflowsInv'
    BY ShapeKept, RowsKept, RequestsKept, SignedKept, DecidedKept, SingleKept, TasksKept
       DEF WorkflowsInv
  <1> QED
    BY WorkflowsStart, <1>1, PTL DEF Spec

\* Rows, requests and deliveries keep their types: what is requested is an
\* operation of the workflow by a status that allows it, and no donor gets more
\* mails than there are deliveries.
THEOREM TypeCorrect == Spec => []TypeOK
  <1>1. WorkflowsInv => TypeOK
    <2> SUFFICES ASSUME WorkflowsInv
                 PROVE  TypeOK
      OBVIOUS
    <2> USE DEF WorkflowsInv
    <2>1. \A r \in Row : rows[r].deleted \in BOOLEAN /\ rows[r].notified \in BOOLEAN
      BY DEF ShapeOK, RowRecord
    <2>2. \A u \in Staff, b \in Buttons : request[u][b] # Idle => request[u][b].row \in Row
      BY DEF ShapeOK, Request
    <2>3. \A i \in Task : tasks[i] # NoTask =>
              /\ tasks[i].row \in Row /\ tasks[i].told \subseteq Donor
              /\ tasks[i].st \in {"queued", "mailing", "over"}
      BY DeliveryFields DEF ShapeOK
    <2>4. mails \in [Row -> [Donor -> 0..Cardinality(Task)]]
      <3>1. ASSUME NEW r \in Row, NEW d \in Donor
            PROVE  mails[r][d] \in 0..Cardinality(Task)
        <4>1. mails[r][d] \in Nat /\ mails[r][d] <= Cardinality(RunsTo(r, d))
          BY DEF ShapeOK, TasksInv
        <4> QED
          BY <4>1, RunsAreFinite
      <3> QED
        BY <3>1 DEF ShapeOK
    <2>5. \A r \in Row : /\ rows[r].status \in Statuses(kind) /\ rows[r].done \subseteq Ops(kind)
                         /\ rows[r].status = "absent" => rows[r] = Absent
      BY DEF RowsInv
    <2>6. \A u \in Staff, r \in Row : shown[u][r] \in Statuses(kind)
      BY DEF RowsInv
    <2>7. kind \in Kinds /\ registering \subseteq Registrant
          /\ raced \subseteq Row /\ repeated \subseteq Row /\ lost \subseteq Row
      BY DEF ShapeOK
    <2>8. \A u \in Staff, b \in Buttons :
             request[u][b] # Idle => /\ request[u][b].row \in Row
                                     /\ request[u][b].op \in Ops(kind)
                                     /\ ButtonOf(kind, request[u][b].op) = b
                                     /\ request[u][b].read \in From[kind][request[u][b].op]
                                     /\ rows[request[u][b].row].status # "absent"
      BY <2>2 DEF RequestsInv
    <2> QED
      BY <2>1, <2>3, <2>4, <2>5, <2>6, <2>7, <2>8 DEF TypeOK
  <1> QED
    BY Inductive, <1>1, PTL

\* Only decisions that overlapped contradict each other (_check_transition,
\* _transition, _check_case_transition).
THEOREM NoContradiction == Spec => []DecidedOnce
  <1>1. WorkflowsInv => DecidedOnce
    <2> SUFFICES ASSUME WorkflowsInv, NEW r \in Row \ raced,
                        Refusal[kind] \in rows[r].done, Final[kind] \in rows[r].done
                 PROVE  FALSE
      BY DEF DecidedOnce, Final
    <2>1. kind \in Kinds
      BY DEF WorkflowsInv, ShapeOK
    <2>2. rows[r].status = To[kind][Refusal[kind]] /\ rows[r].status \in Settled[kind]
      BY DEF WorkflowsInv, DecidedInv
    <2>3. CASE kind = "report"
      BY <2>2, <2>3, ReportTables DEF Settled
    <2>4. CASE kind = "transfer"
      BY <2>2, <2>4, TransferTables DEF Settled
    <2>5. CASE kind = "case"
      BY <2>2, <2>5, CaseTables DEF Settled
    <2> QED
      BY <2>1, <2>3, <2>4, <2>5 DEF Kinds
  <1> QED
    BY Inductive, <1>1, PTL

\* A child is registered once, whoever registers it at the same moment and however
\* often its record is deleted (create_orphan_record, idx_orphans_no_duplicate).
THEOREM RegisteredOnce == Spec => []OneRecordPerChild
  <1>1. WorkflowsInv => OneRecordPerChild
    <2>1. IsFiniteSet(Indexed)
      <3>1. Indexed \in SUBSET Row /\ IsFiniteSet(Row)
        BY WorkflowsAssumption DEF Indexed
      <3> QED
        BY <3>1, FS_Subset
    <2> QED
      BY <2>1, AtMostOne DEF WorkflowsInv, SingleInv, OneRecordPerChild, Indexed
  <1> QED
    BY Inductive, <1>1, PTL

\* What a console with an up-to-date list offers is accepted, and the admin is
\* offered something for every row that is not finished.
THEOREM ConsolesTellTheTruth == Spec => []OfferedIsAccepted
  <1>1. WorkflowsInv => OfferedIsAccepted
    <2> SUFFICES ASSUME WorkflowsInv, NEW u \in Staff, NEW r \in Row, Fresh(u, r)
                 PROVE  LET offers == Offers(kind, Role[u], shown[u][r]) IN
                        /\ kind # "transfer" \/ Role[u] # "partner_manager"
                           => \A op \in offers :
                                Accepted(u, op, rows[r]) \/ OwnCase(u, op, rows[r])
                        /\ Role[u] = "org_admin" /\ rows[r].status \notin Finished
                           => offers # {}
      BY DEF OfferedIsAccepted
    <2>1. /\ kind \in Kinds /\ Role[u] \in Roles /\ rows[r].status \in Statuses(kind) \ {"absent"}
          /\ shown[u][r] = rows[r].status /\ ~rows[r].deleted
      BY WorkflowsAssumption DEF Fresh, WorkflowsInv, ShapeOK, RowsInv
    <2>2. CASE kind = "report"
      BY <2>1, <2>2, ReportOffersFit DEF Accepted
    <2>3. CASE kind = "transfer"
      <3>1. CASE Role[u] = "partner_manager"
        BY <2>3, <3>1
      <3>2. CASE Role[u] # "partner_manager"
        BY <2>1, <2>3, <3>2, TransferOffersFit DEF Accepted
      <3> QED
        BY <3>1, <3>2
    <2>4. CASE kind = "case"
      BY <2>1, <2>4, CaseOffersFit DEF Accepted
    <2> QED
      BY <2>1, <2>2, <2>3, <2>4 DEF Kinds
  <1> QED
    BY Inductive, <1>1, PTL

\* A donor hears of a published report only, and once unless a run of the task
\* began beside another (notify_donors_of_report).
THEOREM MailedOnce == Spec => []OneMailUnlessRepeated
  <1>1. WorkflowsInv => OneMailUnlessRepeated
    <2> SUFFICES ASSUME WorkflowsInv, NEW r \in Row, NEW d \in Donor
                 PROVE  /\ mails[r][d] > 0 => "publish" \in rows[r].done
                        /\ mails[r][d] > 1 => r \in repeated
      BY DEF OneMailUnlessRepeated
    <2> DEFINE runs == RunsTo(r, d)
    <2>1. /\ mails[r][d] \in Nat /\ mails[r][d] <= Cardinality(runs)
          /\ IsFiniteSet(runs) /\ Cardinality(runs) \in Nat
      BY RunsAreFinite DEF WorkflowsInv, ShapeOK, TasksInv
    <2>2. \A i \in runs : /\ Active(i) /\ tasks[i].row = r /\ i \in Task
                          /\ "publish" \in rows[r].done
      BY DEF RunsTo, Active, WorkflowsInv, TasksInv
    <2>3. CASE runs = {}
      <3>1. Cardinality(runs) = 0
        BY <2>3, FS_EmptySet
      <3> QED
        BY <2>1, <3>1
    <2>4. CASE runs # {} /\ r \in repeated
      BY <2>2, <2>4
    <2>5. CASE runs # {} /\ r \notin repeated
      <3>1. \A i, j \in runs : i = j
        BY <2>2, <2>5 DEF WorkflowsInv, TasksInv
      <3>2. Cardinality(runs) <= 1
        BY <2>1, <3>1, AtMostOne
      <3> QED
        BY <2>1, <2>2, <2>5, <3>2
    <2> QED
      BY <2>3, <2>4, <2>5
  <1> QED
    BY Inductive, <1>1, PTL

\* The instance counts as this module does.
LEMMA SameCardinality == \A S : Signed!Cardinality(S) = Cardinality(S)
  BY DEF Cardinality, Signed!Cardinality

\* A step signs one row with its next signature, or signs nothing.
LEMMA StepSigns ==
    ASSUME WorkflowsInv, WorkflowsInv', [Next]_vars
    PROVE  [Signed!Next]_<<Order[kind], [r \in Row |-> rows[r].done \ {Refusal[kind]}]>>
  <1> DEFINE sig == [r \in Row |-> rows[r].done \ {Refusal[kind]}]
  <1>1. /\ kind' = kind /\ kind \in Kinds /\ Len(Order[kind]) \in Nat
        /\ \A r \in Row : \E n \in 0..Len(Order[kind]) : SignedTo(r, n)
    BY RowsKept, OrderTable DEF WorkflowsInv, ShapeOK, SignedInv, SignedTo
  <1>2. ASSUME \A r \in Row : Collected(r)' = Collected(r)
        PROVE  UNCHANGED <<Order[kind], sig>>
    BY <1>1, <1>2 DEF Collected
  <1>3. CASE Insertion
    <2>1. PICK s \in Row, u \in Staff \cup Registrant :
              rows[s].status = "absent" /\ rows' = Inserted(s, u)
      BY <1>3 DEF Insertion
    <2>2. rows'[s].done = {} /\ \A r \in Row \ {s} : rows'[r] = rows[r]
      BY <2>1, InsertionIsBare
    <2>3. rows[s] = Absent /\ Absent.done = {}
      BY <2>1 DEF WorkflowsInv, RowsInv, Absent
    <2> QED
      BY <1>1, <1>2, <2>2, <2>3 DEF Collected
  <1>4. ASSUME NEW u \in Staff, NEW r \in Row, NEW op \in Ops(kind), Click(u, r, op)
        PROVE  UNCHANGED <<Order[kind], sig>>
    BY <1>1, <1>2, <1>4 DEF Collected, Click
  <1>5. ASSUME NEW u \in Staff, NEW b \in Buttons, Commit(u, b)
        PROVE  UNCHANGED <<Order[kind], sig>> \/ Signed!Next
    <2>1. PICK r \in Row : /\ r = request[u][b].row
                           /\ \A s \in Row \ {r} : rows'[s] = rows[s]
      BY <1>5, CommitStamps DEF Request
    <2>2. PICK n \in 0..Len(Order[kind]) : SignedTo(r, n)
      BY <1>1
    <2>3. Collected(r) = FirstSignatures(kind, n) /\ Cardinality(Collected(r)) = n
      BY <1>1, <2>2, CountSignatures DEF SignedTo
    <2>4. CASE SignedTo(r, n)'
      BY <1>1, <1>2, <2>1, <2>3, <2>4 DEF SignedTo, Collected
    <2>5. CASE n + 1 <= Len(Order[kind]) /\ SignedTo(r, n + 1)'
      <3>1. Collected(r)' = Collected(r) \cup {Order[kind][n + 1]}
        BY <1>1, <2>3, <2>5 DEF SignedTo, FirstSignatures
      <3>2. sig' = [sig EXCEPT ![r] = sig[r] \cup {Order[kind][Cardinality(sig[r]) + 1]}]
        BY <1>1, <2>1, <2>3, <3>1 DEF Collected
      <3>3. Cardinality(sig[r]) < Len(Order[kind])
        BY <1>1, <2>3, <2>5 DEF Collected
      <3>4. Order[kind]' = Order[kind]
        BY <1>1
      <3>5. sig' = [sig EXCEPT ![r] = @ \cup {Order[kind][Cardinality(@) + 1]}]
        BY ONLY <3>2
      <3>6. Signed!Sign(r)
        BY ONLY <3>3, <3>4, <3>5, SameCardinality DEF Signed!Sign
      <3> QED
        BY <3>6 DEF Signed!Next
    <2> QED
      BY <1>5, <2>1, <2>2, <2>4, <2>5, CommitSigns
  <1>6. CASE Undecided
    BY <1>1, <1>2, <1>6 DEF Undecided, Collected
  <1> QED
    BY <1>3, <1>2, <1>4, <1>5, <1>6, StepsOfRows DEF Collected

\* The workflows implement Signatures: every row collects its signatures in their
\* order, none is skipped and none taken back, however the requests overlap.
THEOREM SignaturesInOrder == Spec => SignsInOrder
  <1>1. Init => Signed!Init
    BY DEF Init, Signed!Init, Absent
  <1> QED
    BY <1>1, StepSigns, Inductive, PTL DEF Spec, SignsInOrder, Signed!Spec
=============================================================================
