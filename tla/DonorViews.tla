------------------------------ MODULE DonorViews ------------------------------
(***************************************************************************)
(* What the pages of a donor compute from the rows they fetch: the pure    *)
(* functions of frontend/src/lib/donorOrphans.ts, donorDashboard.ts,       *)
(* donorPayments.ts, paymentStatus.ts and waqf.ts, over sequences of rows  *)
(* in the order the server sent them.                                      *)
(*                                                                         *)
(* Dates are days, 0 a missing one.  Ids, names, codes and currencies are  *)
(* numbers that stand for their alphabetical rank, 0 for a missing one.    *)
(* Amounts are whole numbers.                                              *)
(***************************************************************************)
EXTENDS Integers, Sequences, SequencesExt, FiniteSets, FiniteSetsExt

CONSTANTS
    Now,          \* today
    YearLength    \* days of a year

ASSUME ViewsAssumption == Now \in Nat \ {0} /\ YearLength \in Nat \ {0}

SignalWindow == 90     \* REPORT_SIGNAL_WINDOW_DAYS
PriorityWindow == 30   \* REPORT_PRIORITY_WINDOW_DAYS
FeedLimit == 4
Year(day) == day \div YearLength

-----------------------------------------------------------------------------
(* Filtering and sorting.  A row keeps its index in what was fetched, and  *)
(* stands where the number of rows before it says: SelectSeq and SortSeq,  *)
(* in a form that proofs can open.                                         *)

\* The elements of s at the indices I, in the order R of the indices.
IndexAt(n, I, R) == CHOOSE i \in I : Cardinality({j \in I : <<j, i>> \in R}) = n - 1
Listed(s, I, R) == <<>> \o [n \in 1..Cardinality(I) |-> s[IndexAt(n, I, R)]]

\* filter.  (What is chosen from a set of one, TLC evaluates once.)
AsTheyCame(I) == {p \in I \X I : p[1] < p[2]}
Kept(s, I) == Listed(s, I, AsTheyCame(I))
Where(s, Test(_)) ==
    CHOOSE t \in {Kept(r, {i \in DOMAIN r : Test(r[i])}) : r \in {<<>> \o s}} : TRUE

\* Comparators are given as keys compared component by component.
LexLess(k, l) ==
    \E i \in DOMAIN k : k[i] < l[i] /\ \A j \in 1..i - 1 : k[j] = l[j]

\* Array.prototype.sort is stable: of equal keys the first stays first.
ByKey(key) ==
    {p \in (DOMAIN key) \X (DOMAIN key) :
        LexLess(key[p[1]], key[p[2]]) \/ (key[p[1]] = key[p[2]] /\ p[1] < p[2])}
SortedBy(s, Key(_)) ==
    CHOOSE t \in {Listed(r, DOMAIN r, ByKey([i \in DOMAIN r |-> Key(r[i])])) : r \in {<<>> \o s}} : TRUE

\* Added up one by one.
Total(f, S) == MapThenSumSet(LAMBDA x : f[x], S)

\* byDateAsc: missing dates last; negated, newest first and missing dates first.
Late == 1000000
Ascending(day) == IF day = 0 THEN Late ELSE day
Descending(day) == -Ascending(day)

-----------------------------------------------------------------------------
(* Payments.                                                               *)

FoldStatus(status) ==
    CASE status = "completed" -> "completed"
      [] status = "failed" -> "notCompleted"
      [] status \in {"refunded", "partially_refunded"} -> "refunded"
      [] status \in {"chargeback", "disputed"} -> "underReview"
      [] OTHER -> "inProgress"
Folded == {"completed", "inProgress", "notCompleted", "refunded", "underReview"}

EffectiveDate(p) == IF p.completed # 0 THEN p.completed ELSE p.initiated

\* One bucket per currency, in the order the rows bring them up.
Buckets(rows) ==
    LET first == Where([i \in DOMAIN rows |-> i],
                       LAMBDA i : \A j \in 1..i - 1 : rows[j].currency # rows[i].currency)
        Of(c) == {i \in DOMAIN rows : rows[i].currency = c}
    IN [n \in DOMAIN first |->
           LET c == rows[first[n]].currency
           IN [currency |-> c, count |-> Cardinality(Of(c)),
               total |-> Total([i \in DOMAIN rows |-> rows[i].amount], Of(c))]]

\* The dominant currency is shown; the others are counted, never added to it.
Giving(rows, Key(_)) ==
    IF rows = <<>> THEN [currency |-> 0, total |-> 0, count |-> 0, others |-> 0]
    ELSE LET ranked == SortedBy(Buckets(rows), Key)
         IN [currency |-> ranked[1].currency, total |-> ranked[1].total,
             count |-> Len(rows), others |-> Len(ranked) - 1]

Completed(p) == FoldStatus(p.status) = "completed"
CurrentYear == Year(Now)

\* mutant: the larger total wins
TotalRank(b) == <<-b.total, -b.count, b.currency>>

YtdRank(b) == <<-b.count, -b.total, b.currency>>
YearRank(b) == <<-b.count, -b.total, b.currency>>
WaqfRank(b) == <<-b.count, -b.total, b.currency>>
ImpactRank(b) == <<-b.count, -b.total, b.currency>>

\* The dashboard, the payments page (of one year) and the waqf page.
SummarizeYearToDate(payments) ==
    Giving(Where(payments,
               LAMBDA p : /\ Completed(p)
                          /\ Year(IF p.completed # 0 THEN p.completed ELSE p.initiated) = CurrentYear),
           YtdRank)

RowsInYear(rows, year) == Where(rows, LAMBDA p : Year(EffectiveDate(p)) = year)
SummarizeYear(rows, year) == Giving(Where(RowsInYear(rows, year), Completed), YearRank)

SummarizeMyWaqf(payments) ==
    Giving(Where(payments, LAMBDA p : p.waqf /\ Completed(p)), WaqfRank)

\* The chips of the payments page: their counts, and the one in effect.
CountByStatus(rows, chip) ==
    IF chip = "all" THEN Len(rows)
    ELSE Cardinality({i \in DOMAIN rows : FoldStatus(rows[i].status) = chip})

ActiveChip(rows, chip) == IF CountByStatus(rows, chip) > 0 THEN chip ELSE "all"
FilterPaymentRows(rows, chip) ==
    Where(rows, LAMBDA p : chip = "all" \/ FoldStatus(p.status) = chip)

-----------------------------------------------------------------------------
(* Children.                                                               *)

LiveStatuses == {"active", "paused", "overdue"}
Live(s) == s.status \in LiveStatuses

IsUnreadIncoming(m) == ~m.mine /\ ~m.read
Latest(days) == IF days = {} THEN 0 ELSE Max(days)

\* A card: a live sponsorship, the unread messages of the child (joined by
\* code) and the latest published report (joined by child).
BuildOrphanCards(sponsorships, reports, messages) ==
    LET Unread(s) == {i \in DOMAIN messages : /\ s.code # 0 /\ messages[i].code = s.code
                                              /\ IsUnreadIncoming(messages[i])}
        Card(s) == [s |-> s, unread |-> Cardinality(Unread(s)),
                    unreadAt |-> Latest({messages[i].created : i \in Unread(s)}),
                    reportAt |-> Latest({r.published : r \in {x \in ToSet(reports) : x.orphan = s.orphan}})]
        live == Where(sponsorships, Live)
    IN [i \in DOMAIN live |-> Card(live[i])]

Recent(day, window) == day # 0 /\ Now - day \in 0..window

PriorityTier(c) ==
    CASE c.s.status = "overdue" -> 1
      [] c.s.status # "overdue" /\ c.unread > 0 -> 2
      [] c.s.status # "overdue" /\ c.unread = 0 /\ Recent(c.reportAt, PriorityWindow) -> 3
      [] OTHER -> IF c.s.status = "paused" THEN 5 ELSE 4

\* mutant: cards of equal rank and name stay as they came
NameKey(c) ==
    <<PriorityTier(c),
      CASE PriorityTier(c) \in {1, 4} -> Ascending(c.s.next)
        [] PriorityTier(c) = 2 -> Descending(c.unreadAt)
        [] PriorityTier(c) = 3 -> Descending(c.reportAt)
        [] PriorityTier(c) = 5 -> Descending(c.s.start),
      c.s.name>>

\* compareOrphanCards.
CardKey(c) ==
    <<PriorityTier(c),
      CASE PriorityTier(c) \in {1, 4} -> Ascending(c.s.next)
        [] PriorityTier(c) = 2 -> Descending(c.unreadAt)
        [] PriorityTier(c) = 3 -> Descending(c.reportAt)
        [] PriorityTier(c) = 5 -> Descending(c.s.start),
      c.s.name, c.s.id>>

SortCards(cards, sort) ==
    CASE sort = "priority" -> SortedBy(cards, CardKey)
      [] sort = "name" -> SortedBy(cards, LAMBDA c : <<c.s.name, c.s.id>>)
      [] sort = "newest" -> SortedBy(cards, LAMBDA c : <<Descending(c.s.start), c.s.id>>)

NeedsAttention(c) == c.s.status = "overdue" \/ c.unread > 0

FilterCards(cards, chip) ==
    Where(cards, LAMBDA c : CASE chip = "all" -> TRUE
                                  [] chip = "attention" -> NeedsAttention(c)
                                  [] OTHER -> c.s.status = chip)

\* The attention bar of the dashboard.
SummarizeAttention(cards) ==
    [overdue |-> SortedBy(Where(cards, LAMBDA c : c.s.status = "overdue"),
                          LAMBDA c : <<Ascending(c.s.next), c.s.id>>),
     unread |-> SortedBy(Where(cards, LAMBDA c : c.unread > 0 /\ c.s.status # "overdue"),
                         LAMBDA c : <<Descending(c.unreadAt), c.s.id>>),
     unreadTotal |-> Total([i \in DOMAIN cards |-> cards[i].unread], DOMAIN cards)]

\* The news of the dashboard, a message before a report of the same day and child.
BuildNewsFeed(cards) ==
    LET News(c) ==
            (IF c.unread > 0 THEN <<[at |-> c.unreadAt, child |-> c.s.orphan, kind |-> 0]>> ELSE <<>>)
            \o (IF Recent(c.reportAt, SignalWindow)
                THEN <<[at |-> c.reportAt, child |-> c.s.orphan, kind |-> 1]>> ELSE <<>>)
        items == SortedBy(FlattenSeq([i \in DOMAIN cards |-> News(cards[i])]),
                          LAMBDA n : <<Descending(n.at), n.child, n.kind>>)
    IN SubSeq(items, 1, IF Len(items) < FeedLimit THEN Len(items) ELSE FeedLimit)

\* mutant: a paused sponsorship shows its next payment
ScheduledWhilePaused(s) == s.status \in {"active", "paused"} /\ s.next > Now

\* The next payment of the dashboard: the first of the soonest, by id.  A date
\* is its midnight, so a payment due today is past.
Scheduled(s) == s.status = "active" /\ s.next > Now
NextScheduledPayment(sponsorships) ==
    SubSeq(SortedBy(Where(sponsorships, Scheduled), LAMBDA s : <<s.next, s.id>>), 1,
           IF \E i \in DOMAIN sponsorships : Scheduled(sponsorships[i]) THEN 1 ELSE 0)

\* A payment the impact bar takes for due, the days with one, and the rows due on
\* a day, in the order they came.
Coming(s) == s.status = "active" /\ s.next > Now
DaysDue(S) == {s.next : s \in {x \in S : Coming(x)}}
DueThat(day, sponsorships) == Where(sponsorships, LAMBDA s : Coming(s) /\ s.next = day)

\* The impact bar of My Orphans.  Of the soonest payments it names the child of
\* the one that came first.
SummarizeImpact(sponsorships) ==
    LET live == Where(sponsorships, Live)
        money == [i \in DOMAIN live |-> [currency |-> live[i].currency, amount |-> live[i].paid]]
        due == DaysDue(ToSet(live))
        starts == {s.start : s \in ToSet(live)} \ {0}
    IN [children |-> Cardinality({s.orphan : s \in ToSet(live)}),
        since |-> IF starts = {} THEN 0 ELSE Min(starts),
        giving |-> Giving(money, ImpactRank),
        monthly |-> LET c == Giving(money, ImpactRank).currency
                        active == {s \in ToSet(live) : s.status = "active" /\ s.currency = c}
                    IN Total([s \in active |-> s.monthly], active),
        next |-> IF due = {} THEN 0 ELSE Min(due),
        child |-> IF due = {} THEN 0 ELSE DueThat(Min(due), sponsorships)[1].name]

PendingSponsorships(sponsorships) ==
    Where(sponsorships, LAMBDA s : s.status = "pending" /\ s.code # 0)
=============================================================================
