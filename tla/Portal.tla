-------------------------------- MODULE Portal --------------------------------
(***************************************************************************)
(* The donor's portal: pages reached through the routes of module Routing, *)
(* that show what module DonorViews computes from the rows in the query    *)
(* cache (pages/DonorDashboardPage.tsx, DonorOrphansPage.tsx,              *)
(* DonorPaymentsPage.tsx, DonorSponsorshipWizardPage.tsx).                 *)
(*                                                                         *)
(* Pages share the cached sponsorships, reports and messages; payments are *)
(* cached per page.  The server sends rows newest first and breaks no      *)
(* ties: rows of one day come in any order, a different one each time.     *)
(*                                                                         *)
(* The wizard's POST creates a row; its answer comes later, wherever the   *)
(* browser has gone meanwhile, or never.                                   *)
(***************************************************************************)
EXTENDS Routing, DonorViews

CONSTANTS
    Book,        \* what the server may hold of a donor
    PageSize     \* PAGE_SIZE of the payments page

\* The rows of the donor's endpoints, the fields the pages use: names, codes and
\* days are numbers, 0 for none.
PaymentStatus == {"pending", "processing", "completed", "failed", "refunded",
                  "partially_refunded", "chargeback", "disputed", "on_hold"}
PaymentRow == [id : Nat, status : PaymentStatus, currency : Nat, amount : Nat,
               initiated : Nat, failed : Nat, completed : Nat, waqf : BOOLEAN]
SponsorshipStatus == {"pending", "active", "paused", "overdue", "cancelled", "completed", "transferred"}
SponsorshipRow == [id : Nat, status : SponsorshipStatus, orphan : Nat, code : Nat, name : Nat, currency : Nat,
                   monthly : Nat, paid : Nat, created : Nat, start : Nat, next : Nat]
ReportRow == [id : Nat, orphan : Nat, published : Nat]
MessageRow == [id : Nat, code : Nat, created : Nat, mine : BOOLEAN, read : BOOLEAN]

\* The row the wizard creates.
Proposed == [id |-> 9, status |-> "pending", orphan |-> 9, code |-> 9, name |-> 9, currency |-> 1,
             monthly |-> 5, paid |-> 0, created |-> Now, start |-> Now, next |-> 0]

\* Ids are primary keys, a new row's is a new one, and an index keeps a donor to
\* one live sponsorship of a child (01_database_schema.sql:797).
OneOfEach(rows) ==
    /\ \A x, y \in rows \cup {Proposed} : x.id = y.id => x = y
    /\ \A x, y \in rows : Live(x) /\ Live(y) /\ x.orphan = y.orphan => x = y

IsBook(b) ==
    /\ b \in [payments : SUBSET PaymentRow, sponsorships : SUBSET SponsorshipRow,
              reports : SUBSET ReportRow, messages : SUBSET MessageRow]
    /\ \A k \in {"payments", "sponsorships", "reports", "messages"} : IsFiniteSet(b[k])
    /\ OneOfEach(b.sponsorships)

ASSUME PortalAssumption ==
    /\ PageSize \in Nat \ {0}
    /\ \A b \in Book : IsBook(b)

VARIABLES
    book,        \* the server's rows of the donor who is signed in
    sponsorships, reports, messages, dashboard, \* cached answers, the last the dashboard's payments
    asked,       \* sponsorships under way to the browser
    wizard,      \* the wizard's POST: "idle", "written" by the server, "answered"
    overtaken,   \* history: a list of before the proposal may be taken for fresh
    record,      \* rows of the payments page
    offset, chip \* its state

cacheVars == <<sponsorships, reports, messages, dashboard, asked, overtaken>>
pageVars == <<record, offset, chip>>
vars == <<routingVars, book, wizard, cacheVars, pageVars>>

Empty == [payments |-> {}, sponsorships |-> {}, reports |-> {}, messages |-> {}]
Absent == [st |-> "absent", rows |-> <<>>]
Answer(rows) == [st |-> "fresh", rows |-> rows]
NothingAsked == [on |-> FALSE, rows |-> <<>>]

\* A sponsorship as GET /me/sponsorships sends it: the fields of the row alone.
\* The child's code and name are no fields of it, and the handler adds none.
Projected(s) == [s EXCEPT !.code = 0, !.name = 0]

IsAnswer(a, rows) == a.st \in {"absent", "fresh", "stale"} /\ ToSet(a.rows) \subseteq rows

TypeOK ==
    /\ RoutingTypeOK
    /\ account.role # "donor" => book = Empty
    /\ IsAnswer(sponsorships, {Projected(s) : s \in book.sponsorships})
    /\ IsAnswer(reports, book.reports)
    /\ IsAnswer(messages, book.messages)
    /\ {p.id : p \in ToSet(dashboard.rows) \cup ToSet(record.rows)} \subseteq {p.id : p \in book.payments}
    /\ asked.on \in BOOLEAN /\ ToSet(asked.rows) \subseteq {Projected(s) : s \in book.sponsorships}
    /\ wizard \in {"idle", "written", "answered"} /\ overtaken \in BOOLEAN
    /\ record.st \in {"absent", "fresh"} /\ Len(record.rows) <= PageSize
    /\ offset \in Nat /\ offset % PageSize = 0
    /\ chip \in Folded \cup {"all"}

NewCache ==
    /\ sponsorships' = Absent /\ reports' = Absent /\ messages' = Absent
    /\ dashboard' = Absent /\ asked' = NothingAsked /\ overtaken' = FALSE

NewPage == record' = Absent /\ offset' = 0 /\ chip' = "all"

\* What who signs in may have.  Bound: no rows while the wizard's answer to whoever
\* has left is awaited; it will find nothing but an account to take to the payments.
Books(a) == IF a.role = "donor" /\ wizard = "idle" THEN Book ELSE {Empty}

Init ==
    /\ RoutingInit /\ wizard = "idle"
    /\ book \in Books(account)
    /\ sponsorships = Absent /\ reports = Absent /\ messages = Absent
    /\ dashboard = Absent /\ asked = NothingAsked
    /\ overtaken = FALSE
    /\ record = Absent /\ offset = 0 /\ chip = "all"

-----------------------------------------------------------------------------
(* Navigation.  The state of the payments page goes with the page; the     *)
(* cache goes with a page load, a sign-in and a sign-out.                  *)

Links ==
    IF path \in Pages["donor"] THEN Pages["donor"] \cup {"/orphans"}
    ELSE IF path \in DOMAIN Office THEN DOMAIN Office
    ELSE IF path \in {"/", "/orphans"}
         THEN {"/", "/orphans"} \cup (IF token # "valid" THEN {"/login"}
                                      ELSE IF me = NotLoaded THEN {} ELSE {HomePath[me.role]})
    ELSE {}

Redirected == Redirect /\ NewPage /\ UNCHANGED <<book, wizard, cacheVars>>

Navigate ==
    /\ Rendered(path) = Show
    /\ \E p \in Links : FollowLink(p)
    /\ NewPage
    /\ UNCHANGED <<book, wizard, cacheVars>>

SessionStep ==
    /\ MeAnswered \/ TokenExpires \/ Refreshed \/ DiscardExpired \/ VerifyInPlace \/ VerifyElsewhere
    /\ UNCHANGED <<book, wizard, cacheVars, pageVars>>

SignsIn ==
    /\ \E a \in Account : SignIn(a) /\ book' \in Books(a)
    /\ NewCache /\ NewPage /\ UNCHANGED wizard

\* Bound: a page with data is reloaded before another address is opened, which
\* leads to the same states.
Opened == IF me = NotLoaded THEN Path ELSE {path}

\* A page load forgets what was awaited, a sign-out does not.
StartsOver ==
    /\ \/ Logout /\ UNCHANGED wizard
       \/ (VerifyHere \/ \E p \in Opened : OpenAddress(p)) /\ wizard' = "idle"
    /\ NewCache /\ NewPage /\ UNCHANGED book

-----------------------------------------------------------------------------
(* Queries of the pages.                                                   *)

On(pages) == path \in pages /\ Rendered(path) = Show
Overview == {"/donor/dashboard", "/donor/orphans"}
Listing == Overview \cup {"/donor/payments"}

\* Newest first: sponsorships and messages as they were created, reports as they
\* were published, payments by the day they were completed, or failed, or started.
NewestFirst(rows, Day(_)) ==
    {s \in SetToSeqs(rows) : \A i \in 1..Len(s) - 1 : Day(s[i]) >= Day(s[i + 1])}
Created(row) == row.created
Published(report) == report.published
Settled(p) == IF p.completed # 0 THEN p.completed ELSE IF p.failed # 0 THEN p.failed ELSE p.initiated

AskSponsorships ==
    /\ On(Listing) /\ sponsorships.st # "fresh" /\ ~asked.on
    /\ \E s \in NewestFirst({Projected(x) : x \in book.sponsorships}, Created) :
          asked' = [on |-> TRUE, rows |-> s]
    /\ UNCHANGED <<routingVars, book, wizard, sponsorships, reports, messages, dashboard, overtaken, pageVars>>

SponsorshipsArrive ==
    /\ AtRest /\ asked.on
    /\ sponsorships' = Answer(asked.rows)
    /\ asked' = NothingAsked
    /\ UNCHANGED <<routingVars, book, wizard, reports, messages, dashboard, overtaken, pageVars>>

SponsorshipsLost ==
    /\ AtRest /\ asked.on
    /\ asked' = NothingAsked
    /\ UNCHANGED <<routingVars, book, wizard, sponsorships, reports, messages, dashboard, overtaken, pageVars>>

\* staleTime is over.
SponsorshipsAge ==
    /\ AtRest /\ sponsorships.st = "fresh"
    /\ sponsorships' = [sponsorships EXCEPT !.st = "stale"]
    /\ overtaken' = FALSE
    /\ UNCHANGED <<routingVars, book, wizard, reports, messages, dashboard, asked, pageVars>>

ReportsArrive ==
    /\ On(Overview)
    /\ \E s \in NewestFirst(book.reports, Published) : reports' = Answer(s)
    /\ UNCHANGED <<routingVars, book, wizard, sponsorships, messages, dashboard, asked, overtaken, pageVars>>

MessagesArrive ==
    /\ On(Overview)
    /\ \E s \in NewestFirst(book.messages, Created) : messages' = Answer(s)
    /\ UNCHANGED <<routingVars, book, wizard, sponsorships, reports, dashboard, asked, overtaken, pageVars>>

DashboardPaymentsArrive ==
    /\ On({"/donor/dashboard"})
    /\ \E s \in NewestFirst(book.payments, Settled) : dashboard' = Answer(s)
    /\ UNCHANGED <<routingVars, book, wizard, sponsorships, reports, messages, asked, overtaken, pageVars>>

\* mutant: one row more than a page holds
LongSlice(s, n) == SubSeq(s, n + 1, IF n + PageSize < Len(s) THEN n + PageSize + 1 ELSE Len(s))

Slice(s, n) == SubSeq(s, n + 1, IF n + PageSize < Len(s) THEN n + PageSize ELSE Len(s))

\* The slice of the payments at the page's offset.
RecordArrives ==
    /\ On({"/donor/payments"})
    /\ \E s \in NewestFirst(book.payments, Settled) : record' = Answer(Slice(s, offset))
    /\ UNCHANGED <<routingVars, book, wizard, cacheVars, offset, chip>>

\* keepPreviousData: the old rows stay until the new slice is here.
TurnPage ==
    /\ On({"/donor/payments"}) /\ record.st = "fresh"
    /\ \/ offset + PageSize < Cardinality(book.payments) /\ offset' = offset + PageSize
       \/ offset > 0 /\ offset' = offset - PageSize
    /\ UNCHANGED <<routingVars, book, wizard, cacheVars, record, chip>>

\* Chips without rows are not drawn.
PickChip(c) ==
    /\ On({"/donor/payments"}) /\ record.st = "fresh"
    /\ c # chip /\ (c = "all" \/ CountByStatus(record.rows, c) > 0)
    /\ chip' = c
    /\ UNCHANGED <<routingVars, book, wizard, cacheVars, record, offset>>

-----------------------------------------------------------------------------
(* Changes of the rows.                                                    *)

\* mutant: the wizard does not invalidate the cache
StillFresh(a) == a

Invalidated(a) == IF a.st = "fresh" THEN [a EXCEPT !.st = "stale"] ELSE a

HasProposal(rows) == Projected(Proposed) \in ToSet(rows)

\* The last step of the wizard: the row is created.  Where the browser went
\* between the click and this, it may as well have been before the click.
Propose ==
    /\ On({"/donor/sponsor"}) /\ wizard = "idle" /\ Proposed \notin book.sponsorships
    /\ book' = [book EXCEPT !.sponsorships = @ \cup {Proposed}]
    /\ wizard' = "written"
    /\ UNCHANGED <<routingVars, cacheVars, pageVars>>

\* onSuccess: ["donor", "me"] is invalidated.  A list under way is asked for anew
\* if a page shows the one of before, and is else taken for fresh when it comes.
ProposalAnswered ==
    /\ AtRest /\ wizard = "written"
    /\ wizard' = "answered"
    /\ sponsorships' = Invalidated(sponsorships)
    /\ asked' = IF On(Listing) /\ sponsorships.st # "absent" THEN NothingAsked ELSE asked
    /\ overtaken' = (asked'.on /\ ~HasProposal(asked'.rows))
    /\ UNCHANGED <<routingVars, book, reports, messages, dashboard, pageVars>>

\* What that asks for has come: the donor, wherever by now, is taken to the payments.
LeaveWizard ==
    /\ AtRest /\ wizard = "answered"
    /\ wizard' = "idle"
    /\ path' = "/donor/payments" /\ from' = NoPath
    /\ IF path = path' THEN UNCHANGED pageVars ELSE NewPage
    /\ UNCHANGED <<token, account, me, book, cacheVars>>

\* onError, the answer is lost: the donor is told so, and what is cached or under
\* way stays as it is.
ProposalLost ==
    /\ AtRest /\ wizard = "written"
    /\ wizard' = "idle"
    /\ overtaken' = \/ sponsorships.st = "fresh" /\ ~HasProposal(sponsorships.rows)
                    \/ asked.on /\ ~HasProposal(asked.rows)
    /\ UNCHANGED <<routingVars, book, sponsorships, reports, messages, dashboard, asked, pageVars>>

\* The gateway reports a charge.
PaymentCompletes ==
    /\ AtRest
    /\ \E p \in book.payments :
          /\ p.status = "processing"
          /\ book' = [book EXCEPT !.payments =
                        (@ \ {p}) \cup {[p EXCEPT !.status = "completed", !.completed = Now]}]
    /\ UNCHANGED <<routingVars, wizard, cacheVars, pageVars>>

Next ==
    \/ Redirected \/ Navigate \/ SessionStep \/ SignsIn \/ StartsOver
    \/ AskSponsorships \/ SponsorshipsArrive \/ SponsorshipsLost \/ SponsorshipsAge
    \/ ReportsArrive \/ MessagesArrive \/ DashboardPaymentsArrive
    \/ RecordArrives \/ TurnPage \/ \E c \in Folded \cup {"all"} : PickChip(c)
    \/ Propose \/ ProposalAnswered \/ LeaveWizard \/ ProposalLost \/ PaymentCompletes

\* A redirect is part of rendering the page: it happens at once.
Spec == Init /\ [][Next]_vars /\ WF_vars(Redirected)

-----------------------------------------------------------------------------
(* What the pages show.                                                    *)

Cards == BuildOrphanCards(sponsorships.rows, reports.rows, messages.rows)

ChildrenShown(cards, rows) ==
    [orphans |-> [k \in {"priority", "name", "newest"} |-> SortCards(cards, k)],
     attention |-> SummarizeAttention(cards),
     feed |-> BuildNewsFeed(cards),
     impact |-> SummarizeImpact(rows),
     next |-> NextScheduledPayment(rows)]
MoneyShown == SummarizeYearToDate(dashboard.rows)

\* Three redirects at most lead to a page, were it a blank one: from an office
\* page home, from there to the portal and to the verification of the e-mail is
\* as far as it goes (DonorRoute.tsx:21).
Lands(p) == Rendered(p) \in {Show, Blank}
Hop(p) == IF Lands(p) THEN p ELSE Rendered(p)
FewRedirects == Lands(Hop(Hop(Hop(path))))

\* The guards and the landing page send the browser on, but never in a circle:
\* whoever visits whatever address, in whatever state of the token and of the
\* cached profile, the redirects come to an end at a page, were it a blank one
\* (LandingPage.tsx:26, DonorRoute.tsx:21, LoginPage.tsx:111).
Settles == [](Moving => <>AtRest)

\* What is shown is for the account whose tokens the tab holds: a page behind a
\* guard only to the roles it is for, the donor's pages only once the e-mail is
\* verified, and no rows of an account that has left (useLogout.ts:17).
OwnersOf == [p \in Path |-> IF p \in DOMAIN Office THEN Office[p]
                            ELSE {r \in Role : \/ p \in PublicPages \cup SignInPages
                                               \/ r \in DOMAIN Pages /\ p \in Pages[r]}]
ScreenIsForAccount ==
    /\ Rendered(path) = Show => account.role \in OwnersOf[path]
    /\ On(Pages["donor"]) => account.verified
    /\ \A a \in {sponsorships, reports, messages, dashboard, record} : a.st # "absent" => account.role = "donor"

\* The order in which the server sends the rows decides nothing: an answer with
\* the rows it had leaves the cards, the attention bar, the news, the next
\* payment and the totals as they were (donorDashboard.ts:102 "a stable total
\* order", donorOrphans.ts:154 "so it is total").
SameRows(a, b) == a.st # "absent" /\ b.st # "absent" /\ ToSet(a.rows) = ToSet(b.rows)
Refetched(a, b) == a.rows # b.rows /\ SameRows(a, b)
RefetchChangesNothing ==
    [][ /\ Refetched(dashboard, dashboard') => MoneyShown' = MoneyShown
        /\ (\/ Refetched(sponsorships, sponsorships') /\ UNCHANGED <<reports, messages>>
            \/ Refetched(reports, reports') /\ UNCHANGED <<sponsorships, messages>>
            \/ Refetched(messages, messages') /\ UNCHANGED <<sponsorships, reports>>)
               => \A before \in {Cards}, after \in {Cards'} :
                     ChildrenShown(after, sponsorships'.rows)
                       = ChildrenShown(before, sponsorships.rows) ]_vars

\* The dashboard, the payments page and the waqf page add up the same rows to
\* the same result, each with its own code: the year's total, its currency and
\* count, the count on the chip, and the waqf's share when all of it was waqf
\* (waqf.ts:44 "so two surfaces can never name different dominants").  The rows
\* under a status chip are as many as it says, and the page is never empty for
\* a chip that lost its rows to another page or to a payment that completed.
SurfacesAgree ==
  /\ LET active == ActiveChip(record.rows, chip)
         shown == FilterPaymentRows(record.rows, active)
     IN  /\ record.rows # <<>> => shown # <<>>
         /\ active # "all" => Len(shown) = CountByStatus(record.rows, active)
  /\ SameRows(dashboard, record) =>
        LET year == SummarizeYear(record.rows, CurrentYear)
            done == Where(record.rows, Completed)
            ofYear == \A p \in ToSet(done) : Year(EffectiveDate(p)) = CurrentYear
        IN /\ year = SummarizeYearToDate(dashboard.rows)
           /\ ofYear => year.count = CountByStatus(record.rows, "completed")
           /\ (ofYear /\ \A p \in ToSet(done) : p.waqf) => year = SummarizeMyWaqf(dashboard.rows)

\* The dashboard and My Orphans tell one story of the children: the attention
\* bar and the "attention" chip name the same children, each once; the next
\* payment falls on the same day on both; and whoever is in the news or next to
\* be paid for has a card (donorDashboard.ts:143, donorOrphans.ts:209 and 321).
ChildrenAgree ==
    LET cards == Cards
        bar == SummarizeAttention(cards)
        named == bar.overdue \o bar.unread
        next == NextScheduledPayment(sponsorships.rows)
        children == {cards[i].s.orphan : i \in DOMAIN cards}
    IN /\ ToSet(named) = ToSet(FilterCards(cards, "attention"))
       /\ \A i, j \in DOMAIN named : named[i].s.orphan = named[j].s.orphan => i = j
       /\ SummarizeImpact(sponsorships.rows).next = (IF next = <<>> THEN 0 ELSE next[1].next)
       /\ {n.orphan : n \in ToSet(next)} \cup {n.child : n \in ToSet(BuildNewsFeed(cards))}
            \subseteq children

\* The donor who has been told that a proposal was made does not look at the
\* list of before: a list that counts as fresh has it, wherever the donor went
\* while the answer was awaited, unless the list was under way when that came
\* (DonorSponsorshipWizardPage.tsx:83).  Until the answer is here, and if it is
\* lost, nothing is invalidated.
FreshListHasProposal ==
    (Proposed \in book.sponsorships /\ sponsorships.st = "fresh" /\ wizard # "written" /\ ~overtaken)
        => HasProposal(sponsorships.rows)

\* "My Payments carries the "complete the payment" CTA for the pending
\* sponsorship this wizard just created" (DonorSponsorshipWizardPage.tsx:85).
ProposalIsOffered ==
    (Proposed \in book.sponsorships /\ sponsorships.st = "fresh" /\ wizard # "written" /\ ~overtaken)
        => \E s \in ToSet(PendingSponsorships(sponsorships.rows)) : s.id = Proposed.id
=============================================================================
