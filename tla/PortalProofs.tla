----------------------------- MODULE PortalProofs -----------------------------
(***************************************************************************)
(* Proofs about Portal, for every set of books a donor may have, every     *)
(* size of a page and every day: the types, that the screen is for the     *)
(* account whose tokens the tab holds, that three redirects at most lead   *)
(* to a page, that a list which counts as fresh has the proposal the donor *)
(* has been told of, and, from the theorems about DonorViews, that the pages agree     *)
(* with each other whatever the order in which the server sends the rows.  *)
(***************************************************************************)
EXTENDS Portal, DonorViewsProofs

-----------------------------------------------------------------------------
(* The tables of addresses.                                                *)

OfficePaths == {"/admin", "/admin/orphans", "/admin/dashboard", "/admin/media-review",
                "/admin/marketing-channels", "/admin/finance", "/admin/users",
                "/partner", "/partner/approvals", "/platform"}
Portals == {"donor", "orphan", "guardian", "orphanage_manager"}

\* What the tables are defined for.
LEMMA Tables == DOMAIN Office = OfficePaths /\ DOMAIN Pages = Portals /\ DOMAIN HomePath = Role
  <1>1. DOMAIN Office = OfficePaths
    BY DEF Office, OfficePaths
  <1>2. DOMAIN Pages = Portals
    BY DEF Pages, Portals
  <1>3. DOMAIN HomePath = Role
    BY DEF HomePath, Role, Staff
  <1> QED BY <1>1, <1>2, <1>3

\* The addresses there are, written out.
LEMMA AllPaths ==
    Path = PublicPages \cup SignInPages \cup OfficePaths \cup {"/elsewhere"}
             \cup Pages["donor"] \cup Pages["orphan"] \cup Pages["guardian"] \cup Pages["orphanage_manager"]
  BY Tables, Zenon DEF Path, Portals

\* Whoever a guard sends away, it sends to an address of the application.
LEMMA Destinations ==
    /\ \A r \in Role : HomePath[r] \in Path
    /\ \A r \in Portals : Door[r] \in Path
    /\ {"/", "/login", "/orphan", "/guardian", "/orphan/login", "/guardian/login", "/verify-email",
        "/admin/dashboard", "/partner/approvals", "/donor/payments", "/donor/dashboard"} \subseteq Path
  <1>1. \A r \in Role : HomePath[r] \in Path
    BY AllPaths DEF HomePath, Role, Staff, PublicPages, SignInPages, OfficePaths, Pages
  <1>2. \A r \in Portals : Door[r] \in Path
    BY AllPaths DEF Door, Portals, PublicPages, SignInPages, OfficePaths, Pages
  <1>3. {"/", "/login", "/orphan", "/guardian", "/orphan/login", "/guardian/login", "/verify-email",
         "/admin/dashboard", "/partner/approvals", "/donor/payments", "/donor/dashboard"} \subseteq Path
    BY AllPaths DEF PublicPages, SignInPages, OfficePaths, Pages
  <1> QED BY <1>1, <1>2, <1>3

\* Show and blank are no addresses.
LEMMA NoSuchPath == Show \notin Path /\ Blank \notin Path
  BY AllPaths DEF Show, Blank, PublicPages, SignInPages, OfficePaths, Pages

\* A page belongs to one portal: the guard that is chosen for it is that portal's.
LEMMA OnePortal ==
    ASSUME NEW r \in Portals, NEW p \in Pages[r]
    PROVE  (CHOOSE q \in DOMAIN Pages : p \in Pages[q]) = r
  <1>1. \A q \in Portals : p \in Pages[q] => q = r
    BY DEF Portals, Pages
  <1> QED BY <1>1, Tables

\* No page of a portal is public, an entrance or an office.
LEMMA Apart ==
    ASSUME NEW r \in Portals
    PROVE  Pages[r] \cap (PublicPages \cup SignInPages \cup OfficePaths \cup {"/elsewhere"}) = {}
  BY DEF Portals, Pages, PublicPages, SignInPages, OfficePaths

\* No address but a portal's pages is one of a portal's.
LEMMA Outside ==
    ASSUME NEW p \in PublicPages \cup SignInPages \cup OfficePaths \cup {"/elsewhere"}
    PROVE  ~\E r \in DOMAIN Pages : p \in Pages[r]
  BY Apart, Tables

\* The pages of a portal are rendered by its guard.
LEMMA PortalRendered ==
    ASSUME NEW r \in Portals, NEW p \in Pages[r]
    PROVE  Rendered(p) = PortalGuard(r, p)
  <1>1. p # "/" /\ p \notin SignInPages /\ p \notin DOMAIN Office /\ p # "/elsewhere"
    BY Apart, Tables DEF PublicPages
  <1>2. \E q \in DOMAIN Pages : p \in Pages[q]
    BY Tables
  <1>3. (CHOOSE q \in DOMAIN Pages : p \in Pages[q]) = r
    BY OnePortal
  <1>4. Rendered(p) = PortalGuard(CHOOSE q \in DOMAIN Pages : p \in Pages[q], p)
    BY <1>1, <1>2, Zenon DEF Rendered
  <1> QED BY <1>3, <1>4

\* The offices are rendered by theirs.
LEMMA OfficeRendered ==
    ASSUME NEW p \in OfficePaths
    PROVE  Rendered(p) = OfficeGuard(p)
  <1>1. p # "/" /\ p \notin SignInPages /\ p # "/elsewhere"
    BY DEF OfficePaths, SignInPages
  <1>2. p \in DOMAIN Office /\ ~\E q \in DOMAIN Pages : p \in Pages[q]
    BY Tables, Outside
  <1> QED BY <1>1, <1>2, Zenon DEF Rendered

\* The pages outside every portal, and how they are rendered.
LEMMA OthersRendered ==
    /\ Rendered("/") = Landing
    /\ \A p \in SignInPages : Rendered(p) = SignInPage(p)
    /\ Rendered("/elsewhere") = "/"
    /\ Rendered("/orphans") = Show
    /\ Rendered("/verify-email") = Show
  <1>1. ASSUME NEW p \in PublicPages \cup {"/elsewhere"}
        PROVE  p \notin SignInPages /\ p \notin DOMAIN Office
    BY Tables DEF PublicPages, SignInPages, OfficePaths
  <1>2. Rendered("/") = Landing
    <2>1. "/" \in PublicPages /\ "/" # "/elsewhere"
      BY DEF PublicPages
    <2> QED BY <1>1, <2>1, Outside, Zenon DEF Rendered
  <1>3. ASSUME NEW p \in SignInPages
        PROVE  Rendered(p) = SignInPage(p)
    <2>1. p # "/" /\ p # "/elsewhere" /\ p \notin DOMAIN Office
      BY Tables DEF SignInPages, OfficePaths
    <2> QED BY <1>3, <2>1, Outside, Zenon DEF Rendered
  <1>4. Rendered("/elsewhere") = "/"
    BY <1>1, Outside, Zenon DEF Rendered
  <1>5. ASSUME NEW p \in {"/orphans", "/verify-email"}
        PROVE  Rendered(p) = Show
    <2>1. p \in PublicPages /\ p # "/" /\ p # "/elsewhere"
      BY DEF PublicPages
    <2> QED BY <1>1, <2>1, Outside, Zenon DEF Rendered
  <1> QED BY <1>2, <1>3, <1>4, <1>5

\* A guard shows, shows nothing, or sends to an address of the application.
LEMMA RenderedType ==
    ASSUME RoutingTypeOK
    PROVE  Rendered(path) \in Path \cup {Show, Blank}
  <1> USE DEF RoutingTypeOK
  <1>1. me # NotLoaded => me.role \in Role
    BY DEF Account
  <1>2. CASE path \in OfficePaths
    <2>1. OfficeGuard(path) \in Path \cup {Show, Blank}
      BY <1>1, Destinations DEF OfficeGuard
    <2> QED BY <1>2, <2>1, OfficeRendered
  <1>3. ASSUME NEW r \in Portals, path \in Pages[r]
        PROVE  Rendered(path) \in Path \cup {Show, Blank}
    <2>1. PortalGuard(r, path) \in Path \cup {Show, Blank}
      BY <1>1, Destinations DEF PortalGuard
    <2> QED BY <1>3, <2>1, PortalRendered
  <1>4. CASE path \in PublicPages \cup {"/elsewhere"}
    <2>1. Landing \in Path \cup {Show, Blank}
      BY <1>1, Destinations DEF Landing
    <2> QED BY <1>4, <2>1, OthersRendered, Destinations DEF PublicPages
  <1>5. CASE path \in SignInPages
    <2>1. SignInPage(path) \in Path \cup {Show, Blank}
      BY <1>5, Destinations DEF SignInPage, SignInPages
    <2> QED BY <1>5, <2>1, OthersRendered
  <1> QED BY <1>2, <1>3, <1>4, <1>5, AllPaths DEF Portals

\* What a guarded page shows, it shows to the role of the cached profile, and a
\* portal only when that says the e-mail is verified.
LEMMA ShownTo ==
    ASSUME RoutingTypeOK, Rendered(path) = Show
    PROVE  /\ path \in OfficePaths => me # NotLoaded /\ me.role \in Office[path]
           /\ \A r \in Portals : path \in Pages[r] =>
                 me # NotLoaded /\ me.role = r /\ me.verified
  <1> USE DEF RoutingTypeOK
  <1>0. me # NotLoaded => me.role \in Role
    BY DEF Account
  <1>1. \A p \in Path : p # Show
    BY NoSuchPath
  <1>2. Blank # Show
    BY DEF Blank, Show
  <1>3. ASSUME path \in OfficePaths
        PROVE  me # NotLoaded /\ me.role \in Office[path]
    <2>1. OfficeGuard(path) = Show
      BY <1>3, OfficeRendered
    <2> QED BY <2>1, <1>0, <1>1, <1>2, Destinations DEF OfficeGuard
  <1>4. ASSUME NEW r \in Portals, path \in Pages[r]
        PROVE  me # NotLoaded /\ me.role = r /\ me.verified
    <2>1. PortalGuard(r, path) = Show
      BY <1>4, PortalRendered
    <2> QED BY <2>1, <1>0, <1>1, <1>2, Destinations DEF PortalGuard
  <1> QED BY <1>3, <1>4

-----------------------------------------------------------------------------
(* Rows and pages.                                                         *)

\* A sequence made of a finite set has all of it and nothing else.
LEMMA AllOnce ==
    ASSUME NEW rows, IsFiniteSet(rows), NEW s \in SetToSeqs(rows)
    PROVE  /\ s \in [1..Cardinality(rows) -> rows] /\ s \in Seq(rows) /\ Len(s) = Cardinality(rows)
           /\ ToSet(s) = rows /\ Injected(s)
  <1> DEFINE D == 1..Cardinality(rows)
  <1>1. Cardinality(rows) \in Nat
    BY FS_CardinalityType
  <1>2. s \in [D -> rows] /\ \A i, j \in D : i # j => s[i] # s[j]
    BY DEF SetToSeqs
  <1>3. s \in Seq(rows) /\ Len(s) = Cardinality(rows)
    BY <1>1, <1>2
  <1>4. s \in Injection(D, rows)
    BY <1>2 DEF Injection, IsInjective
  <1>5. IsFiniteSet(D) /\ Cardinality(D) = Cardinality(rows)
    BY <1>1, FS_Interval
  <1>6. s \in Surjection(D, rows)
    BY <1>4, <1>5, FS_Injection
  <1>7. ToSet(s) = rows
    BY <1>2, <1>6 DEF Surjection, ToSet
  <1>8. Injected(s)
    BY <1>2 DEF Injected
  <1> QED BY <1>2, <1>3, <1>7, <1>8

\* From one page to the next, and back.
LEMMA Multiples ==
    ASSUME NEW k \in Nat \ {0}, NEW n \in Nat, n % k = 0
    PROVE  (n + k) % k = 0 /\ (n > 0 => n >= k /\ (n - k) % k = 0)
  <1>1. n = k * (n \div k) /\ n \div k \in Int
    OBVIOUS
  <1>2. PICK m \in Int : n = k * m
    BY <1>1
  <1>3. \A i \in Nat, j \in Int : i = k * j => i % k = 0
    OBVIOUS
  <1>4. n + k = k * (m + 1) /\ n - k = k * (m - 1)
    BY <1>2
  <1>5. n > 0 => n >= k
    OBVIOUS
  <1>6. (n + k) % k = 0
    BY <1>3, <1>4
  <1>7. n > 0 => (n - k) % k = 0
    BY <1>3, <1>4, <1>5
  <1> QED BY <1>5, <1>6, <1>7

-----------------------------------------------------------------------------
(* The invariant.                                                          *)

\* The cached profile is of the account, at most behind on the verification.
GuardInv == me # NotLoaded => (me.role = account.role /\ (me.verified => account.verified))

\* Rows are cached, or asked for, by donors only.
CacheInv ==
    /\ \A a \in {sponsorships, reports, messages, dashboard, record} : a.st # "absent" => account.role = "donor"
    /\ asked.on => account.role = "donor"

\* Nothing is asked for while the list counts as fresh, and once the wizard's answer
\* is here or lost a list has the proposal, whether it is cached or under way,
\* unless the proposal overtook it.
ListInv ==
    /\ IsBook(book)
    /\ sponsorships = [st |-> sponsorships.st, rows |-> sponsorships.rows]
    /\ sponsorships.st = "fresh" => ~asked.on
    /\ (Proposed \in book.sponsorships /\ wizard # "written" /\ ~overtaken) =>
          /\ asked.on => HasProposal(asked.rows)
          /\ sponsorships.st = "fresh" => HasProposal(sponsorships.rows)

PortalInv == TypeOK /\ GuardInv /\ CacheInv /\ ListInv

-----------------------------------------------------------------------------
(* Where the browser goes.                                                 *)

\* A link leads to an address of the application.
LEMMA LinksLead == ASSUME RoutingTypeOK, NEW p \in Links PROVE p \in Path
  <1>1. Pages["donor"] \subseteq Path /\ DOMAIN Office \subseteq Path /\ {"/", "/orphans", "/login"} \subseteq Path
    BY AllPaths, Tables DEF PublicPages, SignInPages
  <1>2. me # NotLoaded => HomePath[me.role] \in Path
    BY Destinations DEF RoutingTypeOK, Account
  <1> QED BY <1>1, <1>2 DEF Links

\* So does a page load.
LEMMA OpenedLead == ASSUME RoutingTypeOK, NEW p \in Opened PROVE p \in Path
  BY DEF Opened, RoutingTypeOK

\* What redirects keep.
LEMMA RedirectKeeps ==
    ASSUME RoutingTypeOK, GuardInv, Redirect
    PROVE  RoutingTypeOK' /\ GuardInv'
  <1>1. path' \in Path
    BY RenderedType DEF Redirect, Moving
  <1>2. from' \in DOMAIN Office \cup {NoPath}
    BY DEF Redirect
  <1>3. UNCHANGED <<token, account, me>>
    BY DEF Redirect
  <1> QED BY <1>1, <1>2, <1>3 DEF RoutingTypeOK, GuardInv

\* What the other steps inside the application keep.
LEMMA StepKeeps ==
    ASSUME RoutingTypeOK, GuardInv,
           (\E p \in Links : FollowLink(p)) \/ MeAnswered \/ TokenExpires \/ Refreshed
             \/ DiscardExpired \/ VerifyInPlace \/ VerifyElsewhere
    PROVE  RoutingTypeOK' /\ GuardInv' /\ account'.role = account.role
  <1> USE DEF RoutingTypeOK, GuardInv
  <1>1. CASE \E p \in Links : FollowLink(p)
    BY <1>1, LinksLead DEF FollowLink
  <1>2. CASE MeAnswered
    BY <1>2 DEF MeAnswered
  <1>3. CASE TokenExpires
    BY <1>3 DEF TokenExpires
  <1>4. CASE Refreshed
    BY <1>4 DEF Refreshed
  <1>5. CASE DiscardExpired
    BY <1>5 DEF DiscardExpired
  <1>6. CASE VerifyElsewhere
    <2>1. account' \in Account /\ account'.role = account.role /\ account'.verified
      BY <1>6 DEF VerifyElsewhere, Account
    <2> QED BY <1>6, <2>1 DEF VerifyElsewhere
  <1>7. CASE VerifyInPlace
    <2>1. account' \in Account /\ account'.role = account.role /\ account'.verified
      BY <1>7 DEF VerifyInPlace, Account
    <2> QED BY <1>7, <2>1, Destinations DEF VerifyInPlace
  <1> QED BY <1>1, <1>2, <1>3, <1>4, <1>5, <1>6, <1>7

\* A sign-in starts with nothing cached.
LEMMA SignInKeeps ==
    ASSUME RoutingTypeOK, NEW a \in Account, SignIn(a)
    PROVE  RoutingTypeOK' /\ GuardInv' /\ account' = a
  <1>1. path' \in Path
    <2>1. CASE path = "/login"
      BY <2>1, Destinations, Tables, AllPaths DEF SignIn, RoutingTypeOK
    <2>2. CASE path = "/orphan/login"
      BY <2>2, Destinations DEF SignIn
    <2>3. CASE path = "/guardian/login"
      BY <2>3, Destinations DEF SignIn
    <2> QED BY <2>1, <2>2, <2>3 DEF SignIn, SignInPages
  <1>2. token' = "valid" /\ account' = a /\ me' = NotLoaded /\ from' = NoPath
    BY DEF SignIn, CacheCleared
  <1> QED BY <1>1, <1>2 DEF RoutingTypeOK, GuardInv

\* So do a sign-out, a page load and the link of the verification mail.
LEMMA StartKeeps ==
    ASSUME RoutingTypeOK, Logout \/ VerifyHere \/ \E p \in Opened : OpenAddress(p)
    PROVE  RoutingTypeOK' /\ GuardInv' /\ account'.role = account.role
  <1> USE DEF RoutingTypeOK, GuardInv
  <1>1. CASE Logout
    BY <1>1, Destinations DEF Logout, CacheCleared
  <1>2. CASE VerifyHere
    <2>1. account' \in Account /\ account'.role = account.role
      BY <1>2 DEF VerifyHere, Account
    <2> QED BY <1>2, <2>1, Destinations DEF VerifyHere
  <1>3. CASE \E p \in Opened : OpenAddress(p)
    BY <1>3, OpenedLead DEF OpenAddress
  <1> QED BY <1>1, <1>2, <1>3

\* Whatever happens, the browser is at an address, and the cached profile is of
\* the account; the role changes in a sign-in alone.
LEMMA RoutingKept ==
    ASSUME RoutingTypeOK, GuardInv, [Next]_vars
    PROVE  RoutingTypeOK' /\ GuardInv' /\ (SignsIn \/ account'.role = account.role)
  <1>1. CASE Redirected
    BY <1>1, RedirectKeeps DEF Redirected, Redirect
  <1>2. CASE Navigate \/ SessionStep
    BY <1>2, StepKeeps DEF Navigate, SessionStep
  <1>3. CASE SignsIn
    BY <1>3, SignInKeeps DEF SignsIn
  <1>4. CASE StartsOver
    BY <1>4, StartKeeps DEF StartsOver
  <1>5. CASE LeaveWizard
    <2>1. path' \in Path /\ from' = NoPath /\ UNCHANGED <<token, account, me>>
      BY <1>5, Destinations DEF LeaveWizard
    <2> QED BY <2>1 DEF RoutingTypeOK, GuardInv
  <1>6. CASE UNCHANGED routingVars
    BY <1>6 DEF routingVars, RoutingTypeOK, GuardInv
  <1>7. Next => \/ Redirected \/ Navigate \/ SessionStep \/ SignsIn \/ StartsOver \/ LeaveWizard
                \/ UNCHANGED routingVars
    BY DEF Next, AskSponsorships, SponsorshipsArrive, SponsorshipsLost, SponsorshipsAge, ReportsArrive,
           MessagesArrive, DashboardPaymentsArrive, RecordArrives, TurnPage, PickChip, Propose, ProposalAnswered,
           ProposalLost, PaymentCompletes
  <1>8. UNCHANGED vars => UNCHANGED routingVars
    BY DEF vars
  <1> QED BY <1>1, <1>2, <1>3, <1>4, <1>5, <1>6, <1>7, <1>8

-----------------------------------------------------------------------------
(* The screen.                                                             *)

\* The donor's pages show to donors whose e-mail is verified.
LEMMA DonorsOnly ==
    ASSUME RoutingTypeOK, GuardInv, NEW pages \in SUBSET Pages["donor"], On(pages)
    PROVE  account.role = "donor" /\ account.verified
  <1>1. "donor" \in Portals /\ path \in Pages["donor"] /\ Rendered(path) = Show
    BY DEF On, Portals
  <1>2. me # NotLoaded /\ me.role = "donor" /\ me.verified
    BY <1>1, ShownTo
  <1> QED BY <1>2 DEF GuardInv

\* The pages with lists and the wizard are the donor's.
LEMMA DonorPages ==
    /\ Overview \subseteq Pages["donor"]
    /\ Listing \subseteq Pages["donor"]
    /\ {"/donor/dashboard"} \subseteq Pages["donor"]
    /\ {"/donor/payments"} \subseteq Pages["donor"]
    /\ {"/donor/sponsor"} \subseteq Pages["donor"]
  BY DEF Overview, Listing, Pages

\* A page that shows is for the role of the account.
LEMMA ShownToOwner ==
    ASSUME RoutingTypeOK, GuardInv, Rendered(path) = Show
    PROVE  account.role \in OwnersOf[path]
  <1>0. path \in Path /\ account.role \in Role
    BY DEF RoutingTypeOK, Account
  <1>1. CASE path \in OfficePaths
    <2>1. account.role \in Office[path]
      BY <1>1, ShownTo DEF GuardInv
    <2> QED BY <2>1, <1>0, <1>1, Tables DEF OwnersOf
  <1>2. ASSUME path \notin OfficePaths
        PROVE  OwnersOf[path] = {r \in Role : \/ path \in PublicPages \cup SignInPages
                                              \/ r \in DOMAIN Pages /\ path \in Pages[r]}
    BY <1>0, <1>2, Tables DEF OwnersOf
  <1>3. CASE path \in PublicPages \cup SignInPages
    <2>1. path \notin OfficePaths
      BY <1>3 DEF PublicPages, SignInPages, OfficePaths
    <2> QED BY <2>1, <1>2, <1>3, <1>0
  <1>4. ASSUME NEW r \in Portals, path \in Pages[r]
        PROVE  account.role \in OwnersOf[path]
    <2>1. account.role = r
      BY <1>4, ShownTo DEF GuardInv
    <2>2. path \notin OfficePaths
      BY <1>4, Apart
    <2> QED BY <2>1, <2>2, <1>2, <1>0, <1>4, Tables
  <1>5. path # "/elsewhere"
    <2>1. Show # "/"
      BY DEF Show
    <2> QED BY <2>1, OthersRendered
  <1> QED BY <1>0, <1>1, <1>3, <1>4, <1>5, AllPaths DEF Portals

\* The invariant puts the right screen before the right account.
LEMMA RightScreen == PortalInv => ScreenIsForAccount
  <1> SUFFICES ASSUME PortalInv PROVE ScreenIsForAccount
    OBVIOUS
  <1>0. RoutingTypeOK /\ GuardInv
    BY DEF PortalInv, TypeOK
  <1>1. Rendered(path) = Show => account.role \in OwnersOf[path]
    BY <1>0, ShownToOwner
  <1>2. On(Pages["donor"]) => account.verified
    BY <1>0, DonorsOnly
  <1>3. \A a \in {sponsorships, reports, messages, dashboard, record} : a.st # "absent" => account.role = "donor"
    BY DEF PortalInv, CacheInv
  <1> QED BY <1>1, <1>2, <1>3 DEF ScreenIsForAccount

-----------------------------------------------------------------------------
(* The rows.                                                               *)

\* What the answers are made of.
LEMMA Ordered ==
    ASSUME IsBook(book)
    PROVE  /\ \A s \in NewestFirst({Projected(x) : x \in book.sponsorships}, Created) :
                 ToSet(s) = {Projected(x) : x \in book.sponsorships}
           /\ \A s \in NewestFirst(book.reports, Published) : ToSet(s) = book.reports
           /\ \A s \in NewestFirst(book.messages, Created) : ToSet(s) = book.messages
           /\ \A s \in NewestFirst(book.payments, Settled) :
                 s \in Seq(book.payments) /\ ToSet(s) = book.payments
  <1> DEFINE P == {Projected(x) : x \in book.sponsorships}
             f == [x \in book.sponsorships |-> Projected(x)]
  <1>1. /\ IsFiniteSet(book.sponsorships) /\ IsFiniteSet(book.reports)
        /\ IsFiniteSet(book.messages) /\ IsFiniteSet(book.payments)
    BY DEF IsBook
  <1>2. IsFiniteSet(P)
    <2>1. f \in Surjection(book.sponsorships, P)
      BY DEF Surjection
    <2> QED BY <2>1, <1>1, FS_Surjection
  <1>3. \A s \in NewestFirst(P, Created) : s \in SetToSeqs(P)
    BY DEF NewestFirst
  <1>4. \A s \in NewestFirst(book.reports, Published) : s \in SetToSeqs(book.reports)
    BY DEF NewestFirst
  <1>5. \A s \in NewestFirst(book.messages, Created) : s \in SetToSeqs(book.messages)
    BY DEF NewestFirst
  <1>6. \A s \in NewestFirst(book.payments, Settled) : s \in SetToSeqs(book.payments)
    BY DEF NewestFirst
  <1> HIDE DEF P
  <1>7. \A s \in NewestFirst(P, Created) : ToSet(s) = P
    BY <1>2, <1>3, AllOnce
  <1>8. \A s \in NewestFirst(book.reports, Published) : ToSet(s) = book.reports
    BY <1>1, <1>4, AllOnce
  <1>9. \A s \in NewestFirst(book.messages, Created) : ToSet(s) = book.messages
    BY <1>1, <1>5, AllOnce
  <1>10. \A s \in NewestFirst(book.payments, Settled) :
            s \in Seq(book.payments) /\ ToSet(s) = book.payments
    BY <1>1, <1>6, AllOnce
  <1> QED BY <1>7, <1>8, <1>9, <1>10 DEF P

\* A page of payments has at most PageSize rows, all of them the donor's.
LEMMA SliceType ==
    ASSUME NEW rows, NEW s \in Seq(rows), NEW n \in Nat
    PROVE  Len(Slice(s, n)) <= PageSize /\ ToSet(Slice(s, n)) \subseteq rows
  <1> DEFINE last == IF n + PageSize < Len(s) THEN n + PageSize ELSE Len(s)
  <1>1. PageSize \in Nat \ {0} /\ Len(s) \in Nat
    BY PortalAssumption
  <1>2. last \in Int /\ last <= n + PageSize /\ last <= Len(s)
    BY <1>1
  <1>3. \A i \in (n + 1) .. last : s[i] \in rows
    BY <1>2, <1>1
  <1>4. Slice(s, n) = SubSeq(s, n + 1, last)
    BY DEF Slice
  <1> HIDE DEF last
  <1>5. /\ SubSeq(s, n + 1, last) \in Seq(rows)
        /\ Len(SubSeq(s, n + 1, last)) = IF n + 1 <= last THEN last - (n + 1) + 1 ELSE 0
    BY <1>2, <1>3, SubSeqProperties
  <1>6. Len(Slice(s, n)) <= PageSize
    BY <1>1, <1>2, <1>4, <1>5
  <1>7. ToSet(Slice(s, n)) \subseteq rows
    BY <1>4, <1>5 DEF ToSet
  <1> QED BY <1>6, <1>7

\* The proposal and a payment that completes make books of books.
LEMMA BooksGrow ==
    ASSUME IsBook(book)
    PROVE  /\ IsBook([book EXCEPT !.sponsorships = @ \cup {Proposed}])
           /\ \A p \in book.payments :
                 IsBook([book EXCEPT !.payments =
                           (@ \ {p}) \cup {[p EXCEPT !.status = "completed", !.completed = Now]}])
  <1>0. Now \in Nat
    BY ViewsAssumption
  <1>1. Proposed \in SponsorshipRow
    BY <1>0 DEF Proposed, SponsorshipRow, SponsorshipStatus
  <1>2. ASSUME NEW S, IsFiniteSet(S), NEW x
        PROVE  IsFiniteSet(S \cup {x})
    BY <1>2, FS_AddElement
  <1>3. ASSUME NEW S, IsFiniteSet(S), NEW x
        PROVE  IsFiniteSet(S \ {x})
    BY <1>3, FS_RemoveElement
  <1>b. /\ book = [payments |-> book.payments, sponsorships |-> book.sponsorships,
                   reports |-> book.reports, messages |-> book.messages]
        /\ book.payments \in SUBSET PaymentRow /\ book.sponsorships \in SUBSET SponsorshipRow
        /\ book.reports \in SUBSET ReportRow /\ book.messages \in SUBSET MessageRow
        /\ IsFiniteSet(book.payments) /\ IsFiniteSet(book.sponsorships)
        /\ IsFiniteSet(book.reports) /\ IsFiniteSet(book.messages)
        /\ OneOfEach(book.sponsorships)
    BY DEF IsBook
  <1>c. ASSUME NEW P \in SUBSET PaymentRow, NEW S \in SUBSET SponsorshipRow, IsFiniteSet(P), IsFiniteSet(S),
               OneOfEach(S)
        PROVE  IsBook([payments |-> P, sponsorships |-> S, reports |-> book.reports, messages |-> book.messages])
    BY <1>b, <1>c DEF IsBook
  <1>4. IsBook([book EXCEPT !.sponsorships = @ \cup {Proposed}])
    <2>1. [book EXCEPT !.sponsorships = @ \cup {Proposed}]
            = [payments |-> book.payments, sponsorships |-> book.sponsorships \cup {Proposed},
               reports |-> book.reports, messages |-> book.messages]
      BY <1>b
    <2>2. IsFiniteSet(book.sponsorships \cup {Proposed})
      BY <1>b, <1>2
    <2>3. book.sponsorships \cup {Proposed} \in SUBSET SponsorshipRow
      BY <1>b, <1>1
    <2>4. OneOfEach(book.sponsorships \cup {Proposed})
      <3>1. ~Live(Proposed)
        BY DEF Proposed, Live, LiveStatuses
      <3> QED BY <1>b, <3>1 DEF OneOfEach
    <2> QED BY <1>b, <1>c, <2>1, <2>2, <2>3, <2>4
  <1>5. ASSUME NEW p \in book.payments
        PROVE  IsBook([book EXCEPT !.payments =
                         (@ \ {p}) \cup {[p EXCEPT !.status = "completed", !.completed = Now]}])
    <2>1. [p EXCEPT !.status = "completed", !.completed = Now] \in PaymentRow
      BY <1>0 DEF IsBook, PaymentRow, PaymentStatus
    <2> DEFINE q == [p EXCEPT !.status = "completed", !.completed = Now]
    <2> HIDE DEF q
    <2>2. IsFiniteSet((book.payments \ {p}) \cup {q})
      BY <1>b, <1>2, <1>3
    <2>3. (book.payments \ {p}) \cup {q} \in SUBSET PaymentRow
      BY <1>b, <2>1 DEF q
    <2>4. [book EXCEPT !.payments = (@ \ {p}) \cup {q}]
            = [payments |-> (book.payments \ {p}) \cup {q}, sponsorships |-> book.sponsorships,
               reports |-> book.reports, messages |-> book.messages]
      BY <1>b
    <2>5. IsBook([book EXCEPT !.payments = (@ \ {p}) \cup {q}])
      BY <1>b, <1>c, <2>2, <2>3, <2>4
    <2> QED BY <2>5 DEF q
  <1> QED BY <1>4, <1>5

\* Whoever signs in has a book, and only donors have one with rows.
LEMMA BooksAre ==
    ASSUME NEW a \in Account, NEW b \in Books(a)
    PROVE  IsBook(b) /\ (a.role # "donor" => b = Empty)
  <1>1. IsBook(Empty)
    <2>1. OneOfEach({})
      BY DEF OneOfEach
    <2> QED BY <2>1, FS_EmptySet DEF Empty, IsBook
  <1> QED BY <1>1, PortalAssumption DEF Books

-----------------------------------------------------------------------------
(* What the steps keep of it.  Where the browser is and whose tokens it    *)
(* holds is settled by RoutingKept; RestInv is what is left.               *)

RestInv ==
    /\ account.role # "donor" => book = Empty
    /\ IsAnswer(sponsorships, {Projected(s) : s \in book.sponsorships})
    /\ IsAnswer(reports, book.reports)
    /\ IsAnswer(messages, book.messages)
    /\ {p.id : p \in ToSet(dashboard.rows) \cup ToSet(record.rows)} \subseteq {p.id : p \in book.payments}
    /\ asked.on \in BOOLEAN /\ ToSet(asked.rows) \subseteq {Projected(s) : s \in book.sponsorships}
    /\ wizard \in {"idle", "written", "answered"} /\ overtaken \in BOOLEAN
    /\ record.st \in {"absent", "fresh"} /\ Len(record.rows) <= PageSize
    /\ offset \in Nat /\ offset % PageSize = 0
    /\ chip \in Folded \cup {"all"}
    /\ CacheInv /\ ListInv

\* The invariant in two.
LEMMA InTwo == PortalInv <=> (RoutingTypeOK /\ GuardInv /\ RestInv)
  BY DEF PortalInv, TypeOK, RestInv

\* A page without rows.
LEMMA NothingShown ==
    /\ ToSet(Absent.rows) = {} /\ Len(Absent.rows) <= PageSize /\ Absent.st = "absent"
    /\ ToSet(NothingAsked.rows) = {} /\ NothingAsked.on = FALSE
    /\ 0 \in Nat /\ 0 % PageSize = 0
  <1>1. ToSet(<<>>) = {}
    BY DEF ToSet
  <1>2. 0 \in Nat /\ 0 % PageSize = 0 /\ 0 <= PageSize
    BY PortalAssumption
  <1>3. Len(<<>>) = 0
    OBVIOUS
  <1> QED BY <1>1, <1>2, <1>3 DEF Absent, NothingAsked

\* Another page, the same cache.
LEMMA MoveKeeps ==
    ASSUME RestInv, UNCHANGED <<book, cacheVars>>, NewPage \/ UNCHANGED pageVars, account'.role = account.role,
           UNCHANGED wizard \/ (wizard # "written" /\ wizard' = "idle")
    PROVE  RestInv'
  <1>1. UNCHANGED <<book, sponsorships, reports, messages, dashboard, asked, overtaken>>
    BY DEF cacheVars
  <1>2. CASE NewPage
    <2>1. record' = Absent /\ offset' = 0 /\ chip' = "all"
      BY <1>2 DEF NewPage
    <2>2. ToSet(record'.rows) = {} /\ Len(record'.rows) <= PageSize /\ record'.st = "absent"
      BY <2>1, NothingShown
    <2>3. offset' \in Nat /\ offset' % PageSize = 0
      BY <2>1, NothingShown
    <2> QED BY <1>1, <2>1, <2>2, <2>3 DEF RestInv, CacheInv, ListInv, IsAnswer, HasProposal
  <1>3. CASE UNCHANGED pageVars
    <2>1. UNCHANGED <<record, offset, chip>>
      BY <1>3 DEF pageVars
    <2> QED BY <1>1, <2>1 DEF RestInv, CacheInv, ListInv, IsAnswer, HasProposal
  <1> QED BY <1>2, <1>3

\* Nothing cached, whatever the book.
LEMMA NewKeeps ==
    ASSUME NewCache, NewPage, IsBook(book)', account'.role # "donor" => book' = Empty,
           wizard' \in {"idle", "written", "answered"}
    PROVE  RestInv'
  <1>1. /\ sponsorships' = Absent /\ reports' = Absent /\ messages' = Absent /\ dashboard' = Absent
        /\ asked' = NothingAsked /\ overtaken' = FALSE /\ record' = Absent /\ offset' = 0 /\ chip' = "all"
    BY DEF NewCache, NewPage
  <1>2. Absent.st \notin {"fresh"} /\ Absent = [st |-> Absent.st, rows |-> Absent.rows]
    BY DEF Absent
  <1> QED BY <1>1, <1>2, NothingShown, PortalAssumption DEF RestInv, CacheInv, ListInv, IsAnswer

\* The list is asked for.
LEMMA AskKeeps ==
    ASSUME PortalInv, AskSponsorships
    PROVE  RestInv'
  <1>1. account.role = "donor"
    BY DonorsOnly, DonorPages DEF AskSponsorships, PortalInv, TypeOK
  <1>2. /\ asked'.on = TRUE /\ ToSet(asked'.rows) = {Projected(x) : x \in book.sponsorships}
        /\ sponsorships.st # "fresh"
    BY Ordered DEF AskSponsorships, PortalInv, ListInv
  <1>3. UNCHANGED <<account, book, wizard, sponsorships, reports, messages, dashboard, overtaken, record, offset, chip>>
    BY DEF AskSponsorships, routingVars, pageVars
  <1>4. RestInv
    BY InTwo
  <1>5. Proposed \in book.sponsorships => HasProposal(asked'.rows)
    BY <1>2 DEF HasProposal
  <1> QED BY <1>1, <1>2, <1>3, <1>4, <1>5 DEF RestInv, CacheInv, ListInv, IsAnswer, HasProposal

\* The list arrives.
LEMMA ArriveKeeps ==
    ASSUME PortalInv, SponsorshipsArrive
    PROVE  RestInv'
  <1>1. /\ sponsorships' = [st |-> "fresh", rows |-> asked.rows] /\ asked' = NothingAsked /\ asked.on
        /\ UNCHANGED <<account, book, wizard, reports, messages, dashboard, overtaken, record, offset, chip>>
    BY DEF SponsorshipsArrive, routingVars, pageVars, Answer
  <1>2. RestInv
    BY InTwo
  <1> QED BY <1>1, <1>2, NothingShown DEF RestInv, CacheInv, ListInv, IsAnswer, HasProposal

\* The list is lost, or grows old.
LEMMA LoseKeeps ==
    ASSUME PortalInv, SponsorshipsLost \/ SponsorshipsAge
    PROVE  RestInv'
  <1>0. RestInv
    BY InTwo
  <1>1. CASE SponsorshipsLost
    <2>1. /\ asked' = NothingAsked
          /\ UNCHANGED <<account, book, wizard, sponsorships, reports, messages, dashboard, overtaken, record, offset, chip>>
      BY <1>1 DEF SponsorshipsLost, routingVars, pageVars
    <2> QED BY <1>0, <2>1, NothingShown DEF RestInv, CacheInv, ListInv, IsAnswer, HasProposal
  <1>2. CASE SponsorshipsAge
    <2>1. sponsorships = [st |-> sponsorships.st, rows |-> sponsorships.rows]
      BY <1>0 DEF RestInv, ListInv
    <2>2. sponsorships' = [st |-> "stale", rows |-> sponsorships.rows]
      BY <1>2, <2>1 DEF SponsorshipsAge
    <2>3. /\ sponsorships.st = "fresh" /\ overtaken' = FALSE
          /\ UNCHANGED <<account, book, wizard, reports, messages, dashboard, asked, record, offset, chip>>
      BY <1>2 DEF SponsorshipsAge, routingVars, pageVars
    <2> QED BY <1>0, <2>2, <2>3 DEF RestInv, CacheInv, ListInv, IsAnswer, HasProposal
  <1> QED BY <1>1, <1>2

\* Reports, messages and the dashboard's payments arrive.
LEMMA OthersKeep ==
    ASSUME PortalInv, ReportsArrive \/ MessagesArrive \/ DashboardPaymentsArrive
    PROVE  RestInv'
  <1>0. RestInv
    BY InTwo
  <1>1. account.role = "donor"
    BY DonorsOnly, DonorPages DEF ReportsArrive, MessagesArrive, DashboardPaymentsArrive, PortalInv, TypeOK
  <1>2. UNCHANGED <<account, book, wizard, sponsorships, asked, overtaken, record, offset, chip>>
    BY DEF ReportsArrive, MessagesArrive, DashboardPaymentsArrive, routingVars, pageVars
  <1>b. IsBook(book)
    BY <1>0 DEF RestInv, ListInv
  <1>3. CASE ReportsArrive
    <2>1. reports'.st = "fresh" /\ ToSet(reports'.rows) = book.reports /\ UNCHANGED <<messages, dashboard>>
      BY <1>3, <1>b, Ordered DEF ReportsArrive, Answer
    <2> QED BY <1>0, <1>1, <1>2, <2>1 DEF RestInv, CacheInv, ListInv, IsAnswer, HasProposal
  <1>4. CASE MessagesArrive
    <2>1. messages'.st = "fresh" /\ ToSet(messages'.rows) = book.messages /\ UNCHANGED <<reports, dashboard>>
      BY <1>4, <1>b, Ordered DEF MessagesArrive, Answer
    <2> QED BY <1>0, <1>1, <1>2, <2>1 DEF RestInv, CacheInv, ListInv, IsAnswer, HasProposal
  <1>5. CASE DashboardPaymentsArrive
    <2>1. dashboard'.st = "fresh" /\ ToSet(dashboard'.rows) = book.payments /\ UNCHANGED <<reports, messages>>
      BY <1>5, <1>b, Ordered DEF DashboardPaymentsArrive, Answer
    <2>2. {p.id : p \in ToSet(dashboard'.rows) \cup ToSet(record'.rows)} \subseteq {p.id : p \in book'.payments}
      BY <1>0, <1>2, <2>1 DEF RestInv
    <2> QED BY <1>0, <1>1, <1>2, <2>1, <2>2 DEF RestInv, CacheInv, ListInv, IsAnswer, HasProposal
  <1> QED BY <1>3, <1>4, <1>5

\* The payments page fills, turns and filters.
LEMMA RecordKeeps ==
    ASSUME PortalInv, RecordArrives \/ TurnPage \/ \E c \in Folded \cup {"all"} : PickChip(c)
    PROVE  RestInv'
  <1>0. RestInv
    BY InTwo
  <1>1. UNCHANGED <<account, book, wizard, sponsorships, reports, messages, dashboard, asked, overtaken>>
    BY DEF RecordArrives, TurnPage, PickChip, routingVars, cacheVars
  <1>2. CASE RecordArrives
    <2>1. account.role = "donor"
      BY <1>2, DonorsOnly, DonorPages DEF RecordArrives, PortalInv, TypeOK
    <2>2. PICK s \in NewestFirst(book.payments, Settled) : record' = Answer(Slice(s, offset))
      BY <1>2 DEF RecordArrives
    <2>3. s \in Seq(book.payments) /\ offset \in Nat
      BY <1>0, <2>2, Ordered DEF RestInv, ListInv
    <2>4. /\ record'.st = "fresh" /\ Len(record'.rows) <= PageSize /\ ToSet(record'.rows) \subseteq book.payments
          /\ UNCHANGED <<offset, chip>>
      BY <1>2, <2>2, <2>3, SliceType DEF RecordArrives, Answer
    <2>5. {p.id : p \in ToSet(dashboard'.rows) \cup ToSet(record'.rows)} \subseteq {p.id : p \in book'.payments}
      BY <1>0, <1>1, <2>4 DEF RestInv
    <2> QED BY <1>0, <1>1, <2>1, <2>4, <2>5 DEF RestInv, CacheInv, ListInv, IsAnswer, HasProposal
  <1>3. CASE TurnPage
    <2>1. offset \in Nat /\ offset % PageSize = 0 /\ PageSize \in Nat \ {0}
      BY <1>0, PortalAssumption DEF RestInv
    <2>2. (offset + PageSize) % PageSize = 0
            /\ (offset > 0 => offset >= PageSize /\ (offset - PageSize) % PageSize = 0)
      BY <2>1, Multiples
    <2>3. offset' \in Nat /\ offset' % PageSize = 0 /\ UNCHANGED <<record, chip>>
      BY <1>3, <2>1, <2>2 DEF TurnPage
    <2> QED BY <1>0, <1>1, <2>3 DEF RestInv, CacheInv, ListInv, IsAnswer, HasProposal
  <1>4. CASE \E c \in Folded \cup {"all"} : PickChip(c)
    <2>1. chip' \in Folded \cup {"all"} /\ UNCHANGED <<record, offset>>
      BY <1>4 DEF PickChip
    <2> QED BY <1>0, <1>1, <2>1 DEF RestInv, CacheInv, ListInv, IsAnswer, HasProposal
  <1> QED BY <1>2, <1>3, <1>4

\* The wizard's row is written: the lists the browser has and asked for are of before.
LEMMA ProposeKeeps ==
    ASSUME PortalInv, Propose
    PROVE  RestInv'
  <1>0. RestInv
    BY InTwo
  <1>1. account.role = "donor" /\ account' = account
    BY DonorsOnly, DonorPages DEF Propose, PortalInv, TypeOK, routingVars
  <1>2. /\ IsBook(book)' /\ book.sponsorships \subseteq book'.sponsorships
        /\ UNCHANGED <<book.payments, book.reports, book.messages>>
    <2>1. book' = [book EXCEPT !.sponsorships = @ \cup {Proposed}]
      BY DEF Propose
    <2>2. IsBook(book)
      BY <1>0 DEF RestInv, ListInv
    <2>3. IsBook([book EXCEPT !.sponsorships = @ \cup {Proposed}])
      BY <2>2, BooksGrow
    <2>4. IsBook(book)'
      BY <2>1, <2>3
    <2> QED BY <2>1, <2>2, <2>4 DEF IsBook
  <1>3. /\ wizard' = "written"
        /\ UNCHANGED <<sponsorships, reports, messages, dashboard, asked, overtaken, record, offset, chip>>
    BY DEF Propose, cacheVars, pageVars
  <1>4. {Projected(s) : s \in book.sponsorships} \subseteq {Projected(s) : s \in book'.sponsorships}
    BY <1>2
  <1> QED BY <1>0, <1>1, <1>2, <1>3, <1>4 DEF RestInv, CacheInv, ListInv, IsAnswer

\* Its answer is here: what counts as fresh no longer does.
LEMMA InvalidatedList ==
    ASSUME PortalInv, ProposalAnswered
    PROVE  /\ sponsorships'.st \in {"absent", "stale"} /\ sponsorships'.rows = sponsorships.rows
           /\ sponsorships' = [st |-> sponsorships'.st, rows |-> sponsorships'.rows]
           /\ sponsorships'.st = "absent" => sponsorships.st = "absent"
           /\ sponsorships.st = "absent" => sponsorships'.st = "absent"
  <1>1. sponsorships = [st |-> sponsorships.st, rows |-> sponsorships.rows]
    BY DEF PortalInv, ListInv
  <1>2. sponsorships.st \in {"absent", "fresh", "stale"}
    BY DEF PortalInv, TypeOK, IsAnswer
  <1>3. CASE sponsorships.st = "fresh"
    <2>1. sponsorships' = [st |-> "stale", rows |-> sponsorships.rows]
      BY <1>1, <1>3 DEF ProposalAnswered, Invalidated
    <2> QED BY <1>3, <2>1
  <1>4. CASE sponsorships.st # "fresh"
    BY <1>1, <1>2, <1>4 DEF ProposalAnswered, Invalidated
  <1> QED BY <1>3, <1>4

\* So the answer keeps the invariant.
LEMMA AnsweredKeeps ==
    ASSUME PortalInv, ProposalAnswered
    PROVE  RestInv'
  <1>0. RestInv
    BY InTwo
  <1>1. /\ wizard' = "answered" /\ overtaken' = (asked'.on /\ ~HasProposal(asked'.rows))
        /\ asked' = asked \/ asked' = NothingAsked
        /\ UNCHANGED <<account, book, reports, messages, dashboard, record, offset, chip>>
    BY DEF ProposalAnswered, routingVars, pageVars
  <1>2. asked'.on \in BOOLEAN /\ ToSet(asked'.rows) \subseteq {Projected(s) : s \in book.sponsorships}
          /\ (asked'.on => account.role = "donor")
    BY <1>0, <1>1, NothingShown DEF RestInv, CacheInv
  <1>3. overtaken' \in BOOLEAN /\ (~overtaken' /\ asked'.on => HasProposal(asked'.rows))
    BY <1>1, <1>2
  <1> QED BY <1>0, <1>1, <1>2, <1>3, InvalidatedList DEF RestInv, CacheInv, ListInv, IsAnswer, HasProposal

\* It is lost: a list of before may be taken for fresh.
LEMMA LostKeeps ==
    ASSUME PortalInv, ProposalLost
    PROVE  RestInv'
  <1>0. RestInv
    BY InTwo
  <1>1. /\ wizard' = "idle"
        /\ overtaken' = (\/ sponsorships.st = "fresh" /\ ~HasProposal(sponsorships.rows)
                         \/ asked.on /\ ~HasProposal(asked.rows))
        /\ UNCHANGED <<account, book, sponsorships, reports, messages, dashboard, asked, record, offset, chip>>
    BY DEF ProposalLost, routingVars, pageVars
  <1>2. asked.on \in BOOLEAN
    BY <1>0 DEF RestInv
  <1>3. /\ overtaken' \in BOOLEAN
        /\ ~overtaken' /\ asked.on => HasProposal(asked.rows)
        /\ ~overtaken' /\ sponsorships.st = "fresh" => HasProposal(sponsorships.rows)
    BY <1>1, <1>2
  <1> QED BY <1>0, <1>1, <1>3 DEF RestInv, CacheInv, ListInv, IsAnswer, HasProposal

\* A charge is reported: the payments keep their numbers.
LEMMA CompleteKeeps ==
    ASSUME PortalInv, PaymentCompletes
    PROVE  RestInv'
  <1>0. RestInv
    BY InTwo
  <1>1. UNCHANGED <<account, wizard, sponsorships, reports, messages, dashboard, asked, overtaken, record, offset, chip>>
    BY DEF PaymentCompletes, routingVars, cacheVars, pageVars
  <1>2. PICK p \in book.payments :
           book' = [book EXCEPT !.payments = (@ \ {p}) \cup {[p EXCEPT !.status = "completed", !.completed = Now]}]
    BY DEF PaymentCompletes
  <1> DEFINE q == [p EXCEPT !.status = "completed", !.completed = Now]
  <1>3. IsBook(book)
    BY <1>0 DEF RestInv, ListInv
  <1>4. IsBook(book)'
    <2>1. IsBook([book EXCEPT !.payments = (@ \ {p}) \cup {q}])
      BY <1>3, BooksGrow
    <2> QED BY <1>2, <2>1
  <1>5. q.id = p.id
    BY <1>3 DEF IsBook, PaymentRow
  <1> HIDE DEF q
  <1>6. book'.payments = (book.payments \ {p}) \cup {q}
        /\ UNCHANGED <<book.sponsorships, book.reports, book.messages>>
    BY <1>2, <1>3 DEF IsBook, q
  <1>7. {x.id : x \in book.payments} \subseteq {x.id : x \in book'.payments}
    BY <1>5, <1>6
  <1>8. account.role = "donor"
    <2>1. book # Empty
      BY DEF Empty
    <2> QED BY <1>0, <2>1 DEF RestInv
  <1> QED BY <1>0, <1>1, <1>4, <1>6, <1>7, <1>8 DEF RestInv, CacheInv, ListInv, IsAnswer, HasProposal

-----------------------------------------------------------------------------
(* The theorems.                                                           *)

\* At the start nothing is cached and nobody signed in.
LEMMA StartInv == Init => PortalInv
  <1> SUFFICES ASSUME Init PROVE PortalInv
    OBVIOUS
  <1>1. RoutingTypeOK /\ GuardInv
    BY Destinations DEF Init, RoutingInit, RoutingTypeOK, GuardInv
  <1>2. IsBook(book) /\ (account.role # "donor" => book = Empty)
    BY <1>1, BooksAre DEF Init, RoutingTypeOK
  <1>3. RestInv
    <2>1. /\ sponsorships = Absent /\ reports = Absent /\ messages = Absent /\ dashboard = Absent
          /\ asked = NothingAsked /\ overtaken = FALSE /\ record = Absent /\ offset = 0 /\ chip = "all"
          /\ wizard = "idle"
      BY DEF Init
    <2>2. Absent.st \notin {"fresh"} /\ Absent = [st |-> Absent.st, rows |-> Absent.rows]
      BY DEF Absent
    <2> QED BY <1>2, <2>1, <2>2, NothingShown DEF RestInv, CacheInv, ListInv, IsAnswer
  <1> QED BY <1>1, <1>3, InTwo

\* Every step keeps the invariant.
LEMMA StepInv == PortalInv /\ [Next]_vars => PortalInv'
  <1> SUFFICES ASSUME PortalInv, [Next]_vars PROVE PortalInv'
    OBVIOUS
  <1>1. RoutingTypeOK /\ GuardInv /\ RestInv
    BY InTwo
  <1>2. RoutingTypeOK' /\ GuardInv' /\ (SignsIn \/ account'.role = account.role)
    BY <1>1, RoutingKept
  <1>3. RestInv'
    <2>1. CASE SignsIn
      <3>1. PICK a \in Account : SignIn(a) /\ book' \in Books(a)
        BY <2>1 DEF SignsIn
      <3>2. NewCache /\ NewPage /\ account' = a /\ wizard' \in {"idle", "written", "answered"}
        BY <1>1, <2>1, <3>1 DEF SignsIn, SignIn, RestInv
      <3>3. IsBook(book)' /\ (account'.role # "donor" => book' = Empty)
        BY <3>1, <3>2, BooksAre
      <3> QED BY <3>2, <3>3, NewKeeps
    <2>2. CASE ~SignsIn /\ StartsOver
      <3>1. NewCache /\ NewPage /\ book' = book /\ wizard' \in {"idle", "written", "answered"}
        BY <1>1, <2>2 DEF StartsOver, RestInv
      <3> QED BY <1>1, <1>2, <2>2, <3>1, NewKeeps DEF RestInv, ListInv
    <2>3. CASE ~SignsIn /\ (Redirected \/ Navigate \/ SessionStep \/ LeaveWizard \/ UNCHANGED vars)
      <3>1. /\ UNCHANGED <<book, cacheVars>> /\ (NewPage \/ UNCHANGED pageVars)
            /\ UNCHANGED wizard \/ (wizard # "written" /\ wizard' = "idle")
        BY <2>3 DEF Redirected, Navigate, SessionStep, LeaveWizard, vars
      <3> QED BY <1>1, <1>2, <2>3, <3>1, MoveKeeps
    <2>4. CASE AskSponsorships
      BY <2>4, AskKeeps
    <2>5. CASE SponsorshipsArrive
      BY <2>5, ArriveKeeps
    <2>6. CASE SponsorshipsLost \/ SponsorshipsAge
      BY <2>6, LoseKeeps
    <2>7. CASE ReportsArrive \/ MessagesArrive \/ DashboardPaymentsArrive
      BY <2>7, OthersKeep
    <2>8. CASE RecordArrives \/ TurnPage \/ \E c \in Folded \cup {"all"} : PickChip(c)
      BY <2>8, RecordKeeps
    <2>9. CASE Propose
      BY <2>9, ProposeKeeps
    <2>10. CASE PaymentCompletes
      BY <2>10, CompleteKeeps
    <2>11. CASE ProposalAnswered
      BY <2>11, AnsweredKeeps
    <2>12. CASE ProposalLost
      BY <2>12, LostKeeps
    <2> QED BY <2>1, <2>2, <2>3, <2>4, <2>5, <2>6, <2>7, <2>8, <2>9, <2>10, <2>11, <2>12 DEF Next
  <1> QED
    <2>1. (RoutingTypeOK /\ GuardInv /\ RestInv)' => PortalInv'
      BY DEF PortalInv, TypeOK, RestInv
    <2> QED BY <1>2, <1>3, <2>1

\* The invariant of the portal.
THEOREM Inductive == Spec => []PortalInv
  BY StartInv, StepInv, PTL DEF Spec

\* Addresses, caches and pages keep their types, whatever books donors have.
THEOREM TypeCorrect == Spec => []TypeOK
  <1>1. PortalInv => TypeOK
    BY DEF PortalInv
  <1> QED BY <1>1, Inductive, PTL

\* Whatever order tokens, profiles, answers and people come in, a page shows to
\* the roles it is for, and no rows of an account that has left.
THEOREM RightAccount == Spec => []ScreenIsForAccount
  BY RightScreen, Inductive, PTL

\* Once the donor has been told that the proposal was made, a list that counts as
\* fresh has it, wherever the browser went meanwhile, unless it was under way when
\* that answer came; and so if the answer was lost, unless a list of before was
\* cached or under way.
THEOREM FreshHasProposal == Spec => []FreshListHasProposal
  <1>1. PortalInv => FreshListHasProposal
    <2>1. Projected(Proposed).id = Proposed.id
      BY DEF Projected, Proposed
    <2> QED BY <2>1 DEF PortalInv, ListInv, HasProposal, FreshListHasProposal
  <1> QED BY <1>1, Inductive, PTL

-----------------------------------------------------------------------------
(* Redirects.  Pages that show nothing further than 0, 1, 2, 3 redirects   *)
(* away.                                                                   *)

Soon0(p) == Lands(p)
Soon1(p) == Lands(Hop(p))
Soon2(p) == Lands(Hop(Hop(p)))
Soon3(p) == Lands(Hop(Hop(Hop(p))))

\* What lands soon lands later, and a redirect is one.
LEMMA Sooner ==
    ASSUME NEW p
    PROVE  /\ Soon0(p) => Soon1(p)
           /\ Soon1(p) => Soon2(p)
           /\ Soon2(p) => Soon3(p)
           /\ Soon0(Rendered(p)) => Soon1(p)
           /\ Soon1(Rendered(p)) => Soon2(p)
           /\ Soon2(Rendered(p)) => Soon3(p)
  <1>1. ASSUME NEW q, Lands(q)
        PROVE  Hop(q) = q
    BY <1>1 DEF Hop
  <1>2. Soon0(p) => Soon1(p)
    BY <1>1 DEF Soon0, Soon1
  <1>3. Soon1(p) => Soon2(p)
    BY <1>1 DEF Soon1, Soon2
  <1>4. Soon2(p) => Soon3(p)
    BY <1>1 DEF Soon2, Soon3
  <1>5. CASE Lands(p)
    BY <1>1, <1>2, <1>3, <1>4, <1>5 DEF Soon0
  <1>6. CASE ~Lands(p)
    <2>1. Hop(p) = Rendered(p)
      BY <1>6 DEF Hop
    <2> QED BY <1>2, <1>3, <1>4, <2>1 DEF Soon0, Soon1, Soon2, Soon3
  <1> QED BY <1>5, <1>6

\* Who has no token is sent to a sign-in page, at once.
LEMMA StrangersLand ==
    ASSUME token = "none", NEW p \in Path
    PROVE  Soon1(p)
  <1>1. Soon0("/") /\ Soon0("/orphans") /\ Soon0("/verify-email")
    <2>1. Landing = Show
      BY DEF Landing
    <2> QED BY <2>1, OthersRendered DEF Soon0, Lands
  <1>2. \A q \in SignInPages : Soon0(q)
    <2>1. \A q \in SignInPages : SignInPage(q) = Show
      BY DEF SignInPages, SignInPage
    <2> QED BY <2>1, OthersRendered DEF Soon0, Lands
  <1>3. CASE p \in PublicPages \cup SignInPages
    BY <1>1, <1>2, <1>3, Sooner DEF PublicPages
  <1>4. CASE p = "/elsewhere"
    BY <1>1, <1>4, OthersRendered, Sooner
  <1>5. CASE p \in OfficePaths
    <2>1. Rendered(p) = "/login"
      BY <1>5, OfficeRendered DEF OfficeGuard
    <2>2. "/login" \in SignInPages
      BY DEF SignInPages
    <2> QED BY <1>2, <2>1, <2>2, Sooner
  <1>6. ASSUME NEW r \in Portals, p \in Pages[r]
        PROVE  Soon1(p)
    <2>1. Rendered(p) = Door[r]
      BY <1>6, PortalRendered DEF PortalGuard
    <2>2. Door[r] \in SignInPages
      BY DEF Door, Portals, SignInPages
    <2> QED BY <1>2, <2>1, <2>2, Sooner
  <1> QED BY <1>3, <1>4, <1>5, <1>6, AllPaths DEF Portals

\* Before the profile is here, guards show nothing.
LEMMA UnknownLand ==
    ASSUME token # "none", me = NotLoaded, NEW p \in Path
    PROVE  Soon1(p)
  <1>1. Soon0("/") /\ Soon0("/orphans") /\ Soon0("/verify-email")
    <2>1. Landing = Show
      BY DEF Landing
    <2> QED BY <2>1, OthersRendered DEF Soon0, Lands
  <1>2. ASSUME NEW q \in OfficePaths, q # "/admin"
        PROVE  Soon0(q)
    BY <1>2, OfficeRendered DEF OfficeGuard, Soon0, Lands
  <1>3. ASSUME NEW r \in Portals, NEW q \in Pages[r]
        PROVE  Soon0(q)
    BY PortalRendered DEF PortalGuard, Soon0, Lands
  <1>4. Soon0("/orphan") /\ Soon0("/guardian") /\ Soon0("/admin/dashboard")
    <2>1. "/orphan" \in Pages["orphan"] /\ "/guardian" \in Pages["guardian"] /\ {"orphan", "guardian"} \subseteq Portals
      BY DEF Pages, Portals
    <2>2. "/admin/dashboard" \in OfficePaths /\ "/admin/dashboard" # "/admin"
      BY DEF OfficePaths
    <2> QED BY <1>2, <1>3, <2>1, <2>2
  <1>5. CASE p \in SignInPages
    <2>1. Rendered(p) \in {Show, "/", "/orphan", "/guardian"}
      BY <1>5, OthersRendered DEF SignInPage, SignInPages
    <2>2. Rendered(p) = Show => Soon0(p)
      BY DEF Soon0, Lands
    <2> QED BY <1>1, <1>4, <2>1, <2>2, Sooner
  <1>6. CASE p = "/elsewhere"
    BY <1>1, <1>6, OthersRendered, Sooner
  <1>7. CASE p = "/admin"
    <2>1. p \in OfficePaths
      BY <1>7 DEF OfficePaths
    <2>2. Rendered(p) = "/admin/dashboard"
      BY <1>7, <2>1, OfficeRendered DEF OfficeGuard
    <2> QED BY <1>4, <2>2, Sooner
  <1> QED BY <1>1, <1>2, <1>3, <1>5, <1>6, <1>7, Sooner, AllPaths DEF Portals, PublicPages

\* Whoever is known is at home, or one redirect from it for the verification.
LEMMA HomeLands ==
    ASSUME token # "none", me \in Account
    PROVE  /\ Soon1(HomePath[me.role])
           /\ (me.role # "donor" \/ me.verified) => Soon0(HomePath[me.role])
  <1>1. me.role \in Role /\ me # NotLoaded
    BY DEF Account, NotLoaded, Role, Staff
  <1>2. CASE me.role \in Staff
    <2>1. HomePath[me.role] \in OfficePaths /\ me.role \in Office[HomePath[me.role]]
            /\ HomePath[me.role] \notin {"/admin", "/partner"}
      BY <1>2 DEF HomePath, Office, OfficePaths, Staff, Role, Admins
    <2>2. Rendered(HomePath[me.role]) = Show
      BY <1>1, <2>1, OfficeRendered DEF OfficeGuard
    <2> QED BY <2>2, Sooner DEF Soon0, Lands
  <1>3. CASE me.role \in Portals
    <2>1. HomePath[me.role] \in Pages[me.role] /\ HomePath[me.role] # "/donor/sponsorships"
      BY <1>3 DEF HomePath, Pages, Portals
    <2>2. me.role \notin Staff /\ me.role \notin SendsHome[me.role]
      BY <1>3 DEF Portals, Staff, SendsHome
    <2>3. Rendered(HomePath[me.role]) = IF ~me.verified THEN "/verify-email" ELSE Show
      BY <1>1, <1>3, <2>1, <2>2, PortalRendered DEF PortalGuard
    <2>4. Soon0("/verify-email")
      BY OthersRendered DEF Soon0, Lands
    <2>5. me.role # "donor" => me.verified
      BY DEF Account
    <2>6. me.verified => Soon0(HomePath[me.role])
      BY <2>3 DEF Soon0, Lands
    <2> QED BY <2>3, <2>4, <2>5, <2>6, Sooner
  <1>4. CASE me.role = "viewer"
    <2>1. HomePath[me.role] = "/"
      BY <1>4 DEF HomePath
    <2>2. ~Dispatched(me.role)
      BY <2>1 DEF Dispatched, KnownHomes, HomePath, Role, Staff
    <2>3. Rendered("/") = Show
      BY <2>2, OthersRendered DEF Landing
    <2> QED BY <2>1, <2>3, Sooner DEF Soon0, Lands
  <1> QED BY <1>1, <1>2, <1>3, <1>4 DEF Role, Portals

\* The landing page and the staff's dashboard show, or send home.
LEMMA HubsLand ==
    ASSUME token # "none", me \in Account
    PROVE  /\ Soon2("/") /\ Soon2("/admin/dashboard")
           /\ (me.role # "donor" \/ me.verified) => Soon1("/") /\ Soon1("/admin/dashboard")
  <1>1. me # NotLoaded
    BY DEF Account, NotLoaded, Role, Staff
  <1>2. Rendered("/") \in {Show, HomePath[me.role]}
    BY OthersRendered DEF Landing
  <1>3. Rendered("/admin/dashboard") \in {Show, HomePath[me.role]}
    <2>1. "/admin/dashboard" \in OfficePaths
      BY DEF OfficePaths
    <2> QED BY <1>1, <2>1, OfficeRendered DEF OfficeGuard
  <1>4. ASSUME NEW p, Rendered(p) \in {Show, HomePath[me.role]}
        PROVE  Soon2(p) /\ ((me.role # "donor" \/ me.verified) => Soon1(p))
    <2>1. Rendered(p) = Show => Soon0(p)
      BY DEF Soon0, Lands
    <2> QED BY <1>4, <2>1, HomeLands, Sooner
  <1> QED BY <1>2, <1>3, <1>4

\* The pages of the portals are two redirects away at most.
LEMMA PortalsLand ==
    ASSUME token # "none", me \in Account, NEW r \in Portals, NEW p \in Pages[r]
    PROVE  Soon2(p)
  <1>1. me # NotLoaded /\ me.role \in Role
    BY DEF Account, NotLoaded, Role, Staff
  <1>2. Rendered(p) = PortalGuard(r, p)
    BY PortalRendered
  <1>3. CASE me.role \in Staff
    <2>1. Rendered(p) = "/admin/dashboard"
      BY <1>1, <1>2, <1>3 DEF PortalGuard
    <2>2. me.role # "donor"
      BY <1>3 DEF Staff
    <2> QED BY <2>1, <2>2, HubsLand, Sooner
  <1>4. CASE me.role \notin Staff /\ me.role \in SendsHome[r]
    <2>1. Rendered(p) = HomePath[me.role]
      BY <1>1, <1>2, <1>4 DEF PortalGuard
    <2> QED BY <2>1, HomeLands, Sooner
  <1>5. CASE me.role \notin Staff /\ me.role \notin SendsHome[r] /\ me.role # r
    <2>1. Rendered(p) = "/"
      BY <1>1, <1>2, <1>5 DEF PortalGuard
    <2>2. me.role # "donor"
      BY <1>5 DEF Portals, SendsHome
    <2> QED BY <2>1, <2>2, HubsLand, Sooner
  <1>6. CASE me.role = r
    <2>1. r \notin Staff /\ r \notin SendsHome[r]
      BY DEF Portals, Staff, SendsHome
    <2>2. Rendered(p) = IF ~me.verified THEN "/verify-email"
                        ELSE IF p = "/donor/sponsorships" THEN "/donor/payments" ELSE Show
      BY <1>1, <1>2, <1>6, <2>1 DEF PortalGuard
    <2>3. Soon0("/verify-email")
      BY OthersRendered DEF Soon0, Lands
    <2>4. CASE me.verified /\ p = "/donor/sponsorships"
      <3>1. r = "donor"
        BY <2>4 DEF Portals, Pages
      <3>2. "/donor/payments" \in Pages[r] /\ "/donor/payments" # "/donor/sponsorships"
        BY <3>1 DEF Pages
      <3>3. Rendered("/donor/payments") = Show
        BY <1>1, <1>6, <2>1, <2>4, <3>2, PortalRendered DEF PortalGuard
      <3>4. Soon0("/donor/payments")
        BY <3>3 DEF Soon0, Lands
      <3> QED BY <2>2, <2>4, <3>4, Sooner
    <2>5. CASE ~me.verified
      BY <2>2, <2>3, <2>5, Sooner
    <2>6. CASE me.verified /\ p # "/donor/sponsorships"
      <3>1. Soon0(p)
        BY <2>2, <2>6 DEF Soon0, Lands
      <3> QED BY <3>1, Sooner
    <2> QED BY <2>4, <2>5, <2>6
  <1> QED BY <1>3, <1>4, <1>5, <1>6

\* Every address is three redirects away at most.
LEMMA KnownLand ==
    ASSUME token # "none", me \in Account, NEW p \in Path
    PROVE  Soon3(p)
  <1>1. me # NotLoaded /\ me.role \in Role
    BY DEF Account, NotLoaded, Role, Staff
  <1>2. CASE p \in PublicPages \cup {"/elsewhere"}
    <2>1. Soon0("/orphans") /\ Soon0("/verify-email")
      BY OthersRendered DEF Soon0, Lands
    <2>2. Soon2("/") /\ Rendered("/elsewhere") = "/"
      BY HubsLand, OthersRendered
    <2> QED BY <1>2, <2>1, <2>2, Sooner DEF PublicPages
  <1>3. CASE p \in SignInPages
    <2>1. Rendered(p) \in {Show, "/", "/orphan", "/guardian"}
      BY <1>3, OthersRendered DEF SignInPage, SignInPages
    <2>2. Soon2("/")
      BY HubsLand
    <2>3. Soon2("/orphan") /\ Soon2("/guardian")
      <3>1. "/orphan" \in Pages["orphan"] /\ "/guardian" \in Pages["guardian"] /\ {"orphan", "guardian"} \subseteq Portals
        BY DEF Pages, Portals
      <3> QED BY <3>1, PortalsLand
    <2>4. Rendered(p) = Show => Soon0(p)
      BY DEF Soon0, Lands
    <2> QED BY <2>1, <2>2, <2>3, <2>4, Sooner
  <1>4. CASE p \in OfficePaths
    <2>1. Rendered(p) \in {Show, "/admin/dashboard", "/partner/approvals", HomePath[me.role]}
      BY <1>1, <1>4, OfficeRendered DEF OfficeGuard
    <2>2. Soon2("/admin/dashboard") /\ Soon1(HomePath[me.role])
      BY HubsLand, HomeLands
    <2>3. Soon2("/partner/approvals")
      <3>1. "/partner/approvals" \in OfficePaths /\ "/partner/approvals" \notin {"/admin", "/partner", "/admin/media-review"}
        BY DEF OfficePaths
      <3>2. Rendered("/partner/approvals") \in {Show, HomePath[me.role]}
        BY <1>1, <3>1, OfficeRendered DEF OfficeGuard
      <3>3. Rendered("/partner/approvals") = Show => Soon0("/partner/approvals")
        BY DEF Soon0, Lands
      <3> QED BY <2>2, <3>2, <3>3, Sooner
    <2>4. Rendered(p) = Show => Soon0(p)
      BY DEF Soon0, Lands
    <2> QED BY <2>1, <2>2, <2>3, <2>4, Sooner
  <1>5. ASSUME NEW r \in Portals, p \in Pages[r]
        PROVE  Soon3(p)
    BY <1>5, PortalsLand, Sooner
  <1> QED BY <1>2, <1>3, <1>4, <1>5, AllPaths DEF Portals

\* The safety in Settles: from whatever address, in whatever state of the token
\* and of the cached profile, it is three redirects at most.
THEOREM ThreeRedirects == Spec => []FewRedirects
  <1>1. PortalInv => FewRedirects
    <2> SUFFICES ASSUME PortalInv PROVE Soon3(path)
      BY DEF FewRedirects, Soon3
    <2>1. path \in Path /\ me \in Account \cup {NotLoaded}
      BY DEF PortalInv, TypeOK, RoutingTypeOK
    <2> QED BY <2>1, StrangersLand, UnknownLand, KnownLand, Sooner
  <1> QED BY <1>1, Inductive, PTL

-----------------------------------------------------------------------------
(* What the pages show.  The rows they hold are sequences of rows of their *)
(* kind, none of them twice.                                               *)

IsRows(rows, S) == rows \in Seq(S) /\ Injected(rows)
RowsInv ==
    /\ IsRows(sponsorships.rows, SponsorshipRow) /\ IsRows(asked.rows, SponsorshipRow)
    /\ IsRows(reports.rows, ReportRow) /\ IsRows(messages.rows, MessageRow)
    /\ IsRows(dashboard.rows, PaymentRow) /\ IsRows(record.rows, PaymentRow)

\* No rows are rows.
LEMMA NoRows == ASSUME NEW S PROVE IsRows(<<>>, S)
  BY DEF IsRows, Injected

\* What a query answers.
LEMMA AnswersAre ==
    ASSUME IsBook(book)
    PROVE  /\ \A s \in NewestFirst({Projected(x) : x \in book.sponsorships}, Created) : IsRows(s, SponsorshipRow)
           /\ \A s \in NewestFirst(book.reports, Published) : IsRows(s, ReportRow)
           /\ \A s \in NewestFirst(book.messages, Created) : IsRows(s, MessageRow)
           /\ \A s \in NewestFirst(book.payments, Settled) : IsRows(s, PaymentRow)
  <1> DEFINE P == {Projected(x) : x \in book.sponsorships}
             f == [x \in book.sponsorships |-> Projected(x)]
  <1>1. /\ IsFiniteSet(book.sponsorships) /\ IsFiniteSet(book.reports)
        /\ IsFiniteSet(book.messages) /\ IsFiniteSet(book.payments)
    BY DEF IsBook
  <1>2. /\ book.sponsorships \subseteq SponsorshipRow /\ book.reports \subseteq ReportRow
        /\ book.messages \subseteq MessageRow /\ book.payments \subseteq PaymentRow
    BY DEF IsBook
  <1>3. IsFiniteSet(P)
    <2>1. f \in Surjection(book.sponsorships, P)
      BY DEF Surjection
    <2> QED BY <2>1, <1>1, FS_Surjection
  <1>4. P \subseteq SponsorshipRow
    <2>1. \A x \in SponsorshipRow : Projected(x) \in SponsorshipRow
      BY DEF Projected, SponsorshipRow
    <2> HIDE DEF P
    <2>2. \A y \in P : \E x \in book.sponsorships : y = Projected(x)
      BY DEF P
    <2> QED BY <1>2, <2>1, <2>2
  <1> HIDE DEF P
  <1>5. ASSUME NEW rows, NEW S, rows \subseteq S, IsFiniteSet(rows), NEW s \in SetToSeqs(rows)
        PROVE  IsRows(s, S)
    <2>1. s \in Seq(rows) /\ Injected(s)
      BY <1>5, AllOnce
    <2> QED BY <1>5, <2>1 DEF IsRows
  <1>6. \A s \in NewestFirst(P, Created) : s \in SetToSeqs(P)
    BY DEF NewestFirst
  <1>7. \A s \in NewestFirst(book.reports, Published) : s \in SetToSeqs(book.reports)
    BY DEF NewestFirst
  <1>8. \A s \in NewestFirst(book.messages, Created) : s \in SetToSeqs(book.messages)
    BY DEF NewestFirst
  <1>9. \A s \in NewestFirst(book.payments, Settled) : s \in SetToSeqs(book.payments)
    BY DEF NewestFirst
  <1>10. \A s \in NewestFirst(P, Created) : IsRows(s, SponsorshipRow)
    BY <1>3, <1>4, <1>5, <1>6
  <1>11. \A s \in NewestFirst(book.reports, Published) : IsRows(s, ReportRow)
    BY <1>1, <1>2, <1>5, <1>7
  <1>12. \A s \in NewestFirst(book.messages, Created) : IsRows(s, MessageRow)
    BY <1>1, <1>2, <1>5, <1>8
  <1>13. \A s \in NewestFirst(book.payments, Settled) : IsRows(s, PaymentRow)
    BY <1>1, <1>2, <1>5, <1>9
  <1> QED BY <1>10, <1>11, <1>12, <1>13 DEF P

\* A page of rows is rows.
LEMMA SliceRows ==
    ASSUME NEW S, NEW s, IsRows(s, S), NEW n \in Nat
    PROVE  IsRows(Slice(s, n), S)
  <1> DEFINE last == IF n + PageSize < Len(s) THEN n + PageSize ELSE Len(s)
             t == SubSeq(s, n + 1, last)
  <1>1. PageSize \in Nat \ {0} /\ s \in Seq(S) /\ Len(s) \in Nat
    BY PortalAssumption DEF IsRows
  <1>2. last \in Int /\ last <= Len(s)
    BY <1>1
  <1>3. Slice(s, n) = t
    BY DEF Slice
  <1> HIDE DEF last
  <1>4. \A i \in (n + 1) .. last : s[i] \in S
    BY <1>1, <1>2
  <1>5. /\ t \in Seq(S)
        /\ Len(t) = IF n + 1 <= last THEN last - (n + 1) + 1 ELSE 0
        /\ \A i \in 1 .. last - (n + 1) + 1 : t[i] = s[n + 1 + i - 1]
    BY <1>2, <1>4, SubSeqProperties
  <1> HIDE DEF t
  <1>6. ASSUME NEW i \in DOMAIN t, NEW j \in DOMAIN t, t[i] = t[j]
        PROVE  i = j
    <2>0. DOMAIN t = 1..Len(t)
      BY <1>5
    <2> DEFINE l == Len(t)
    <2>a. i \in 1..l /\ j \in 1..l /\ l = (IF n + 1 <= last THEN last - (n + 1) + 1 ELSE 0)
      BY <1>5, <1>6, <2>0
    <2> HIDE DEF l
    <2>1. i \in 1..last - n /\ j \in 1..last - n
      BY <1>2, <2>a
    <2>2. t[i] = s[n + i] /\ t[j] = s[n + j]
      <3>1. last - (n + 1) + 1 = last - n /\ n + 1 + i - 1 = n + i /\ n + 1 + j - 1 = n + j
        BY <1>2, <2>1
      <3>2. t[i] = s[n + 1 + i - 1] /\ t[j] = s[n + 1 + j - 1]
        BY <1>5, <2>1, <3>1
      <3> QED BY <3>1, <3>2
    <2>3. n + i \in DOMAIN s /\ n + j \in DOMAIN s
      BY <1>1, <1>2, <2>1
    <2>4. n + i = n + j
      BY <1>6, <2>2, <2>3 DEF IsRows, Injected
    <2> QED BY <2>1, <2>4
  <1>7. Injected(t)
    BY <1>6 DEF Injected
  <1> QED BY <1>3, <1>5, <1>7 DEF IsRows

\* At the start there are none.
LEMMA StartRows == Init => RowsInv
  <1>1. Absent.rows = <<>> /\ NothingAsked.rows = <<>>
    BY DEF Absent, NothingAsked
  <1> QED BY <1>1, NoRows DEF Init, RowsInv

\* Whatever a step writes is rows.
LEMMA StepRows == PortalInv /\ RowsInv /\ [Next]_vars => RowsInv'
  <1> SUFFICES ASSUME PortalInv, RowsInv, [Next]_vars PROVE RowsInv'
    OBVIOUS
  <1>0. Absent.rows = <<>> /\ NothingAsked.rows = <<>>
    BY DEF Absent, NothingAsked
  <1>b. IsBook(book) /\ sponsorships = [st |-> sponsorships.st, rows |-> sponsorships.rows] /\ offset \in Nat
    BY DEF PortalInv, ListInv, TypeOK
  <1>1. ASSUME UNCHANGED <<sponsorships, asked, reports, messages, dashboard>>,
               record' = record \/ record' = Absent
        PROVE  RowsInv'
    BY <1>0, <1>1, NoRows DEF RowsInv
  <1>2. CASE UNCHANGED cacheVars /\ (UNCHANGED pageVars \/ NewPage)
    BY <1>1, <1>2 DEF cacheVars, pageVars, NewPage
  <1>3. CASE Redirected \/ Navigate \/ SessionStep \/ Propose \/ LeaveWizard \/ PaymentCompletes
               \/ UNCHANGED vars
    BY <1>2, <1>3 DEF Redirected, Navigate, SessionStep, Propose, LeaveWizard, PaymentCompletes, vars
  <1>4. CASE SignsIn \/ StartsOver
    <2>1. /\ sponsorships' = Absent /\ reports' = Absent /\ messages' = Absent /\ dashboard' = Absent
          /\ asked' = NothingAsked /\ record' = Absent
      BY <1>4 DEF SignsIn, StartsOver, NewCache, NewPage
    <2> QED BY <2>1, <1>0, NoRows DEF RowsInv
  <1>5. CASE AskSponsorships
    <2>1. PICK s \in NewestFirst({Projected(x) : x \in book.sponsorships}, Created) :
             asked' = [on |-> TRUE, rows |-> s]
      BY <1>5 DEF AskSponsorships
    <2>2. asked'.rows = s /\ IsRows(s, SponsorshipRow)
      BY <1>b, <2>1, AnswersAre
    <2>3. UNCHANGED <<sponsorships, reports, messages, dashboard, record>>
      BY <1>5 DEF AskSponsorships, pageVars
    <2> QED BY <2>2, <2>3 DEF RowsInv
  <1>6. CASE SponsorshipsArrive
    <2>1. sponsorships'.rows = asked.rows /\ asked' = NothingAsked /\ UNCHANGED <<reports, messages, dashboard, record>>
      BY <1>6 DEF SponsorshipsArrive, Answer, pageVars
    <2> QED BY <1>0, <2>1, NoRows DEF RowsInv
  <1>7. CASE SponsorshipsLost
    <2>1. asked' = NothingAsked /\ UNCHANGED <<sponsorships, reports, messages, dashboard, record>>
      BY <1>7 DEF SponsorshipsLost, pageVars
    <2> QED BY <1>0, <2>1, NoRows DEF RowsInv
  <1>8. CASE SponsorshipsAge
    <2>1. sponsorships' = [st |-> "stale", rows |-> sponsorships.rows]
      BY <1>b, <1>8 DEF SponsorshipsAge
    <2>2. sponsorships'.rows = sponsorships.rows /\ UNCHANGED <<reports, messages, dashboard, asked, record>>
      BY <1>8, <2>1 DEF SponsorshipsAge, pageVars
    <2> QED BY <2>2 DEF RowsInv
  <1>9. CASE ReportsArrive
    <2>1. PICK s \in NewestFirst(book.reports, Published) : reports' = Answer(s)
      BY <1>9 DEF ReportsArrive
    <2>2. reports'.rows = s /\ IsRows(s, ReportRow)
      BY <1>b, <2>1, AnswersAre DEF Answer
    <2>3. UNCHANGED <<sponsorships, messages, dashboard, asked, record>>
      BY <1>9 DEF ReportsArrive, pageVars
    <2> QED BY <2>2, <2>3 DEF RowsInv
  <1>10. CASE MessagesArrive
    <2>1. PICK s \in NewestFirst(book.messages, Created) : messages' = Answer(s)
      BY <1>10 DEF MessagesArrive
    <2>2. messages'.rows = s /\ IsRows(s, MessageRow)
      BY <1>b, <2>1, AnswersAre DEF Answer
    <2>3. UNCHANGED <<sponsorships, reports, dashboard, asked, record>>
      BY <1>10 DEF MessagesArrive, pageVars
    <2> QED BY <2>2, <2>3 DEF RowsInv
  <1>11. CASE DashboardPaymentsArrive
    <2>1. PICK s \in NewestFirst(book.payments, Settled) : dashboard' = Answer(s)
      BY <1>11 DEF DashboardPaymentsArrive
    <2>2. dashboard'.rows = s /\ IsRows(s, PaymentRow)
      BY <1>b, <2>1, AnswersAre DEF Answer
    <2>3. UNCHANGED <<sponsorships, reports, messages, asked, record>>
      BY <1>11 DEF DashboardPaymentsArrive, pageVars
    <2> QED BY <2>2, <2>3 DEF RowsInv
  <1>12. CASE RecordArrives
    <2>1. PICK s \in NewestFirst(book.payments, Settled) : record' = Answer(Slice(s, offset))
      BY <1>12 DEF RecordArrives
    <2>2. IsRows(s, PaymentRow)
      BY <1>b, <2>1, AnswersAre
    <2>3. record'.rows = Slice(s, offset) /\ IsRows(Slice(s, offset), PaymentRow)
      BY <1>b, <2>1, <2>2, SliceRows DEF Answer
    <2>4. UNCHANGED <<sponsorships, asked, reports, messages, dashboard>>
      BY <1>12 DEF RecordArrives, cacheVars
    <2> QED BY <2>3, <2>4 DEF RowsInv
  <1>13. CASE TurnPage \/ \E c \in Folded \cup {"all"} : PickChip(c)
    BY <1>1, <1>13 DEF TurnPage, PickChip, cacheVars
  <1>14. CASE ProposalAnswered
    <2>1. sponsorships'.rows = sponsorships.rows
      BY <1>14, InvalidatedList
    <2>2. asked' \in {asked, NothingAsked} /\ UNCHANGED <<record, reports, messages, dashboard>>
      BY <1>14 DEF ProposalAnswered, pageVars
    <2> QED BY <1>0, <2>1, <2>2, NoRows DEF RowsInv
  <1>15. CASE ProposalLost
    <2>1. UNCHANGED <<sponsorships, asked, reports, messages, dashboard, record>>
      BY <1>15 DEF ProposalLost, pageVars
    <2> QED BY <1>1, <2>1
  <1> QED BY <1>3, <1>4, <1>5, <1>6, <1>7, <1>8, <1>9, <1>10, <1>11, <1>12, <1>13, <1>14, <1>15 DEF Next

\* The invariant of the portal, with what the caches hold.
THEOREM RowsInductive == Spec => [](PortalInv /\ RowsInv)
  <1>1. Init => PortalInv /\ RowsInv
    BY StartInv, StartRows
  <1>2. PortalInv /\ RowsInv /\ [Next]_vars => (PortalInv /\ RowsInv)'
    BY StepInv, StepRows
  <1> QED BY <1>1, <1>2, PTL DEF Spec

\* What the functions of the pages are applied to.
LEMMA RowsFit ==
    /\ Money(PaymentRow) /\ Sponsored(SponsorshipRow) /\ Reported(ReportRow) /\ Written(MessageRow)
    /\ \A rows : rows \in Seq(ReportRow) => ToSet(rows) \subseteq ReportRow
  <1>1. Money(PaymentRow)
    BY DEF Money, PaymentRow
  <1>2. Sponsored(SponsorshipRow)
    BY DEF Sponsored, SponsorshipRow
  <1>3. Reported(ReportRow) /\ Written(MessageRow)
    BY DEF Reported, Written, ReportRow, MessageRow
  <1>4. \A rows : rows \in Seq(ReportRow) => ToSet(rows) \subseteq ReportRow
    BY DEF ToSet
  <1> QED BY <1>1, <1>2, <1>3, <1>4

\* The sponsorships on the screen have one row of a number, and one live row of a child.
LEMMA ShownOnce ==
    ASSUME PortalInv, RowsInv
    PROVE  OneId(sponsorships.rows) /\ OneLive(sponsorships.rows)
  <1> DEFINE rows == sponsorships.rows
  <1>1. /\ ToSet(rows) \subseteq {Projected(s) : s \in book.sponsorships}
        /\ Injected(rows) /\ book.sponsorships \subseteq SponsorshipRow /\ OneOfEach(book.sponsorships)
    BY DEF PortalInv, TypeOK, IsAnswer, ListInv, IsBook, RowsInv, IsRows
  <1> HIDE DEF rows
  <1>2. \A i \in DOMAIN rows : \E s \in book.sponsorships : rows[i] = Projected(s)
    BY <1>1 DEF ToSet
  <1>3. \A s \in book.sponsorships :
           Projected(s).id = s.id /\ Projected(s).orphan = s.orphan /\ Projected(s).status = s.status
    BY <1>1 DEF Projected, SponsorshipRow
  <1>4. \A s, t \in book.sponsorships : s.id = t.id => s = t
    BY <1>1 DEF OneOfEach
  <1>5. \A s, t \in book.sponsorships : Live(s) /\ Live(t) /\ s.orphan = t.orphan => s = t
    BY <1>1 DEF OneOfEach
  <1>6. ASSUME NEW i \in DOMAIN rows, NEW j \in DOMAIN rows, rows[i].id = rows[j].id
        PROVE  i = j
    <2>1. PICK s \in book.sponsorships, t \in book.sponsorships : rows[i] = Projected(s) /\ rows[j] = Projected(t)
      BY <1>2
    <2>2. s = t
      BY <1>3, <1>4, <1>6, <2>1
    <2> QED BY <1>1, <2>1, <2>2 DEF Injected
  <1>7. ASSUME NEW i \in DOMAIN rows, NEW j \in DOMAIN rows,
               Live(rows[i]), Live(rows[j]), rows[i].orphan = rows[j].orphan
        PROVE  i = j
    <2>1. PICK s \in book.sponsorships, t \in book.sponsorships : rows[i] = Projected(s) /\ rows[j] = Projected(t)
      BY <1>2
    <2>2. Live(s) /\ Live(t)
      BY <1>3, <1>7, <2>1 DEF Live
    <2>3. s = t
      BY <1>3, <1>5, <1>7, <2>1, <2>2
    <2> QED BY <1>1, <2>1, <2>3 DEF Injected
  <1> QED BY <1>6, <1>7 DEF OneId, OneLive, rows

\* The dashboard, the payments page and the waqf page agree, whatever payments
\* the donor has and however many fit a page.
THEOREM SurfacesAlwaysAgree == Spec => []SurfacesAgree
  <1>1. PortalInv /\ RowsInv => SurfacesAgree
    <2> SUFFICES ASSUME PortalInv, RowsInv PROVE SurfacesAgree
      OBVIOUS
    <2>1. /\ record.rows \in Seq(PaymentRow) /\ Injected(record.rows)
          /\ dashboard.rows \in Seq(PaymentRow) /\ Injected(dashboard.rows)
      BY DEF RowsInv, IsRows
    <2> DEFINE a == record.rows
               b == dashboard.rows
    <2> HIDE DEF a, b
    <2>2. a \in Seq(PaymentRow) /\ Injected(a) /\ b \in Seq(PaymentRow) /\ Injected(b)
      BY <2>1 DEF a, b
    <2>3. /\ a # <<>> => FilterPaymentRows(a, ActiveChip(a, chip)) # <<>>
          /\ Len(FilterPaymentRows(a, ActiveChip(a, chip))) = CountByStatus(a, ActiveChip(a, chip))
      BY <2>2, RowsFit, ChipsHold
    <2>4. ASSUME ToSet(a) = ToSet(b)
          PROVE  LET year == SummarizeYear(a, CurrentYear)
                     done == Where(a, Completed)
                     ofYear == \A p \in ToSet(done) : Year(EffectiveDate(p)) = CurrentYear
                 IN  /\ year = SummarizeYearToDate(b)
                     /\ ofYear => year.count = CountByStatus(a, "completed")
                     /\ (ofYear /\ \A p \in ToSet(done) : p.waqf) => year = SummarizeMyWaqf(b)
      BY <2>2, <2>4, RowsFit, PagesAgree
    <2>5. SameRows(dashboard, record) => ToSet(a) = ToSet(b)
      BY DEF SameRows, a, b
    <2> QED BY <2>3, <2>4, <2>5 DEF SurfacesAgree, a, b
  <1> QED BY <1>1, RowsInductive, PTL

\* The dashboard and My Orphans tell one story of the children, whatever rows
\* the donor has.
THEOREM ChildrenAlwaysAgree == Spec => []ChildrenAgree
  <1>1. PortalInv /\ RowsInv => ChildrenAgree
    <2> SUFFICES ASSUME PortalInv, RowsInv PROVE ChildrenAgree
      OBVIOUS
    <2>1. /\ sponsorships.rows \in Seq(SponsorshipRow) /\ reports.rows \in Seq(ReportRow)
          /\ messages.rows \in Seq(MessageRow)
      BY DEF RowsInv, IsRows
    <2>2. OneLive(sponsorships.rows)
      BY ShownOnce
    <2> DEFINE rows == sponsorships.rows
               p == reports.rows
               m == messages.rows
    <2> HIDE DEF rows, p, m
    <2>3. /\ rows \in Seq(SponsorshipRow) /\ OneLive(rows) /\ p \in Seq(ReportRow) /\ m \in Seq(MessageRow)
          /\ Sponsored(SponsorshipRow) /\ Reported(ReportRow) /\ Written(MessageRow)
      BY <2>1, <2>2, RowsFit DEF rows, p, m
    <2>4. Story(rows, p, m)
      BY <2>3, OneStory
    <2> QED BY <2>4, Zenon DEF Story, ChildrenAgree, Cards, rows, p, m
  <1> QED BY <1>1, RowsInductive, PTL

\* The server sends no names of children, so the impact bar names none.
LEMMA NoNames ==
    ASSUME PortalInv
    PROVE  TiesAgree(sponsorships.rows)
  <1> DEFINE rows == sponsorships.rows
  <1>1. ToSet(rows) \subseteq {Projected(s) : s \in book.sponsorships} /\ book.sponsorships \subseteq SponsorshipRow
    BY DEF PortalInv, TypeOK, IsAnswer, ListInv, IsBook
  <1> HIDE DEF rows
  <1>2. \A s \in book.sponsorships : Projected(s).name = 0
    BY <1>1 DEF Projected, SponsorshipRow
  <1>3. \A i \in DOMAIN rows : rows[i].name = 0
    BY <1>1, <1>2 DEF ToSet
  <1>4. TiesAgree(rows)
    BY <1>3 DEF TiesAgree
  <1> QED BY <1>4 DEF rows

\* Of the rows a step leaves as they were, what is shown stays as it was.
LEMMA SameRowsShown ==
    ASSUME PortalInv, RowsInv, PortalInv', RowsInv'
    PROVE  /\ ToSet(dashboard.rows) = ToSet(dashboard'.rows) => MoneyShown' = MoneyShown
           /\ (/\ ToSet(sponsorships.rows) = ToSet(sponsorships'.rows)
               /\ ToSet(reports.rows) = ToSet(reports'.rows)
               /\ ToSet(messages.rows) = ToSet(messages'.rows))
                 => ChildrenShown(Cards', sponsorships'.rows) = ChildrenShown(Cards, sponsorships.rows)
  <1>0. Money(PaymentRow) /\ Sponsored(SponsorshipRow) /\ Reported(ReportRow) /\ Written(MessageRow)
    BY RowsFit
  <1>1. ASSUME ToSet(dashboard.rows) = ToSet(dashboard'.rows)
        PROVE  MoneyShown' = MoneyShown
    <2> DEFINE a == dashboard.rows
               b == dashboard'.rows
    <2>1. a \in Seq(PaymentRow) /\ Injected(a) /\ b \in Seq(PaymentRow) /\ Injected(b) /\ ToSet(a) = ToSet(b)
      BY <1>1 DEF RowsInv, IsRows
    <2>2. MoneyShown = SummarizeYearToDate(a) /\ MoneyShown' = SummarizeYearToDate(b)
      BY DEF MoneyShown
    <2> HIDE DEF a, b
    <2>3. SummarizeYear(a, CurrentYear) = SummarizeYearToDate(a)
      BY <1>0, <2>1, PagesAgree
    <2>4. SummarizeYear(a, CurrentYear) = SummarizeYearToDate(b)
      BY <1>0, <2>1, PagesAgree
    <2> QED BY <2>2, <2>3, <2>4
  <1>2. ASSUME ToSet(sponsorships.rows) = ToSet(sponsorships'.rows), ToSet(reports.rows) = ToSet(reports'.rows),
               ToSet(messages.rows) = ToSet(messages'.rows)
        PROVE  ChildrenShown(Cards', sponsorships'.rows) = ChildrenShown(Cards, sponsorships.rows)
    <2> DEFINE a == sponsorships.rows
               b == sponsorships'.rows
               p == reports.rows
               q == reports'.rows
               m == messages.rows
               n == messages'.rows
    <2>1. /\ a \in Seq(SponsorshipRow) /\ Injected(a) /\ b \in Seq(SponsorshipRow) /\ Injected(b)
          /\ p \in Seq(ReportRow) /\ q \in Seq(ReportRow) /\ ToSet(p) = ToSet(q)
          /\ m \in Seq(MessageRow) /\ Injected(m) /\ n \in Seq(MessageRow) /\ Injected(n)
          /\ ToSet(a) = ToSet(b) /\ ToSet(m) = ToSet(n)
      BY <1>2 DEF RowsInv, IsRows
    <2>2. OneId(a) /\ OneLive(a)
      BY ShownOnce
    <2>a. TiesAgree(a)
      BY NoNames
    <2>3. OneLive(b)
      <3>1. (PortalInv /\ RowsInv => OneLive(sponsorships.rows))'
        BY ShownOnce, PTL
      <3> QED BY <3>1
    <2>4. Cards = BuildOrphanCards(a, p, m) /\ Cards' = BuildOrphanCards(b, q, n)
      BY DEF Cards
    <2> HIDE DEF a, b, p, q, m, n
    <2>5. Shuffled(a, b) /\ Shuffled(m, n)
      BY <2>1, SameSetShuffled DEF Injected
    <2> DEFINE c == BuildOrphanCards(a, p, m)
               d == BuildOrphanCards(b, q, n)
    <2>6. /\ \A k \in {"priority", "name", "newest"} : SortCards(c, k) = SortCards(d, k)
          /\ SummarizeAttention(c) = SummarizeAttention(d)
          /\ BuildNewsFeed(c) = BuildNewsFeed(d)
          /\ Nameless(SummarizeImpact(a)) = Nameless(SummarizeImpact(b))
          /\ TiesAgree(a) => SummarizeImpact(a) = SummarizeImpact(b)
          /\ NextScheduledPayment(a) = NextScheduledPayment(b)
      BY <1>0, <2>1, <2>2, <2>3, <2>5, OrderDecidesNothing
    <2> HIDE DEF c, d
    <2>7. ChildrenShown(c, a) = ChildrenShown(d, b)
      BY <2>6, <2>a, Zenon DEF ChildrenShown
    <2> QED BY <2>4, <2>7 DEF a, b, c, d
  <1> QED BY <1>1, <1>2

\* The order in which the server sends the rows decides nothing.
THEOREM OrderNeverShows == Spec => RefetchChangesNothing
  <1>1. ASSUME PortalInv, RowsInv, PortalInv', RowsInv'
        PROVE  /\ Refetched(dashboard, dashboard') => MoneyShown' = MoneyShown
               /\ (\/ Refetched(sponsorships, sponsorships') /\ UNCHANGED <<reports, messages>>
                   \/ Refetched(reports, reports') /\ UNCHANGED <<sponsorships, messages>>
                   \/ Refetched(messages, messages') /\ UNCHANGED <<sponsorships, reports>>)
                    => \A before \in {Cards}, after \in {Cards'} :
                          ChildrenShown(after, sponsorships'.rows) = ChildrenShown(before, sponsorships.rows)
    <2>1. Refetched(dashboard, dashboard') => ToSet(dashboard.rows) = ToSet(dashboard'.rows)
      BY DEF Refetched, SameRows
    <2>2. (\/ Refetched(sponsorships, sponsorships') /\ UNCHANGED <<reports, messages>>
           \/ Refetched(reports, reports') /\ UNCHANGED <<sponsorships, messages>>
           \/ Refetched(messages, messages') /\ UNCHANGED <<sponsorships, reports>>)
            => /\ ToSet(sponsorships.rows) = ToSet(sponsorships'.rows)
               /\ ToSet(reports.rows) = ToSet(reports'.rows)
               /\ ToSet(messages.rows) = ToSet(messages'.rows)
      BY DEF Refetched, SameRows
    <2> QED BY <1>1, <2>1, <2>2, SameRowsShown
  <1> QED BY <1>1, RowsInductive, PTL DEF RefetchChangesNothing
=============================================================================
