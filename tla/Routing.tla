------------------------------- MODULE Routing -------------------------------
(***************************************************************************)
(* Which page a tab shows: the routes of frontend/src/App.tsx, the guards  *)
(* around them (components/*Route.tsx), hooks/useRole.ts, the redirects of *)
(* the landing and sign-in pages.                                          *)
(*                                                                         *)
(* A guard decides by the token in the store and by me, the cached answer  *)
(* of /auth/me, which arrives later and may be out of date.  Redirects are *)
(* rendered at once: nobody acts on a page that sends the browser on.      *)
(* Of pages under one guard, one stands for all.                           *)
(***************************************************************************)
EXTENDS Naturals

VARIABLES
    token,    \* access token of the store: "none", "valid" or "expired"
    account,  \* whose tokens they are: the role and whether the e-mail is verified
    me,       \* cached answer of /auth/me
    path,     \* address
    from      \* location.state.from of the sign-in page

routingVars == <<token, account, me, path, from>>

Staff == {"super_admin", "org_admin", "partner_manager", "partner_staff",
          "marketing_manager", "finance"}
Role == Staff \cup {"donor", "orphan", "guardian", "orphanage_manager", "viewer"}
Account == {a \in [role : Role, verified : BOOLEAN] : a.role # "donor" => a.verified}
NotLoaded == [role |-> "unknown", verified |-> FALSE]

\* homePath of useRole.  A viewer, a role of the database that the frontend
\* does not know, has none but the landing page.
HomePath ==
    [super_admin |-> "/platform", org_admin |-> "/admin/dashboard",
     partner_manager |-> "/partner/approvals", partner_staff |-> "/admin/orphans",
     finance |-> "/admin/finance", marketing_manager |-> "/admin/marketing-channels",
     donor |-> "/donor/dashboard", orphan |-> "/orphan", guardian |-> "/guardian",
     orphanage_manager |-> "/orphanage-manager", viewer |-> "/"]

\* KNOWN_HOME_PATHS of the landing page: without /guardian, though it exists.
KnownHomes == {HomePath[r] : r \in Role \ {"guardian", "viewer"}}

\* Portals: the pages of each role's own area, the sign-in page it sends
\* strangers to, and the other roles it sends home.
Pages ==
    [donor |-> {"/donor/dashboard", "/donor/orphans", "/donor/payments",
                "/donor/sponsor", "/donor/sponsorships"},
     orphan |-> {"/orphan"}, guardian |-> {"/guardian"},
     orphanage_manager |-> {"/orphanage-manager"}]
Door == [donor |-> "/login", orphan |-> "/orphan/login",
         guardian |-> "/guardian/login", orphanage_manager |-> "/login"]
SendsHome == [donor |-> {}, orphan |-> {"donor"}, guardian |-> {"donor", "orphan"},
              orphanage_manager |-> {"donor", "orphan", "guardian"}]

\* The pages of the staff and the roles their guards let through.
Admins == {"super_admin", "org_admin"}
Office ==
    [p \in {"/admin", "/admin/orphans", "/admin/dashboard", "/admin/media-review",
            "/admin/marketing-channels", "/admin/finance", "/admin/users",
            "/partner", "/partner/approvals", "/platform"} |->
        CASE p = "/admin" -> Role
          [] p = "/admin/orphans" -> Admins \cup {"partner_manager", "partner_staff"}
          [] p = "/admin/marketing-channels" -> Admins \cup {"marketing_manager"}
          [] p = "/admin/finance" -> Admins \cup {"finance"}
          [] p = "/admin/users" -> Admins
          [] p = "/platform" -> {"super_admin"}
          [] OTHER -> Admins \cup {"partner_manager"}]

PublicPages == {"/", "/orphans", "/verify-email"}
SignInPages == {"/login", "/orphan/login", "/guardian/login"}
Path == PublicPages \cup SignInPages \cup DOMAIN Office \cup {"/elsewhere"}
            \cup UNION {Pages[r] : r \in DOMAIN Pages}
NoPath == "no path"

\* What a page does: show its content, show nothing yet, or send the browser on.
Show == "show"
Blank == "blank"

RoutingTypeOK ==
    /\ token \in {"none", "valid", "expired"}
    /\ account \in Account
    /\ me \in Account \cup {NotLoaded}
    /\ path \in Path
    /\ from \in DOMAIN Office \cup {NoPath}

-----------------------------------------------------------------------------
(* The guards.                                                             *)

\* DonorRoute, OrphanRoute, GuardianRoute, OrphanageManagerRoute.
PortalGuard(r, p) ==
    IF token = "none" THEN Door[r]
    ELSE IF me = NotLoaded THEN Blank
    ELSE IF me.role \in Staff THEN "/admin/dashboard"
    ELSE IF me.role \in SendsHome[r] THEN HomePath[me.role]
    ELSE IF me.role # r THEN "/"
    ELSE IF ~me.verified THEN "/verify-email"
    ELSE IF p = "/donor/sponsorships" THEN "/donor/payments"
    ELSE Show

\* ProtectedRoute around AdminRoute, ContentRoute, FullContentRoute,
\* FinanceRoute, MarketingRoute, PartnerRoute, SuperAdminRoute or
\* PartnerApproverGate; the index routes of /admin and /partner.
OfficeGuard(p) ==
    IF token = "none" THEN "/login"
    ELSE IF p = "/admin" THEN "/admin/dashboard"
    ELSE IF me = NotLoaded THEN Blank
    ELSE IF me.role \in Office[p] THEN IF p = "/partner" THEN "/partner/approvals" ELSE Show
    ELSE IF p = "/admin/media-review" THEN "/admin/dashboard"
    ELSE HomePath[me.role]

\* mutant: any home is dispatched to
AnyHome(r) == TRUE

Dispatched(r) == HomePath[r] \in KnownHomes

\* The landing page and the sign-in pages.
Landing ==
    IF token = "valid" /\ me # NotLoaded /\ Dispatched(me.role)
    THEN HomePath[me.role] ELSE Show

SignInPage(p) ==
    CASE p = "/login" -> IF token = "valid" THEN "/" ELSE Show
      [] p = "/orphan/login" -> IF token # "none" THEN "/orphan" ELSE Show
      [] p = "/guardian/login" -> IF token # "none" THEN "/guardian" ELSE Show

Rendered(p) ==
    CASE p = "/" -> Landing
      [] p \in SignInPages -> SignInPage(p)
      [] p \in DOMAIN Office -> OfficeGuard(p)
      [] \E r \in DOMAIN Pages : p \in Pages[r] ->
            PortalGuard(CHOOSE r \in DOMAIN Pages : p \in Pages[r], p)
      [] p = "/elsewhere" -> "/"
      [] OTHER -> Show

Moving == Rendered(path) \notin {Show, Blank}
AtRest == ~Moving

-----------------------------------------------------------------------------
(* Steps.                                                                  *)

RoutingInit ==
    /\ token = "none" /\ me = NotLoaded /\ from = NoPath
    /\ account \in Account
    /\ path = "/"

\* <Navigate replace>.  Only ProtectedRoute tells the sign-in page where from.
Redirect ==
    /\ Moving
    /\ path' = Rendered(path)
    /\ from' = IF path \in DOMAIN Office /\ token = "none" THEN path ELSE NoPath
    /\ UNCHANGED <<token, account, me>>

\* The effect of LoginPage that discards an expired token.
DiscardExpired ==
    /\ AtRest /\ path = "/login" /\ token = "expired"
    /\ token' = "none"
    /\ UNCHANGED <<account, me, path, from>>

\* Pages that call useRole ask for /auth/me, again when the answer is stale.
Asks == path \notin SignInPages \cup {"/verify-email"}

MeAnswered ==
    /\ AtRest /\ Asks /\ token = "valid"
    /\ me # account
    /\ me' = account
    /\ UNCHANGED <<token, account, path, from>>

TokenExpires ==
    /\ AtRest /\ token = "valid"
    /\ token' = "expired"
    /\ UNCHANGED <<account, me, path, from>>

\* A call is refused and the tokens are refreshed, or lost: the cache stays.
Refreshed ==
    /\ AtRest /\ Asks /\ token = "expired"
    /\ token' \in {"valid", "none"}
    /\ UNCHANGED <<account, me, path, from>>

\* mutant: the cache keeps the previous account
CacheKept == me

CacheCleared == NotLoaded

\* Sign-in at one of the three pages.
SignIn(a) ==
    /\ AtRest /\ path \in SignInPages /\ token = "none"
    /\ token' = "valid" /\ account' = a
    /\ me' = CacheCleared
    /\ path' = CASE path = "/login" -> IF from = NoPath THEN "/" ELSE from
                 [] path = "/orphan/login" -> "/orphan"
                 [] path = "/guardian/login" -> "/guardian"
    /\ from' = NoPath

\* The link of the verification mail, opened here or in another tab.
VerifyHere ==
    /\ AtRest /\ account.role = "donor" /\ ~account.verified
    /\ account' = [account EXCEPT !.verified = TRUE]
    /\ token' = "valid" /\ me' = NotLoaded
    /\ path' = "/donor/dashboard" /\ from' = NoPath

\* VerifyEmailPendingPage, which finds the token of the sign-up: the cache stays.
VerifyInPlace ==
    /\ AtRest /\ path = "/verify-email" /\ account.role = "donor" /\ ~account.verified
    /\ account' = [account EXCEPT !.verified = TRUE]
    /\ token' = "valid"
    /\ path' = "/donor/dashboard" /\ from' = NoPath
    /\ UNCHANGED me

VerifyElsewhere ==
    /\ AtRest /\ account.role = "donor" /\ ~account.verified
    /\ account' = [account EXCEPT !.verified = TRUE]
    /\ UNCHANGED <<token, me, path, from>>

\* useLogout, from the layout of a page, back to the door of its portal, or
\* from the public navigation, which offers it to those with a valid token.
Logout ==
    /\ AtRest /\ token # "none" /\ Rendered(path) = Show
    /\ path \notin SignInPages \cup {"/verify-email"}
    /\ path \in PublicPages => token = "valid"
    /\ token' = "none" /\ me' = CacheCleared
    /\ path' = IF path \in Pages["orphan"] THEN "/orphan/login"
               ELSE IF path \in Pages["guardian"] THEN "/guardian/login" ELSE "/login"
    /\ from' = NoPath
    /\ UNCHANGED account

\* An address is typed or a link opened as a new page load.
OpenAddress(p) ==
    /\ AtRest
    /\ path' = p /\ me' = NotLoaded /\ from' = NoPath
    /\ UNCHANGED <<token, account>>

\* A link followed inside the application.
FollowLink(p) ==
    /\ AtRest /\ path # p
    /\ path' = p /\ from' = NoPath
    /\ UNCHANGED <<token, account, me>>
=============================================================================
