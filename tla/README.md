# Rufaqaa in TLA+

Rufaqaa is a platform on which donors sponsor orphans: a FastAPI back end over
PostgreSQL (`src/backend/app`), Celery workers, a React front end
(`src/frontend`), a small MCP server, and the MyFatoorah payment gateway outside.
This directory holds TLA+ models of the parts in which order, concurrency,
failure and stale data decide whether the money, the records and the pages come
out right; TLC runs on small instances; and TLAPS proofs for instances of every
size.

Contents: [the system](#the-system), [how it is modelled](#how-it-is-modelled),
[PaymentLedger](#paymentledger), [Sponsorships](#sponsorships-and-kafala),
[Sessions and Browser](#sessions-and-browser),
[Workflows](#workflows-and-signatures), [Intake](#intake), [Profile](#profile),
[Routing, DonorViews, Portal](#routing-donorviews-and-portal), [runs](#runs),
[disagreements](#where-code-and-documents-disagree), [proofs](#proofs),
[plan](#plan), [not modelled](#not-modelled).

## The system

Every HTTP request gets a database session of its own (`core/database.py`),
READ COMMITTED, and each handler follows one pattern: `SELECT` a row with no
lock, test it, change attributes of the ORM object, `commit`. The ORM writes
absolute values, and only of the columns whose value changed since it read
them. Several API processes serve requests at the same time; nothing else
serialises them than PostgreSQL's row locks (from flush to commit) and its
unique indexes.

The front end is the same pattern once more, one level up: a page shows a cached
answer (react-query), decides by it what to offer, and sends a request that acts
on whatever the row has become. Answers arrive in any order, a page may be left
while its requests go on, and a refresh of the tokens may happen under any of
them.

| Component | State | Operations | Talks to | What is hard | What makes it correct | Module |
|---|---|---|---|---|---|---|
| Payments and books (`payments.py`, `webhooks.py`) | `payments`, `inbound_webhook_log`, totals of `sponsorships` | initiate, webhook for charges and refunds, replay, manual entry, refund, override | MyFatoorah, e-mail, Sponsorships | duplicated, reordered, replayed reports; read-modify-write totals; a receipt before the commit | books never count money that did not come; an acknowledged charge is on record | `PaymentLedger` |
| Sponsorship lifecycle (`sponsorships.py`, `donor_self.py`, `donors.py`, `workers/tasks/sponsorships.py`) | `sponsorships`, `donors.deleted_at` | create, propose, activate, edit, pause, resume, cancel, mark overdue, delete and restore donor | webhook, nightly worker, orphans | four writers of one status column; an IntegrityError nobody catches | one live sponsorship per pair; no proposal live without money; closed is final | `Sponsorships`, `Kafala` |
| Sign-in and sessions (`auth.py`, `core/security.py`) | `user_sessions`, passwords | sign in, refresh, change and reset password, verify e-mail | the browser | rotation under concurrent refreshes, revocation racing a refresh | a redeemed token is dead; a new password ends the sessions it found | `Sessions` |
| Tokens in the browser (`lib/api.ts`, `store/auth.ts`, `useLogout.ts`) | tokens in memory and `localStorage`, the shared refresh, the query cache | call, 401, refresh, repeat, sign in and out, verify, reload | Sessions, every page | many 401s at once; a refresh that outlives its page or its user; tokens stored under cached data | one refresh at a time; one account per tab; nobody waits for ever | `Browser` |
| Reports, transfers, cases and their consoles (`reports.py`, `bank_transfers.py`, `orphans.py`, five pages) | status and stamps of a row; the list each console shows | submit, approve, publish, reject, complete, cancel, confirm, release, register, delete | Celery | decisions by old lists; two at once; duplicate registrations | signatures in order; one decision; offered is accepted | `Workflows`, `Signatures` |
| Donor notification (`workers/tasks/notifications.py`) | `donors_notified_at` | mail, stamp | broker, e-mail | a task lost, dead, repeated, overlapping | announced once, in the end | `Workflows` |
| Orphan registration form (`NewOrphanForm.tsx`, `services/orphans.py`) | form values, requirements, partner list, dialog | fill in, change country, locate, look up, submit | orphans, partners, countries | values that outlive their fields; late answers | nothing filed under a country it was not entered for | `Intake` |
| What sponsors see of a child (`ProfileVisibilityPanel.tsx`, `OrphanInHerWordsManager.tsx`, `OrphanMediaManager.tsx`, `media.py`) | visibility map, phrases, media items | edit and save as a whole; upload, moderate, hide, consent | the donor's portal | whole documents over cached copies; stale moderation | nothing shown that nobody decided to show | `Profile` |
| Routes and guards (`App.tsx`, `*Route.tsx`, `LandingPage.tsx`) | token, cached `/auth/me`, address | redirect, sign in, sign out | Browser | five tables of roles that redirect to one another | redirects end; pages are for the account | `Routing` |
| Donor portal (four pages, `lib/donor*.ts`, `waqf.ts`) | cached sponsorships, reports, messages, payments | cards, attention, news, totals, chips, paging, proposal | donor endpoints | one rule in several copies; unordered rows; stale lists; an answer that comes late or never | the surfaces agree, whatever the order of the rows | `DonorViews`, `Portal` |
| Everything else | see [not modelled](#not-modelled) | | | | | |

`PROJECT.json` lists the components with their files, and the hazards of each at
its line, with the properties that cover them.

## How it is modelled

In the two server modules a request occupies a *slot*; `Slots` is how many the
API serves at the same moment. `reqs[s]` is a record with a program counter
(`pc`) and everything the handler has read and still holds in Python variables.
There is one step per read whose place in the order matters, and one last step
that writes and commits. Flush and commit are one step on purpose: between them
the row is locked and the change invisible, so nobody can tell them apart. A read
followed at once by a decision that ends the request (a 404 or a 409) is a
guard: a request that changes nothing is not a behaviour. `Crash(s)` kills the
process serving slot `s`: PostgreSQL rolls back; what has already left the house
(a mailed receipt, an invoice minted at the gateway) stays out.

In the modules with a front end the pages are the actors. A user's click is
enabled by what the page *shows* (a cached copy), its request carries what the
page held at that moment, the server decides by the row, and the answer arrives
as a step of its own, after anything else that may happen, or never. A click
that is refused changes nothing and is no step.

Some variables are history: they record what happened (`raced`, `mixed`,
`overlapped`, `late`, `completions`, ...) and no guard reads them. They let a
property name exactly the race that escapes it instead of excluding whole
behaviours: "unless a commit wrote over a status it had not read" is a statement
TLC checks, and every such exception is a disagreement listed
[below](#where-code-and-documents-disagree).

Requests, redeliveries, page loads and crashes are unbounded in the code. The
constants that bound them are named `Max...` (or are the sets of slots, rows,
pairs and tasks), appear in guards only, and are listed with the runs. Because
bounded requests run out, and people may simply stop, no run but the donor's
portal checks for deadlock.

## PaymentLedger

One sponsorship (`books`: status, `total_paid`, `payments_count`), the
`payments` rows that concern it, `inbound_webhook_log`, and what the outside
knows: `minted` invoices, those `payable` (somebody holds the URL), `events`
that happened at MyFatoorah, and `receipts` mailed. `completions` is a history
variable: the times a payment of the account became completed.

| Code | Actions |
|---|---|
| `initiate_payment`, `admin_initiate_on_behalf` | `Initiate`, `GatewayMints` or `GatewayDeclines`, `CommitInitiate` |
| `_process_myfatoorah_payload` with `_run_and_log` | `Deliver`/`Redeliver`/`Replay` (`ReceivePayment` reads the sponsorship), `LookUpPayment` (reads the payment), `FlipPayment` or `InsertPayment` |
| `_process_refund_event` | `ReceiveRefund` (reads the payment), `ReadForReversal` (reads the sponsorship), `ReverseAndRefund` or `RecordRefund` |
| `create_payment` | `StartManual`, `RecordManual` |
| `refund_payment` | `StartRefund`, `GatewayRefunds` or `GatewayRefusesRefund`, `CommitRefund` |
| `update_payment_status` | `Override` |
| process death | `Crash` |

MyFatoorah is external and modelled as the code uses it: an invoice can be paid
only when its URL has been handed out, that is after `CommitInitiate`; a refund
needs a charge; a report without a 200 is delivered again. A report is delivered
for nothing while it is unanswered; redeliveries of answered ones cost `extras`.

Abstractions: every payment is of one `Amount`; `on_hold` stands also for
`chargeback` and `disputed`, which no handler distinguishes; signature and JSON
parsing, the 404 for a donor that cannot be resolved, list, receipt and export
endpoints are left out (none of them changes these tables).

- `NeverOverCredited`: reading the sponsorship *before* the payment is what makes
  two overlapping deliveries credit a charge once. Both compute the same absolute
  total; had the update been `total_paid + amount` in SQL, or the reads been in
  the other order, it would fail (the second is what the refund path does, see
  `RefundReversesOnce`).
- `OneRowPerInvoice`: `gateway_transaction_id` has an index but no UNIQUE
  constraint, whatever the docstring of `replay_inbound_webhook` says; for an
  invoice that `/initiate` minted the order commit-then-hand-out-the-URL is
  enough. Invoices minted elsewhere (`Legacy`) can get two rows from
  overlapping first deliveries.
- `AcknowledgedChargeIsSettled` and `PaidIsSettled` ask for more than a row that
  is no longer open: a charge has to be on a row that says the money was taken
  (`TakenOn`: completed, or refunded or held since). A row that a Failed or a
  RefundFailed report has marked failed says no such thing, stays failed, and makes
  every later Paid report a duplicate answered 200 (`webhooks.py:187-205`). So both
  properties name that case, `FailureReported`, and no other: reports that overtake
  one another otherwise, refunds before their charge included, leave the charge on
  record.
- These two, `BooksCoverCompleted` and `ReceiptOnFlip` hold with one request at a time, crash anywhere and reports in
  any order, and not all with two: `BooksCoverCompleted` fails by a lost update of
  two payments credited at once, and a second receipt can go out when a second
  Paid, or an Authorized, read the row before the first committed.

## Sponsorships and Kafala

`sponsorships` is the table, a function of the ids in use. A row has donor,
orphan, status, amount, `due` and `months`. `due` abstracts
`next_payment_date`: NULL (`never`, what a donor's proposal has), today or later
(`ahead`), or `past`. `charge[r]` abstracts the whole ledger to the first charge
of the row: not made, reported by the gateway without an answer of ours, settled, or
dropped, which is answered 200 as a duplicate without ever having been settled.
`closed` has the rows whose first payment something else than its charge took out
of pending and processing: a Failed report, a refund or RefundFailed report that
came first, a status set by ops. None of these looks at `sponsorships`, but a Paid
report that finds the payment so is a `Duplicate`.
`orphans[o]` is what the handlers ask of an orphan: not yet browseable, browseable,
deleted. The set `deleted` has the donors with `deleted_at`.

| Code | Actions |
|---|---|
| `create_sponsorship` | `StartCreate`, `CheckExisting`, `CommitCreate` |
| `create_my_sponsorship` | `StartPropose`, `CommitPropose` |
| webhook of the first payment | `Deliver`/`Redeliver`, `LookUpPayment`, `Settle` |
| what closes that payment without its charge (`webhooks.py`, `payments.py`) | `StartClose`, `CommitClose` |
| `pause_`, `resume_`, `cancel_sponsorship` | `StartChange`, `CommitChange` with the target status `to` |
| `update_sponsorship` | `StartEdit`, `CommitEdit` |
| `mark_overdue_sponsorships` | `MarkOverdue`, one bulk UPDATE over all rows that are `Late` |
| the calendar | `DueDatePasses` |
| `soft_delete_donor`, `restore_donor` | `StartDeleteDonor`, `CommitDeleteDonor`, `RestoreDonor` |
| `approve_orphan`, `delete_orphan` | `ApproveOrphan`, `DeleteOrphan` |
| IntegrityError of the unique index | `IndexRefuses`: 500, everything rolled back, no log row |

`Indexed` is the index's `WHERE status IN (...)`, a definition apart from
`ActiveLike`, the tuple in `sponsorships.py`: that the two agree is what
`OnePerPair` depends on. Statuses `completed` and `transferred` exist in the
schema and no handler writes them; the first is kept because guards name it.

`Kafala` is the abstract specification: a sponsorship is *proposed*, *live* or
*closed*; it is added, funded, amended and closed, nothing else, and donors leave
and return. A donor has one live sponsorship of an orphan; a proposal becomes
live in the very step in which its money is settled; a closed one is final, its
terms included; a donor does not leave while one is live. The refinement mapping
(`Promise` in `Sponsorships`) maps active, paused and overdue to *live*, so
pausing, resuming and the worker stutter, and a charge is funded when it is
settled. `KeepsPromise` holds when the API serves one request at a time, with
gateway, calendar, worker and crashes interleaving between its steps. It does not
hold for two: a pause, a resumption or an activation that read the row before a
cancellation writes over it, and a donor can be deleted between a creation's read
and its commit.

`OnePerPair`, `PaidBeforeLive` and `SettledIsNotPending` hold for any number of
requests; these and `KeepsPromise` for one request at a time are proved.
`SettledIsNotPending` says of every charge answered 200, settled or dropped, that
its sponsorship is no longer pending, unless its payment had been closed before.
`PaidActivatesUnlessTwin` is liveness: a charge the gateway reports is settled in
the end, through redeliveries and crashes, or the donor has another live
sponsorship of the same orphan, or the report was dropped because the payment had
been closed. Without the first exception it fails (`sponsorship_paid_stuck`).

The two models overlap in the webhook: `PaymentLedger` keeps the money and
abstracts the sponsorship to its status, `Sponsorships` keeps the status and
abstracts the money to one charge.

## Sessions and Browser

`Sessions` is the server's side. A *pair* is the access and the refresh token
minted together; `session[p]` is the state of its row in `user_sessions`,
`parent[p]` the pair a refresh turned in for it, `bornAt[p]` the password its
owner had when the minting handler read the table. `/auth/refresh` and
`/auth/change-password` (also `/auth/reset-password`) read and commit in two
steps each; signing in decides on nothing it read from the table and is one.

`Browser` extends it with the tabs of one browser.

| Code | State and actions |
|---|---|
| `store/auth.ts`, persisted | `store` (memory of each tab), `disk` (`localStorage`, read at page load only) |
| axios interceptors of `lib/api.ts` | `call[t][k]`: `Fetch`, `ReceiveData`, `LoseCall`, `GiveUp`, `JoinRefresh`, `StartRefresh` |
| `refreshing`, `performRefresh` | `refreshing`, `refreshes`: `CheckRefresh`, `CommitRefresh` (the server), `RefreshGranted`, `RefreshRefused`, `RefreshLost` (the tab) |
| `useLogout`, sign-in pages, reload | `Logout`, `ClearExpired`, `SubmitForm`, `SignedIn`, `SignInFails`, `Reload` |
| `VerifyEmailConfirmPage`, opened from the mail | `FollowVerifyLink` (the page load), `Verified`, `VerifyFails` |
| `VerifyEmailPendingPage`, which finds the token of the sign-up | `VerifyInPlace` (no page load), `Verified`, `VerifyFails` |
| password change, `exp` | `ServerStep` |

A refresh is a message of its own, because it outlives the page that sent it.
`verifying[t]` is the account whose verification is under way in a tab: the call is
sent by one step and its tokens are stored by another, between which the tab signs
in, out, fetches and refreshes as it likes. Accounts in `Verifying` are signed up
and cannot sign in before they are verified (`Active`).

- `RotationRevokes`: a pair that has been turned in is dead for ever, whatever
  overlaps. (Two refreshes that both read it alive each mint a successor; the
  token is still dead.)
- `OldPasswordIsCutOff`: a live session older than its account's password was
  minted while the password changed, and only then.
- `NeverRefusesItself`: the shared promise does its work; no tab presents a
  token it has itself spent. Refused refreshes sign the user out.
- `OneAccountPerTab`: what a tab shows is of the account it sends tokens of. Two
  things store tokens and keep the cache, and `mixed` records the tabs where they
  find data of another account, cached or on its way: a refresh sent for one
  account and answered after another signed in, and a verification.
- `WaitersResume` (liveness): all calls that await the refresh are sent again or
  rejected.

## Workflows and Signatures

Three tables with one form of handler. `kind` chooses the table of a behaviour
(they share nothing, so one instance checks all three). A row has its status, the
operations done, the creator; `shown[u]` is the list as the console of `u` has it;
`request[u][b]` is a request under way per button; `tasks` are the deliveries of
`notify_donors_of_report`.

| Code | Definitions |
|---|---|
| `_NEXT` and the status checks of `reports.py`, `_transition` of `bank_transfers.py`, `_check_case_transition` of `orphans.py` | `From`, `To`, `Allowed`, `Accepted`, `Commit` |
| buttons of ReportsPage, PartnerReportsReviewPage, BankTransfersPage, OrphansPage, OrphanDetailPage | `AdminNext`, `ManagerNext`, `ReportOffers`, `TransferOffers`, `CaseOffers`, `CanPress`, `Click` |
| react-query's invalidation | `Refreshed`, `Fetch` |
| `create_report`, `create_transfer` | `Create` |
| `create_orphan_record` and its IntegrityError handler, `delete_orphan` | `SearchDuplicate`, `Register`, `DeleteCase` |
| `publish_report`, `.delay`, the task | `Queue`, `StartTask`, `Mail`, `Stamp`, `WorkerDies`, `Replay` |

`Signatures` is the abstract specification: every item collects the signatures
of its workflow in their order, none skipped, none taken back. `SignsInOrder`
says the three tables implement it, under all overlaps: a handler accepts exactly
one status, so a stale read cannot skip a step, only repeat or contradict one.
`DecidedOnce` says contradictions (rejected and published, cancelled and
completed) come only from a commit that wrote over a status it had not read.
`OneRecordPerChild` rests on the unique index. `OfferedIsAccepted` compares two
tables of transitions that live in two languages: a button offered by a fresh
list is accepted, and no unfinished row leaves the admin without a button.
`OneMailUnlessRepeated` and `PublishedIsAnnounced` bound the announcement from
above and below.

Abstractions: only statuses and roles; contents, attachments, amounts and
organisation scoping are left out. All registrations of a behaviour are of one
child, since that is the case in which they meet.

## Intake

`NewOrphanForm.tsx`, for an admin (who picks the partner), a partner's staff (who
have it locked) and a guardian (who has none). A value typed into a field is
represented by the country it was typed for, which is all the properties ask of
it.

| Code | Definitions |
|---|---|
| react-hook-form's values, `reset` | `form`, `Blank`, `Opened` |
| effect on `countryCode` | `ForCountry` |
| effect on the partner list | `Narrowed`, `PartnersArrive`, `PartnersFail` |
| requirements query, `countryFlags` | `known`, `Shows`, `ShowsGps`, `RequirementsArrive` |
| `requestLocation` | `RequestLocation`, `LocationFound`, `LocationFails` |
| `makeSchema`, `buildPayload`, `submit` | `Valid`, `Built`, `Submit` |
| `OrphanDuplicateNameDialog`, `find_name_matches` | `LookUp`, `Proceed`, `Cancel`, `NameMatches` |
| `create_orphan_record` | `Check`, `Insert`; other desks: `Elsewhere` |
| `onSuccess`, `onError`, leaving the page | `Created`, `Failed`, `Leave` |

- `RecordFitsCountry`: identity number, section, coordinates and partner of every
  record are of the record's country, however the country was changed under
  them. Two exceptions are named: the device's late answer, and a form submitted
  before the partners of its country were listed.
- `AdvisedBeforeSameName`: no member of the staff registers a namesake of a child
  who was there at submission without having been asked, unless the look-up failed.
- `TypeOK` also says that a dialog, a payload and a request go together: the
  dialog never outlives what it asks about.

Abstraction: the user waits for the answer of a submission; what arrives by
itself (requirements, partners, coordinates) does not. Fields the country does
not drive are one field, `child`.

## Profile

`subject` chooses the panel of a behaviour. For the two boards (visibility,
phrases) `doc` is the stored document, a set: the elements hidden, or the
phrases. Each user has a cached copy, a draft, a GET and a PUT under way.
`edited[u]` is history: what was changed by hand since the draft was last set.

| Code | Definitions |
|---|---|
| `useQuery`, refetch on focus or reconnection | `Ask`, `Read`, `Arrive` |
| the effect that resyncs the draft | `Resync`, `Synced`, `ToMap` |
| switches, phrases, Save, tabs | `Edit`, `Save`, `Open`, `Close` |
| `PUT .../profile-visibility`, `PUT .../in-her-words` | `Replace` |
| `onSuccess`, `onError` | `Saved`, `SaveFails` |
| `upload_orphan_photo`, `upload_orphan_media` | `Upload` |
| `moderate_media` | `Moderate`, `Written`, `Commit` |
| `update_media` (`MediaPatch`) | `Patch`, `Written`, `Commit` |
| `sponsorVisibility`, `_build_media_block` | `CardSaysVisible`, `SponsorSees` |

- `OnlyWhatWasEdited`: a save changes in the stored document only what its author
  changed by hand, unless somebody saved since the author's copy was read. Not a
  refetch under the author's hands, nor a failed save, nor the element without a
  switch (`media`) puts anything else into the PUT.
- `HiddenStaysHidden`: what somebody has hidden is not shown to sponsors until
  somebody shows it. The server takes any of the four visibilities, at any status,
  from all staff, and so does `Patch`; showing (`Shows`) is a PATCH that writes a
  visible state, or the approval of an item that awaits it. A rejection, which
  writes the visibility it has read, consent, or a decision by an old list never
  do it. Left out are two overlaps (`Overtaken`): an approval that writes over a
  decision it has not read, and a request to hide that writes nothing, having
  loaded the item hidden, over one that is shown by now.
- `CardTellsTruth`: the staff's card says "visible" exactly when the sponsor's page
  shows the item, except for uncategorised photos and media hidden as a whole.

## Routing, DonorViews and Portal

`Routing` is the decision each address makes from the token and the cached
`/auth/me`: `PortalGuard` for the four portals, `OfficeGuard` for the staff's
pages, `Landing`, `SignInPage`; the steps are redirects, sign-in and sign-out,
expiry and refresh of the token, verification of the e-mail in place (the cache
stays), by the link or elsewhere, typed addresses and links. Of pages under one guard one stands for all.

`DonorViews` has the pure functions of the donor's pages as operators over
sequences of rows: `BuildOrphanCards`, `SortCards`, `SummarizeAttention`,
`BuildNewsFeed`, `NextScheduledPayment`, `SummarizeImpact`, the yearly totals,
`SummarizeMyWaqf`, `CountByStatus`, `FilterPaymentRows`. It mentions no variable
and no recursion: `filter` (`Where`) and the stable `sort` (`SortedBy`) are written
by counting, a row stands in the place that the number of rows before it says
(`Listed`), which is what proofs can open; that this is what `SelectSeq` and
`SortSeq` compute is an `ASSUME` of `MCPortal`, evaluated by TLC on all short
sequences.

`Portal` composes them: pages reached through the routes show what the operators
make of the cached answers, which arrive, age, get lost and are invalidated; the
server sends rows newest first and breaks no ties, so two answers with the same
rows may differ in their order. The wizard's last step is four actions: the server
writes the row (`Propose`), the browser has the answer and invalidates
(`ProposalAnswered`), what that asks for has come and the donor is taken to the
payments wherever he has gone meanwhile (`LeaveWizard`), or the answer is lost and
nothing is invalidated (`ProposalLost`). What the server holds of a donor (`Book`) fits the
schemas of its endpoints and two constraints of the database: ids are primary
keys, and one sponsorship of a child is live at a time, by the unique index
(`OneOfEach`; that the handlers keep to it is `OnePerPair` of `Sponsorships`).

- `Settles` (liveness): from every address, in every state of token, role and
  cached profile, the redirects end. `FewRedirects`, its safety half, needs no
  fairness: three at most lead to a page. TLC agreed, it is proved for every
  instance (`ThreeRedirects`), and no run repeats it. Three are needed, by a donor whose
  e-mail is not verified and who asks for a page of the staff's (office home, donor
  home, verification).
- `ScreenIsForAccount`: a page shows only to the roles it is for, and no rows of
  an account that has left.
- `RefetchChangesNothing`: an answer with the same rows in another order changes
  no card, no news, no total: every comparator is total, every dominant currency
  is chosen the same way. The child the impact bar names is the one output that
  depends on the order (of two payments due on one day, the row that came first);
  the run cannot show it because the endpoint sends no names, and the theorem
  `OrderDecidesNothing` says what holds when it does.
- `SurfacesAgree`: dashboard, payments page and waqf page, each with its own
  copy of the rule, give the same total, currency and count; a chip shows as many
  rows as it says and the page is never empty for a chip that lost its rows.
- `ChildrenAgree`: attention bar, attention filter, news, next payment and cards
  name the same children.
- `FreshListHasProposal`: from the wizard's answer on, a list that counts as fresh
  has the proposal, wherever the donor is. `overtaken` names what is left out: a
  list under way when the answer came, and an answer that was lost.
- `ProposalIsOffered` fails: `portal_proposal`.

## Runs

| Run | Instance | Result |
|---|---|---|
| `ledger_concurrent` | 2 slots, 2 payment rows, 2 invoices (one minted by `/initiate`, one legacy that staff may also quote), every operation, 3 extras | 314,544 states; `TypeOK`, `NeverOverCredited`, `OneRowPerInvoice` |
| `ledger_serial` | 1 slot, 1 invoice, every report, 2 extras | 18,576 states; `AcknowledgedChargeIsSettled`, `BooksCoverCompleted`, `ReceiptOnFlip`, `PaidIsSettled` |
| `ledger_double_reversal` | 2 slots | violation of `RefundReversesOnce`: two overlapping deliveries of one refund take it off the books twice |
| `sponsorship_concurrent` | 2 slots, 1 donor, 1 orphan, 2 rows, 5 requests, every operation but edit | 162,889 states; `TypeOK`, `OnePerPair`, `PaidBeforeLive`, `SettledIsNotPending` |
| `sponsorship_serial` | 1 slot, 2 rows, 2 amounts, 5 requests | 210,627 states; `KeepsPromise` (refinement), `PaidActivatesUnlessTwin` |
| `sponsorship_paid_stuck` | 1 slot | violation of `PaidActivates`: a paid proposal with a live twin stays pending, every delivery a 500 |
| `session_tabs` | 1 tab, 2 accounts, one of them to be verified, 2 query keys, 3 pairs, 1 page load, 1 password change | 1,273,368 states; six properties, one of them liveness |
| `workflow_consoles` | an admin and a partner's manager; 1 report with 2 deliveries of the task, or 1 transfer, or 2 records of one child; 1 donor | 555,316 states; seven properties, a refinement and a liveness property among them |
| `intake_form` | 2 countries (one requires an identity number and has a section, both ask for coordinates), a partner each, 2 children of one name, 1 registration by the form and 1 elsewhere | 1,701,966 states; `TypeOK`, `RecordFitsCountry`, `AdvisedBeforeSameName` |
| `profile_panels` | 2 users, `media` and one element with a switch, 2 phrases, 2 saves, 2 reads each; 1 media item of each category | 1,536,548 states; `TypeOK`, `OnlyWhatWasEdited`, `HiddenStaysHidden`, `CardTellsTruth` |
| `portal_donor` | every role, six books of a donor, pages of 3 payments, day 150 of years of 100 days | 206,721 states; seven properties, one of them liveness; deadlock checked |
| `portal_proposal` | the same | violation of `ProposalIsOffered` |

Why the bounds are enough.

- Ledger and sponsorships: every race here is between two transactions, and every
  collision between two rows, so two slots and two rows reach them. One donor and
  one orphan suffice for the index because the handlers never relate different
  pairs. Three extras let a duplicate, a crash and one staff request meet in one
  behaviour; five requests let a row be created, paused, resumed and cancelled
  while another is proposed.
- `session_tabs`: two keys are the burst of 401s; two accounts, sign-out and
  sign-in in the middle of a refresh or of a verification need three pairs (one per
  account and the successor); the one page load is a reload or the link in the
  mail. One tab: tabs share nothing but `disk`, and what two of them do to
  each other through the same token is a listed disagreement, not a property.
- `workflow_consoles`: two users with two buttons each are two overlapping
  decisions; two deliveries of the task are an overlap or a repetition; two
  records of one child are the collision.
- `intake_form`: two countries that differ in every requirement give every change
  there is (to, from and away from a demanding country). One registration of the
  form's own suffices because the form starts blank after it; one elsewhere, before
  or during the look-up, is the namesake or the duplicate.
- `profile_panels`: the second save is the one from an aged copy, the second read
  the one that arrives late; two users' requests for one item are the overlap of two
  decisions. Two phrases, or one switch beside the element that has none, tell "what
  was edited" from "the rest".
- `portal_donor`: the six books are chosen one for each rule that could differ
  between pages: two currencies, a payment on the edge of a year, waqf only, more
  than a page of every status, ties of dates, a closed sponsorship with news, a
  report on the edge of the window. One proposal at a time: who signs in while the
  answer of a wizard he has not seen is awaited has no rows (`Books`), for that
  answer does nothing to him but take him to the payments.

Each property of a passing run is known to be able to fail: for each there is a
small change of a definition, such as a bug in that code could be, kept next to
the definition with the comment "mutant", under which TLC finds a violation.
Symmetry is used in the two concurrent runs only, in which no liveness property is
checked.

Fairness, and why the code justifies it:

- ledger and sponsorships (serial runs and `sponsorship_paid_stuck`): weak on the
  steps of a request already being served, because a coroutine that waits for
  PostgreSQL or for a gateway call with a timeout is resumed; strong on delivering
  each unanswered report, because the gateway retries
  (`docs/architecture/notifications.md`) and a slot becomes free again and again;
  weak on `MarkOverdue`, which the beat schedule runs every night
  (`workers/celery_app.py`).
- `Browser`: weak on `Progress(t)`: the server finishes the handler it has started,
  and the browser reports an answer or a network error for every request.
- `Workflows`: weak on `TaskStep(i)`: Celery runs what is queued and a run goes on,
  unless its worker dies, which is a step of its own.
- `Portal`: weak on `Redirected`: a redirect is part of rendering.

Nothing makes people act: staff, donors, guardians and the gateway's customers have
no fairness.

## Where code and documents disagree

With a run: `ledger_double_reversal`, `sponsorship_paid_stuck`, `portal_proposal`
(`PROJECT.json`, "findings").

Met while modelling, without a run of their own; where a property would be
touched, it names the case and leaves it out.

- *Money.* A full refund through `POST /payments/{id}/refund` never leaves the
  sponsorship's books: the endpoint writes only the status (`payments.py:501`), and
  the report that follows finds `refunded` and counts as a duplicate, while the
  comment at `webhooks.py:295` says a fully refunded payment "reverses them". A
  late Authorized that read the row as open puts a completed payment back to
  processing (`webhooks.py:188` against the comment at 185). A Paid report after a
  Failed one of the same invoice (the donor's second attempt) is answered 200
  "duplicate": the row stays failed, the charge is never credited, the sponsorship
  stays pending (`webhooks.py:187-205`). A refund report that overtakes its charge
  closes the row the same way, and RefundFailed marks a completed payment failed
  (`webhooks.py:355`).
- *Sponsorships.* What the nightly worker marks `overdue` is exactly what
  `is_overdue=true` leaves out (`sponsorships.py:81` against the comment at 73). A
  stale pause or resumption undoes a concurrent cancellation (`sponsorships.py:274`
  against the docstring at 247). A sponsorship of a donor deleted meanwhile can
  come to life. A payment entered by hand, or completed by a status override, does
  not activate its sponsorship, and makes the Paid report of the same invoice a
  duplicate.
- *Sessions.* A refresh answered after sign-out, or after somebody else's sign-in,
  stores the first account's tokens (`api.ts:47`; `useLogout.ts` speaks of "a clean
  session"). Two tabs refresh the same token and the loser signs both out; a reload
  in the middle of a refresh loses the successor. Sign-out never tells the server.
  Verifying an e-mail address stores the new account's tokens and keeps the cache
  (`VerifyEmailConfirmPage.tsx:43`, `VerifyEmailPendingPage.tsx:37`): whoever used
  the tab meanwhile, or before the sign-up, is still on the screen.
- *Workflows.* Overlapping decisions contradict each other. `notifications.md:41`
  calls a retry a no-op; overlapping runs, and a run after a worker's death, mail
  again; early acknowledgement loses the task with its worker. The manager's tab
  "approved" asks for `partner_approved`, a status nothing sets. A partner's manager
  is offered approval and confirmation of transfers that the server grants to
  admins only.
- *Intake.* An admin can submit the partner of the previous country while the new
  list loads (against `NewOrphanForm.tsx:447`). Coordinates that the device delivers
  after the country changed are filed under the new one (against the comment at
  480-482). The dialog's backdrop cancels while a confirmed creation goes on; a page
  left while its request is under way is navigated away from when it succeeds.
- *Profile.* A save from a copy another user's save has aged un-hides what that user
  hid (no version on the PUT). A GET answered after a newer save puts the old
  registry into the cache. Switches flipped during a save are lost when it succeeds.
  "Show" on an archived or rejected item, and approve or reject on the tabs of
  decided items, are always answered 409. A PATCH sets any visibility at any status,
  a rejected item's included, from all staff, while the docstring at `media.py:690`
  says "Moderation (approve/reject) stays on" another endpoint. Hiding an item that
  was hidden when the request read it writes nothing, over one shown meanwhile. The
  staff's card says "visible" of photos
  without a category, which the sponsor's page leaves out.
- *Portal.* Names and codes missing from `GET /me/sponsorships` also keep unread
  messages off the cards. `LandingPage.tsx:27` treats `/guardian` as not built.
  Role `viewer` has no home. A failed `/auth/me` leaves a blank page. A list asked
  for before a proposal and answered after it counts as fresh for 30 s, and so does
  the list of before when the wizard's answer is lost; the donor who clicks again
  has two pending sponsorships. Of two payments due on one day the impact bar would
  name the child whose row came first. The year's
  summary of the payments page covers the page loaded, the dashboard 100 rows; pages
  of rows with equal dates can repeat or skip rows. The wizard handles a 409 the API
  never returns; checkout initiates payments without `sponsorship_id`.
- *Documents.* Verification has no status guard; "replace" keeps the old document;
  delete and verify are offered to all staff and granted to admins; the required
  documents of a country are never enforced.

## Proofs

Proofs are kept apart from the models, a module `XProofs` for a module `X`. They
hold for every value of the constants: any number of slots, rows, invoices, tabs,
accounts, users, countries, pages and so on, under the assumptions declared with
the constants. These say what sort of thing a constant is (`Amount` positive,
`Row` and `Task` finite sets of numbers, `NoneIsNoPayload`: the absent payload is
not one), and, for `Portal`, that each `Book` is a donor's finite set of rows with
the fields and statuses of the endpoints' schemas, each sponsorship with an id of
its own and, as the unique index has it, one live sponsorship of a child (`IsBook`).

In every module the property is not inductive by itself; what has to be added is
what a request, a page or an answer under way still knows of a table that has
moved on. Each of these invariants was checked by TLC before it was proved.

| Module | Inductive invariant | Theorems |
|---|---|---|
| `PaymentLedgerProofs` | `LedgerInv`, `IssueInv`, `SerialInv`, `LegacyInv` | `TypeCorrect`, `NoOverCredit`, `OneRowEach`; serial: `BooksCover`, `AcknowledgedSettled`, `ReceiptWithFlip` |
| `SponsorshipsProofs` | `LifeInv`, `NothingStale` | `TypeCorrect`, `OneSponsorshipPerPair`, `ProposalsPayFirst`, `PaidLeavesPending`; serial: `OneAtATimeKeepsPromise` (refinement of `Kafala`) |
| `BrowserProofs` | `ServerInv`, `BrowserInv` | `TypeCorrect`, `RotationAlwaysRevokes`, `OldPasswordCutOff`, `PageNeverRefusesItself`, `OneAccountShown` |
| `WorkflowsProofs` | `WorkflowsInv` | `TypeCorrect`, `NoContradiction`, `RegisteredOnce`, `ConsolesTellTheTruth`, `MailedOnce`, `SignaturesInOrder` (refinement of `Signatures`) |
| `IntakeProofs` | `IntakeInv` | `TypeCorrect`, `FiledWhereItBelongs`, `StaffAreAdvised` |
| `ProfileProofs` | `ProfileInv` | `TypeCorrect`, `HiddenForGood`, `CardsAgree`, `SavesOnlyEdits` (an action property) |
| `DonorViewsProofs` | none (functions of lists of any length) | `PagesAgree`, `ChipsHold`, `OneStory`, `OrderDecidesNothing` |
| `PortalProofs` | `PortalInv`, `RowsInv` | `TypeCorrect`, `RightAccount`, `FreshHasProposal`, `ThreeRedirects`, `SurfacesAlwaysAgree`, `ChildrenAlwaysAgree`, `OrderNeverShows` (an action property) |

The arguments:

- *No money that did not come* (`NoOverCredit`). What a slot is about to write
  depends on what it read long ago. `LedgerInv` adds that every snapshot held by a
  request lies within the budget of `Opening` plus `completions`, and that a
  request about to flip a row somebody else has completed since holds a snapshot
  that leaves room for that completion, being older than it. This is where the
  order of the webhook's two reads is used.
- *One row per invoice* (`OneRowEach`). `IssueInv` follows an invoice of
  `/initiate`: one request holds it and it has no row; its row is committed and it
  becomes payable; only then can a report, a replay or a refund name it, so a
  delivery about to insert is about some other invoice.
- *The serial theorems of the ledger* take `Slots = {s}` and `OverridesSettle` as
  hypotheses: ops neither reopen a payment nor complete one or mark it failed by
  hand (`update_payment_status` writes a status and no total, and a row it marks
  failed turns a Paid report into a duplicate, so with them the statements are
  false). `SerialInv` says that the one request's snapshot *is* the
  books, the row it found still has the status it saw, and a delivery about to
  insert finds no row; `books.count` covers the set of completed rows, whose
  cardinality a write changes by one at most; and a row is marked failed by nothing
  but a report that has been answered (`FailedReported`), which is what
  `AcknowledgedSettled` needs of a delivery that finds the row closed.
  `ReceiptWithFlip` also takes
  `ManualRefs = {}` (staff quote no invoice in a manual entry) and shows that an
  invoice minted elsewhere has one row as well.
- *A sponsorship's life.* A row written by a request is checked against the index
  (`OneRowWritten`); rows moved by the worker, which no check stops, stay live if
  they were (`PairsKept`). `LifeInv` adds what requests know: a change to a live
  status was accepted for a row that is paid for or was never a proposal, and a
  delivery that read a status other than pending works on a row that is not
  pending, because no handler makes a row pending again.
- *The promise* (`OneAtATimeKeepsPromise`, for `Slots = {s}`). `NothingStale`: what
  the request was accepted for still holds when it writes, since the worker and the
  calendar move rows only within a stage. Then every commit is a step of `Kafala`
  and everything else stutters.
- *Tokens* (`RotationAlwaysRevokes`, `OldPasswordCutOff`). `ServerInv`: a pair has an
  owner from its minting on, a revoked session stays revoked, and what a password
  change under way has read covers every live session of the account but those
  minted meanwhile.
- *The page never refuses itself.* `HeardInv`: a tab listens to one refresh, sent
  since its page was loaded. `UsedInv`: a page presents a pair once; it never holds
  one it has presented unless it awaits the answer, and never gets one back.
- *One account per tab.* `AccountInv` says of the calls under way what the property
  says of the cache; a verification that ends is either recorded in `mixed` or finds
  no data but the account's own. (`BrowserProofs` also holds the lemmas on the server's side,
  `ServerInv`.)
- *Signatures* (`SignaturesInOrder`, `NoContradiction`). `SignedInv`: a row has the
  first n signatures of its workflow, and no status, on record or still held by a
  handler, attests more of them. `DecidedInv`: where nothing was written over, the
  status tells which decision was made.
- *One announcement* (`MailedOnce`). A mail is the mail of a run; a report has one
  run that got that far, unless it is marked as repeated.
- *Intake.* A record is what a request carried, a request what the form held when
  submitted: form, payload and record satisfy the same statement in turn.
- *Profile.* A draft differs from its cached copy by exactly what was edited, and a
  copy nobody has written behind is that of the document (`BoardOf`), so a PUT of
  the whole changes only the part. Of an item `MediaInv` keeps what each request has
  read: a commit that shows is one that `Shows`, or one that `Overtaken` records.
- *Portal.* The cached profile, if any, is of the account (`GuardInv`), rows are
  there only for a donor (`CacheInv`), and once the wizard has been answered a list
  under way that nothing has overtaken has the proposal (`ListInv`). Of the tables of addresses it is used that
  each page is behind the guard of its owners.
- *Three redirects* (`ThreeRedirects`). Addresses have ranks, each the distance to a
  page: pages that render or stay blank (`Soon0`), addresses sent to one of those (`Soon1`), and
  so on to `Soon3`. Homes, hubs, pages of the portals and strangers' destinations
  are placed one after the other, by role and by what the profile says.
- *Lists of any length* (`DonorViewsProofs`). The library's induction theorems are
  out of the provers' reach, and every set of numbers having a least element
  (`Least`, from the well-foundedness of `<`) does their work. With it a strict total
  order puts each row in one place (`Places`), so a filter yields a list of the rows
  that pass, in their order, and a sort a list of the same rows in the order of
  their keys, the only one there is when the keys tell the rows apart. Two answers
  with the same rows are *shuffles* of each other, along a bijection of their
  places, and counts, sums per currency, latest dates and sorted lists do not
  depend on it.
- *The surfaces agree* (`SurfacesAlwaysAgree`, `OrderNeverShows`,
  `ChildrenAlwaysAgree`). `RowsInv`: every cached answer is a list of rows of its
  endpoint, none twice; `RowsFit` gives the ids and the one live sponsorship from
  the book. Each key of a comparator ends in an id or a currency, which tells its
  rows or buckets apart: that is why the order of arrival cannot show. That no child
  is named twice, and that the order of the news is decided by the child and the
  day, is where the index of the database is used.

What stays with TLC, and why:

- Liveness (`PaidIsSettled`, `PaidActivatesUnlessTwin`, `WaitersResume`,
  `PublishedIsAnnounced`, `Settles`): fairness is outside the reach of the prover.
  Of `Settles` the safety half is proved (`ThreeRedirects`); that a redirect is not
  put off for ever is the fairness.
- That `Where` and `SortedBy` are `SelectSeq` and `SortSeq`: the values of recursive
  definitions. These are assumptions of `MCPortal` that TLC evaluates, and no proof
  uses them.
- `RefundReversesOnce`, `PaidActivates` and `ProposalIsOffered` are false, and the
  serial properties are false with two requests at a time: see
  [PaymentLedger](#paymentledger) and [Sponsorships](#sponsorships-and-kafala).

No module declares a RECURSIVE operator.

## Plan

The modules are written, and of the properties of the passing runs all but the
five liveness properties are proved. What could be added:

1. The safety halves of the other liveness properties, as `FewRedirects` is that of
   `Settles`: what is always still able to happen (a delivery that would be
   answered, a task still queued), stated without ENABLED.
2. A refinement between `PaymentLedger` and `Sponsorships`, which overlap in the
   webhook: today each abstracts the other's half.
3. Lists of pages (`TurnPage`) over answers of different times, for which the server
   would first have to break its ties.

## Not modelled

- `api/schema.gen.ts`, a fifth of the front end's lines, is generated from the API.
  Most of the rest of the front end is markup, text and forms whose state is that
  of their own inputs and whose effect is one call: settings, users, business
  rules, statistics, the child's page, the records of staff, partners, families,
  orphanages, wishes, needs, skills. What these pages decide, they decide through
  the guards, the token, the cache and the handlers modelled here. This is why the
  share of lines that definitions stand for is small and will stay so: a model of a
  page of markup would have nothing to check.
- `donors.total_sponsorships`, a display counter (its lost update is the one of
  the totals); cancellation reason and time, notes and other plain fields.
- `case_status = 'sponsored'`, which statistics count and no handler sets.
- The lockout counter, two-factor enrolment and the tokens of mailed links:
  single-row handlers.
- `core/collections.py` and `core/reporting.py`: sequential date arithmetic of one
  row, within the reach of unit tests.
- Moderation of messages: one decision with no page that offers it.
- Statistics, audit listing, exports, the daily digest: they read.
- Row-level security and organisation scoping: who may call a handler is a guard
  on a fixed user, constant in these behaviours; roles are modelled where a page and
  a handler could disagree (`Workflows`, `Routing`).
- Cryptography, object storage, e-mail transport, rate limiting (a library),
  logging, the MCP server (a stateless client), migrations, seeds and deployment.
