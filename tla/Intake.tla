------------------------------- MODULE Intake -------------------------------
(***************************************************************************)
(* Registering an orphan: the form staff and guardians share               *)
(* (NewOrphanForm.tsx) and the server behind it (create_orphan_record).    *)
(*                                                                         *)
(* The country drives the form: which identity number is due, which        *)
(* sections show, whether coordinates are asked for, and which partners    *)
(* may be picked.  What was typed for one country must not be filed under  *)
(* another, although react-hook-form keeps the value of a field that is no *)
(* longer on the screen, requirements and partner lists arrive when they   *)
(* like, and the device takes its time to find out where it is.            *)
(*                                                                         *)
(* A value typed into a field is represented by the country it was typed   *)
(* for.                                                                    *)
(***************************************************************************)
EXTENDS Naturals, Sequences, FiniteSets

CONSTANTS
    Country,         \* countries of the selector
    Partner,         \* partner organisations (جهات)
    PartnerCountry,  \* the country of each
    OwnPartner,      \* that of a partner's staff, and of the guardian's family
    Child,           \* children as the duplicate index tells them apart
    NameOf,          \* first and family name of each
    IdRequired,      \* countries that require an identity number, of their own format
    Sections,        \* countries with a section of their own
    Located,         \* countries that ask for coordinates
    MaxOwn,          \* bound: registrations by this form
    MaxOthers,       \* bound: registrations elsewhere meanwhile
    None

Audiences == {"admin", "partner_staff", "guardian"}

ASSUME IntakeAssumption ==
    /\ PartnerCountry \in [Partner -> Country] /\ OwnPartner \in Partner
    /\ IdRequired \subseteq Country /\ Sections \subseteq Country /\ Located \subseteq Country
    /\ DOMAIN NameOf = Child
    /\ MaxOwn \in Nat /\ MaxOthers \in Nat
    /\ None \notin Country \cup Partner \cup Child

MaxRecords == MaxOwn + MaxOthers

VARIABLES
    audience,  \* who fills the form in
    form,      \* the values react-hook-form holds
    known,     \* the requirements of the selected country have arrived
    listed,    \* the partners of the selected country have arrived
    locating,  \* the country for which the device was asked where it is
    phase,     \* the form: being edited, looking names up, asking, sending
    payload,   \* what a submission under way carries
    request,   \* its POST
    records    \* the orphans registered, in their order

vars == <<audience, form, known, listed, locating, phase, payload, request, records>>

Staff == audience # "guardian"

\* The partner's staff find their own partner filled in and locked.
Blank(a) == [country |-> None, child |-> None, nid |-> None, extra |-> None, gps |-> None,
             late |-> FALSE,  \* the coordinates arrived after the country changed
             partner |-> IF a = "partner_staff" THEN OwnPartner ELSE None]

Form == [country : Country \cup {None}, child : Child \cup {None}, nid : Country \cup {None},
         extra : Country \cup {None}, gps : Country \cup {None}, late : BOOLEAN,
         partner : Partner \cup {None}]

Payload == [country : Country, child : Child, nid : Country \cup {None},
            extra : Country \cup {None}, gps : Country \cup {None}, late : BOOLEAN,
            partner : Partner \cup {None}, listed : BOOLEAN,
            advice : {"none", "clear", "failed", "confirmed"}, seen : 0..MaxRecords]

ASSUME NoneIsNoPayload == None \notin Payload

TypeOK ==
    /\ audience \in Audiences
    /\ form \in Form
    /\ known \in BOOLEAN /\ listed \in BOOLEAN
    /\ known => form.country # None
    /\ locating \in Country \cup {None}
    /\ phase \in {"editing", "looking", "asking", "sending"}
    /\ request \in {"none", "sent", "checked", "created", "refused"}
    /\ phase = "sending" => request # "none"
    /\ phase \in {"looking", "asking"} => request = "none" /\ Staff
    /\ payload \in Payload \cup {None}
    /\ (payload = None) <=> (phase = "editing" /\ request = "none")
    /\ Len(records) <= MaxRecords
    /\ \A i \in DOMAIN records : records[i].sent \in Payload \cup {None}
                                 /\ records[i].child \in Child

\* A page just opened: the list of all partners may be in the cache.
Opened(f, k, l) ==
    /\ f = Blank(audience) /\ k = FALSE
    /\ l \in IF audience = "admin" THEN BOOLEAN ELSE {FALSE}

Init ==
    /\ audience \in Audiences
    /\ Opened(form, known, listed)
    /\ locating = None
    /\ phase = "editing" /\ payload = None /\ request = "none"
    /\ records = <<>>

-----------------------------------------------------------------------------
(* The form.  Nothing disables its fields while a request is under way, of *)
(* which the payload is fixed by then.  Bound: the user waits for the      *)
(* answer; what arrives meanwhile does not.                                *)

CanEdit == phase = "editing" /\ request = "none"

\* mutant: only the identity number is taken back
ForgetsSections(c) == [form EXCEPT !.country = c, !.nid = None]

\* "a value entered for a previous country can never linger in form state"
ForCountry(c) == [form EXCEPT !.country = c, !.nid = None, !.extra = None,
                              !.gps = None, !.late = FALSE]

Options(c) == {p \in Partner : c = None \/ PartnerCountry[p] = c}

\* "drop a selected partner that is no longer in it"
Narrowed(f) == [f EXCEPT !.partner = IF @ \in Options(f.country) THEN @ ELSE None]

\* Requirements and partners of the country may be in the cache, from an
\* earlier form: then they are there at once.
ChooseCountry(c) ==
    /\ CanEdit /\ c # form.country
    /\ known' \in IF c = None THEN {FALSE} ELSE BOOLEAN
    /\ listed' \in IF audience = "admin" THEN BOOLEAN ELSE {FALSE}
    /\ form' = IF listed' THEN Narrowed(ForCountry(c)) ELSE ForCountry(c)
    /\ UNCHANGED <<audience, locating, phase, payload, request, records>>

Edit(f) ==
    /\ CanEdit
    /\ form' = f /\ f # form
    /\ UNCHANGED <<audience, known, listed, locating, phase, payload, request, records>>

TypeChild(c) == Edit([form EXCEPT !.child = c])

TypeNid == form.country # None /\ Edit([form EXCEPT !.nid = form.country])

\* The sections of a country show once its requirements are known.
Shows(countries) == known /\ form.country \in countries

TypeExtra == Shows(Sections) /\ Edit([form EXCEPT !.extra = form.country])

ShowsGps == Staff /\ Shows(Located)

TypeGps == ShowsGps /\ Edit([form EXCEPT !.gps = form.country, !.late = FALSE])

PickPartner(p) ==
    /\ audience = "admin" /\ listed /\ p \in Options(form.country)
    /\ Edit([form EXCEPT !.partner = p])

RequirementsArrive ==
    /\ form.country # None /\ ~known
    /\ known' = TRUE
    /\ UNCHANGED <<audience, form, listed, locating, phase, payload, request, records>>

PartnersArrive ==
    /\ audience = "admin" /\ ~listed
    /\ listed' = TRUE
    /\ form' = Narrowed(form)
    /\ UNCHANGED <<audience, known, locating, phase, payload, request, records>>

\* The list cannot be had: it counts as empty.
PartnersFail ==
    /\ audience = "admin" /\ ~listed /\ form.partner # None
    /\ form' = [form EXCEPT !.partner = None]
    /\ UNCHANGED <<audience, known, listed, locating, phase, payload, request, records>>

-----------------------------------------------------------------------------
(* requestLocation, and the device's answer within ten seconds, whatever   *)
(* the form shows by then.                                                 *)

RequestLocation ==
    /\ CanEdit /\ ShowsGps /\ locating = None
    /\ locating' = form.country
    /\ UNCHANGED <<audience, form, known, listed, phase, payload, request, records>>

LocationFound ==
    /\ locating # None
    /\ form' = [form EXCEPT !.gps = locating, !.late = locating # form.country]
    /\ locating' = None
    /\ UNCHANGED <<audience, known, listed, phase, payload, request, records>>

LocationFails ==
    /\ locating # None
    /\ locating' = None
    /\ UNCHANGED <<audience, form, known, listed, phase, payload, request, records>>

-----------------------------------------------------------------------------
(* Submission.                                                             *)

\* An identity number is optional, and of any format, unless the country says
\* otherwise.
IdFits(c, nid) == c \in IdRequired => nid = c

\* The schema the click validates against.  (A partner's staff without a
\* partner cannot submit at all.)
Valid ==
    /\ form.country # None /\ form.child # None
    /\ known => IdFits(form.country, form.nid)
    /\ Staff => form.partner # None

\* buildPayload: only what the sections of the country ask for.
Built == [country |-> form.country, child |-> form.child, nid |-> form.nid,
          extra   |-> IF Shows(Sections) THEN form.extra ELSE None,
          gps     |-> IF ShowsGps THEN form.gps ELSE None,
          late    |-> ShowsGps /\ form.late,
          partner |-> form.partner,
          listed  |-> listed,
          advice  |-> "none", seen |-> 0]

Registered(c) == \E i \in DOMAIN records : records[i].child = c

Own == {i \in DOMAIN records : records[i].sent # None}

\* Bound: one request at a time, and no more records than that.
HasRoom == request = "none" /\ (Cardinality(Own) < MaxOwn \/ Registered(form.child))

Submit ==
    /\ phase = "editing" /\ Valid /\ HasRoom
    /\ payload' = Built
    /\ IF Staff /\ form.nid = None
       THEN phase' = "looking" /\ UNCHANGED request
       ELSE phase' = "sending" /\ request' = "sent"
    /\ UNCHANGED <<audience, form, known, listed, locating, records>>

\* mutant: the search of the duplicate index, which knows date of birth and father
SameChild(c) == {i \in DOMAIN records : records[i].child = c}

\* find_name_matches
NameMatches(c) == {i \in DOMAIN records : NameOf[records[i].child] = NameOf[c]}

Send(advice) ==
    /\ payload' = [payload EXCEPT !.advice = advice, !.seen = Len(records)]
    /\ phase' = "sending" /\ request' = "sent"

\* The look-up is advisory: it asks, or lets through, or fails and lets through.
LookUp ==
    /\ phase = "looking"
    /\ \/ Send("failed")
       \/ NameMatches(payload.child) = {} /\ Send("clear")
       \/ NameMatches(payload.child) # {} /\ phase' = "asking" /\ UNCHANGED <<payload, request>>
    /\ UNCHANGED <<audience, form, known, listed, locating, records>>

Proceed ==
    /\ phase = "asking"
    /\ Send("confirmed")
    /\ UNCHANGED <<audience, form, known, listed, locating, records>>

Cancel ==
    /\ phase = "asking"
    /\ phase' = "editing" /\ payload' = None
    /\ UNCHANGED <<audience, form, known, listed, locating, request, records>>

\* The page is left; a request under way is not called back.
Leave ==
    /\ phase \in {"editing", "sending"} /\ form # Blank(audience)
    /\ Opened(form', known', listed') /\ locating' = None
    /\ phase' = "editing"
    /\ UNCHANGED <<audience, payload, request, records>>

-----------------------------------------------------------------------------
(* create_orphan_record.                                                   *)

\* The rule of the country, then the search for a duplicate.
Check ==
    /\ request = "sent"
    /\ request' = IF IdFits(payload.country, payload.nid) /\ ~Registered(payload.child)
                  THEN "checked" ELSE "refused"
    /\ UNCHANGED <<audience, form, known, listed, locating, phase, payload, records>>

\* The partner of a partner's staff and of a guardian is the server's to know.
PartnerOf(p) == IF audience = "admin" THEN p.partner ELSE OwnPartner

\* The insertion, or the 409 of the unique index.
Insert ==
    /\ request = "checked"
    /\ IF Registered(payload.child)
       THEN request' = "refused" /\ UNCHANGED records
       ELSE /\ request' = "created"
            /\ records' = Append(records, [child |-> payload.child,
                             sent |-> [payload EXCEPT !.partner = PartnerOf(payload)]])
    /\ UNCHANGED <<audience, form, known, listed, locating, phase, payload>>

\* Another desk registers a child.
Elsewhere(c) ==
    /\ ~Registered(c)
    /\ Cardinality(DOMAIN records \ Own) < MaxOthers
    /\ records' = Append(records, [child |-> c, sent |-> None])
    /\ UNCHANGED <<audience, form, known, listed, locating, phase, payload, request>>

\* onSuccess: the page of the new orphan opens.
Created ==
    /\ request = "created"
    /\ Opened(form', known', listed') /\ locating' = None
    /\ phase' = "editing" /\ payload' = None /\ request' = "none"
    /\ UNCHANGED <<audience, records>>

\* mutant: onError leaves the dialog open
DialogStays == "asking"

AfterError == "editing"

\* onError: refused, or no answer, whether the request was lost or the answer.
Failed ==
    /\ request \in {"sent", "created", "refused"}
    /\ phase' = AfterError
    /\ payload' = None /\ request' = "none"
    /\ UNCHANGED <<audience, form, known, listed, locating, records>>

Next ==
    \/ \E c \in Country \cup {None} : ChooseCountry(c)
    \/ \E c \in Child : TypeChild(c) \/ Elsewhere(c)
    \/ \E p \in Partner : PickPartner(p)
    \/ TypeNid \/ TypeExtra \/ TypeGps
    \/ RequirementsArrive \/ PartnersArrive \/ PartnersFail
    \/ RequestLocation \/ LocationFound \/ LocationFails
    \/ Submit \/ LookUp \/ Proceed \/ Cancel \/ Leave
    \/ Check \/ Insert \/ Created \/ Failed

Spec == Init /\ [][Next]_vars

-----------------------------------------------------------------------------
Sent == {records[i].sent : i \in Own}

(* Nothing is filed under a country it was not entered for: the identity   *)
(* number, the country's own section and the coordinates of a record are   *)
(* of the record's country, however often the country was changed and      *)
(* whenever its requirements arrived, and so is the partner an admin picks *)
(* (the server takes any partner of the organisation).  Two cases escape:  *)
(* the device's answer to a question of an earlier country, and a form     *)
(* submitted before the partners of its country were listed                *)
(* (NewOrphanForm, the effects on countryCode and on partnersQuery.data,   *)
(* and buildPayload).                                                      *)
RecordFitsCountry ==
    \A p \in Sent :
        /\ p.nid \in {None, p.country}
        /\ p.extra \in {None, p.country}
        /\ p.gps \in {None, p.country} \/ p.late
        /\ audience = "admin" /\ p.listed => PartnerCountry[p.partner] = p.country

(* Staff never register a child without an identity number next to one of  *)
(* the same name, there when the form was submitted, unless they were      *)
(* asked and went on, or the look-up failed (submit, proceedWithPending).  *)
AdvisedBeforeSameName ==
    Staff => \A i, j \in DOMAIN records :
        LET p == records[i].sent IN
        /\ i \in Own /\ j < i
        /\ p.nid = None
        /\ j <= p.seen /\ NameOf[records[j].child] = NameOf[p.child]
        => p.advice \in {"confirmed", "failed"}
=============================================================================
