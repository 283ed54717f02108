---------------------------- MODULE IntakeProofs ----------------------------
(***************************************************************************)
(* Proofs about Intake, for every set of countries, partners and children  *)
(* and any number of registrations.                                        *)
(*                                                                         *)
(* A record is what a request carried, a request is what the form held     *)
(* when it was submitted: so what is claimed of the records is claimed of  *)
(* the form and of the payload first.  The form fits its country in every  *)
(* state (FormInv), the payload was built from such a form and knows what  *)
(* the look-up has seen (SubmitInv), and records are only ever appended    *)
(* (RecordInv).                                                            *)
(***************************************************************************)
EXTENDS Intake, FiniteSetTheorems, TLAPS

Record == [child : Child, sent : Payload \cup {None}]

\* Whatever was typed, and the partner picked, is of the country shown.
FormFits ==
    /\ form.nid \in {None, form.country}
    /\ form.extra \in {None, form.country}
    /\ form.gps \in {None, form.country} \/ form.late
    /\ (audience = "admin" /\ listed)
         => (form.partner = None \/ form.country = None \/ PartnerCountry[form.partner] = form.country)

FormInv ==
    /\ audience \in Audiences /\ form \in Form
    /\ known \in BOOLEAN /\ listed \in BOOLEAN
    /\ known => form.country # None
    /\ locating \in Country \cup {None}
    /\ FormFits

\* What RecordFitsCountry says of one payload.
Fits(p) ==
    /\ p.nid \in {None, p.country}
    /\ p.extra \in {None, p.country}
    /\ p.gps \in {None, p.country} \/ p.late
    /\ (audience = "admin" /\ p.listed) => PartnerCountry[p.partner] = p.country

\* What the look-up found clear is clear among the records it has seen, and
\* staff without an identity number were not let through without one.
Advised(p) ==
    /\ p.seen <= Len(records)
    /\ p.advice = "clear" => \A j \in 1..p.seen : NameOf[records[j].child] # NameOf[p.child]
    /\ (Staff /\ p.nid = None) => p.advice # "none"

\* The registration under way has room, or will be refused.
Room(p) == Cardinality(Own) < MaxOwn \/ Registered(p.child)

SubmitInv ==
    /\ phase \in {"editing", "looking", "asking", "sending"}
    /\ request \in {"none", "sent", "checked", "created", "refused"}
    /\ phase = "sending" => request # "none"
    /\ phase \in {"looking", "asking"} => (request = "none" /\ Staff)
    /\ payload \in Payload \cup {None}
    /\ (payload = None) <=> (phase = "editing" /\ request = "none")
    /\ payload # None => Fits(payload)
    /\ request # "none" => Advised(payload)
    /\ (payload # None /\ request \in {"none", "sent", "checked"}) => Room(payload)

RecordInv ==
    /\ records \in Seq(Record)
    /\ Cardinality(Own) <= MaxOwn
    /\ Cardinality(DOMAIN records \ Own) <= MaxOthers
    /\ \A i \in Own : Fits(records[i].sent) /\ Advised(records[i].sent)

IntakeInv == FormInv /\ SubmitInv /\ RecordInv

-----------------------------------------------------------------------------
(* The form.                                                               *)

\* A page just opened shows a blank form.
LEMMA BlankFits ==
    ASSUME audience \in Audiences, audience' = audience, locating' = None,
           Opened(form', known', listed')
    PROVE  FormInv'
  <1>1. /\ form' = Blank(audience) /\ known' = FALSE /\ listed' \in BOOLEAN
        /\ audience # "admin" => listed' = FALSE
    BY DEF Opened
  <1>2. Blank(audience) \in Form
    BY IntakeAssumption DEF Blank, Form
  <1> QED
    BY <1>1, <1>2 DEF FormInv, FormFits, Blank

\* The effect on countryCode takes back what was typed for another country,
\* and the partners of the new one narrow the choice.
LEMMA CountryFits ==
    ASSUME FormInv, NEW c \in Country \cup {None}, ChooseCountry(c)
    PROVE  FormInv'
  <1> DEFINE f == ForCountry(c)
  <1>1. /\ f \in Form /\ f.country = c /\ f.nid = None /\ f.extra = None /\ f.gps = None
        /\ f.partner \in Partner \cup {None}
    BY DEF ForCountry, FormInv, Form
  <1>2. /\ Narrowed(f) \in Form /\ Narrowed(f).country = c /\ Narrowed(f).nid = None
        /\ Narrowed(f).extra = None /\ Narrowed(f).gps = None
        /\ Narrowed(f).partner = IF f.partner \in Options(c) THEN f.partner ELSE None
    BY <1>1 DEF Narrowed, Form
  <1>3. /\ audience' = audience /\ locating' = locating
        /\ known' \in BOOLEAN /\ (c = None => known' = FALSE) /\ listed' \in BOOLEAN
        /\ form' = IF listed' THEN Narrowed(f) ELSE f
    BY DEF ChooseCountry
  <1> HIDE DEF f
  <1> QED
    BY <1>1, <1>2, <1>3 DEF FormInv, FormFits, Options

\* What the user types keeps to the country shown.
LEMMA TypingFits ==
    ASSUME FormInv,
           \/ \E c \in Child : TypeChild(c)
           \/ \E p \in Partner : PickPartner(p)
           \/ TypeNid \/ TypeExtra \/ TypeGps
    PROVE  FormInv'
  <1>1. ASSUME NEW c \in Child, TypeChild(c) PROVE FormInv'
    BY <1>1 DEF TypeChild, Edit, FormInv, FormFits, Form
  <1>2. ASSUME NEW p \in Partner, PickPartner(p) PROVE FormInv'
    BY <1>2 DEF PickPartner, Options, Edit, FormInv, FormFits, Form
  <1>3. CASE TypeNid
    BY <1>3 DEF TypeNid, Edit, FormInv, FormFits, Form
  <1>4. CASE TypeExtra
    BY <1>4, IntakeAssumption DEF TypeExtra, Shows, Edit, FormInv, FormFits, Form
  <1>5. CASE TypeGps
    BY <1>5, IntakeAssumption DEF TypeGps, ShowsGps, Shows, Edit, FormInv, FormFits, Form
  <1> QED
    BY <1>1, <1>2, <1>3, <1>4, <1>5

\* So does what arrives under the user's hands, but for the device's answer to
\* an earlier country, which is marked.
LEMMA ArrivalFits ==
    ASSUME FormInv,
           \/ RequirementsArrive \/ PartnersArrive \/ PartnersFail
           \/ RequestLocation \/ LocationFound \/ LocationFails
    PROVE  FormInv'
  <1>1. CASE RequirementsArrive
    BY <1>1 DEF RequirementsArrive, FormInv, FormFits
  <1>2. CASE PartnersArrive
    BY <1>2 DEF PartnersArrive, Narrowed, Options, FormInv, FormFits, Form
  <1>3. CASE PartnersFail
    BY <1>3 DEF PartnersFail, FormInv, FormFits, Form
  <1>4. CASE RequestLocation
    BY <1>4, IntakeAssumption DEF RequestLocation, ShowsGps, Shows, FormInv, FormFits
  <1>5. CASE LocationFound
    BY <1>5 DEF LocationFound, FormInv, FormFits, Form
  <1>6. CASE LocationFails
    BY <1>6 DEF LocationFails, FormInv, FormFits
  <1> QED
    BY <1>1, <1>2, <1>3, <1>4, <1>5, <1>6

-----------------------------------------------------------------------------
(* The records.                                                            *)

\* What a registration leaves of the records there were.
LEMMA Appending ==
    ASSUME RecordInv, NEW r \in Record, records' = Append(records, r)
    PROVE  /\ records' \in Seq(Record) /\ Len(records) \in Nat
           /\ Len(records') = Len(records) + 1
           /\ DOMAIN records = 1..Len(records) /\ DOMAIN records' = 1..(Len(records) + 1)
           /\ \A i \in 1..Len(records) : records'[i] = records[i]
           /\ records'[Len(records) + 1] = r
  BY DEF RecordInv

\* The registration is this form's or another desk's.
LEMMA Counting ==
    ASSUME RecordInv, NEW r \in Record, records' = Append(records, r)
    PROVE  /\ r.sent # None => /\ Own' = Own \cup {Len(records) + 1}
                               /\ (DOMAIN records \ Own)' = DOMAIN records \ Own
           /\ r.sent = None => /\ Own' = Own
                               /\ (DOMAIN records \ Own)' =
                                    (DOMAIN records \ Own) \cup {Len(records) + 1}
  <1> DEFINE n == Len(records)
  <1>1. /\ n \in Nat /\ DOMAIN records = 1..n /\ DOMAIN records' = 1..(n + 1)
        /\ \A i \in 1..n : records'[i] = records[i]
        /\ records'[n + 1] = r
    BY Appending
  <1> HIDE DEF n
  <1>2. /\ Own = {i \in 1..n : records[i].sent # None}
        /\ Own' = {i \in 1..(n + 1) : records'[i].sent # None}
    BY <1>1 DEF Own
  <1>3. 1..(n + 1) = 1..n \cup {n + 1} /\ n + 1 \notin 1..n
    BY <1>1
  <1>4. \A i \in 1..n : i \in Own' <=> i \in Own
    BY <1>1, <1>2, <1>3
  <1>5. n + 1 \in Own' <=> r.sent # None
    BY <1>1, <1>2, <1>3
  <1>6. Own \subseteq 1..n /\ Own' \subseteq 1..(n + 1)
    BY <1>2
  <1>7. (DOMAIN records \ Own)' = 1..(n + 1) \ Own' /\ DOMAIN records \ Own = 1..n \ Own
    BY <1>1
  <1> DEFINE D == 1..n   D1 == 1..(n + 1)   x == n + 1
  <1>8. /\ D1 = D \cup {x} /\ x \notin D /\ Own \subseteq D /\ Own' \subseteq D1
        /\ \A i \in D : i \in Own' <=> i \in Own
        /\ x \in Own' <=> r.sent # None
        /\ (DOMAIN records \ Own)' = D1 \ Own' /\ DOMAIN records \ Own = D \ Own
    BY <1>3, <1>4, <1>5, <1>6, <1>7
  <1> HIDE DEF D, D1, x
  <1>9. CASE r.sent # None
    <2>1. Own' = Own \cup {x} /\ D1 \ Own' = D \ Own
      BY <1>8, <1>9
    <2> QED
      BY <1>8, <1>9, <2>1 DEF x, n
  <1>10. CASE r.sent = None
    <2>1. Own' = Own /\ D1 \ Own' = (D \ Own) \cup {x}
      BY <1>8, <1>10
    <2> QED
      BY <1>8, <1>10, <2>1 DEF x, n
  <1> QED
    BY <1>9, <1>10

\* There are finitely many records, and at most MaxRecords.
LEMMA Bounded ==
    ASSUME RecordInv
    PROVE  /\ IsFiniteSet(Own) /\ IsFiniteSet(DOMAIN records \ Own)
           /\ Cardinality(Own) \in Nat /\ Cardinality(DOMAIN records \ Own) \in Nat
           /\ Len(records) \in 0..MaxRecords
  <1>1. Len(records) \in Nat /\ DOMAIN records = 1..Len(records)
    BY DEF RecordInv
  <1>2. IsFiniteSet(DOMAIN records) /\ Cardinality(DOMAIN records) = Len(records)
    <2>1. Len(records) \in Int /\ 1 \in Int /\ (1 > Len(records) => Len(records) = 0)
      BY <1>1
    <2>2. IsFiniteSet(1..Len(records)) /\ Cardinality(1..Len(records)) =
            IF 1 > Len(records) THEN 0 ELSE Len(records) - 1 + 1
      BY <2>1, FS_Interval
    <2> QED
      BY <1>1, <2>1, <2>2
  <1>3. Own \subseteq DOMAIN records
    BY DEF Own
  <1>4. IsFiniteSet(Own) /\ IsFiniteSet(DOMAIN records \ Own)
    BY <1>2, <1>3, FS_Subset
  <1>5. Cardinality(Own) \in Nat /\ Cardinality(DOMAIN records \ Own) \in Nat
    BY <1>4, FS_CardinalityType
  <1>6. DOMAIN records \cap Own = Own
    BY <1>3
  <1>7. Cardinality(DOMAIN records \ Own) = Len(records) - Cardinality(Own)
    BY <1>2, <1>6, FS_Difference, ZenonT(30)
  <1> QED
    BY <1>1, <1>4, <1>5, <1>7, IntakeAssumption DEF RecordInv, MaxRecords

\* Who is registered stays registered, and what a look-up found clear among
\* the records it saw stays so.
LEMMA AdviceKept ==
    ASSUME RecordInv, NEW r \in Record, records' = Append(records, r), audience' = audience,
           NEW p \in Payload
    PROVE  /\ Registered(p.child) => Registered(p.child)'
           /\ Fits(p) => Fits(p)'
           /\ Advised(p) => Advised(p)'
  <1>1. Registered(p.child) => Registered(p.child)'
    BY Appending DEF Registered
  <1>2. Fits(p) => Fits(p)'
    BY DEF Fits
  <1>3. p.seen \in Nat
    BY IntakeAssumption DEF Payload, MaxRecords
  <1>4. Advised(p) => Advised(p)'
    BY <1>3, Appending DEF Advised, Staff
  <1> QED
    BY <1>1, <1>2, <1>4

\* So the records keep what is said of them when one more, of which it is
\* true, is added.
LEMMA RecordsExtend ==
    ASSUME RecordInv, NEW r \in Record, records' = Append(records, r), audience' = audience,
           r.sent # None => (Fits(r.sent) /\ Advised(r.sent) /\ Cardinality(Own) < MaxOwn),
           r.sent = None => Cardinality(DOMAIN records \ Own) < MaxOthers
    PROVE  RecordInv'
  <1>1. /\ Len(records) \in Nat /\ Len(records) + 1 \notin DOMAIN records
        /\ Own \subseteq DOMAIN records
    BY Appending DEF Own
  <1>2. /\ Cardinality(Own) \in Nat /\ Cardinality(Own) <= MaxOwn /\ MaxOwn \in Nat
        /\ Cardinality(DOMAIN records \ Own) \in Nat
        /\ Cardinality(DOMAIN records \ Own) <= MaxOthers /\ MaxOthers \in Nat
    BY Bounded, IntakeAssumption DEF RecordInv
  <1>3. /\ Cardinality(Own)' <= MaxOwn
        /\ Cardinality(DOMAIN records \ Own)' <= MaxOthers
    <2>1. CASE r.sent # None
      <3>1. Cardinality(Own \cup {Len(records) + 1}) = Cardinality(Own) + 1
        BY <1>1, Bounded, FS_AddElement
      <3>2. Own' = Own \cup {Len(records) + 1} /\ (DOMAIN records \ Own)' = DOMAIN records \ Own
        BY <2>1, Counting
      <3>3. Cardinality(Own') = Cardinality(Own) + 1
        BY <3>1, <3>2
      <3>4. Cardinality((DOMAIN records \ Own)') = Cardinality(DOMAIN records \ Own)
        BY <3>2
      <3> QED
        BY <1>2, <2>1, <3>3, <3>4
    <2>2. CASE r.sent = None
      <3>1. Cardinality((DOMAIN records \ Own) \cup {Len(records) + 1})
              = Cardinality(DOMAIN records \ Own) + 1
        BY <1>1, Bounded, FS_AddElement
      <3>2. Own' = Own /\ (DOMAIN records \ Own)' = (DOMAIN records \ Own) \cup {Len(records) + 1}
        BY <2>2, Counting
      <3>3. Cardinality(Own') = Cardinality(Own)
        BY <3>2
      <3>4. Cardinality((DOMAIN records \ Own)') = Cardinality(DOMAIN records \ Own) + 1
        BY <3>1, <3>2
      <3> QED
        BY <1>2, <2>2, <3>3, <3>4
    <2> QED
      BY <2>1, <2>2
  <1>4. ASSUME NEW i \in Own' PROVE (Fits(records[i].sent) /\ Advised(records[i].sent))'
    <2> DEFINE p == r.sent
    <2>1. CASE i = Len(records) + 1
      <3>1. PICK q \in Payload \cup {None} : q = r.sent
        BY DEF Record
      <3>2. records'[i] = r /\ q # None
        BY <1>4, <2>1, <3>1, Appending DEF Own
      <3>3. Fits(q)' /\ Advised(q)'
        BY <3>1, <3>2, AdviceKept
      <3> QED
        BY <3>1, <3>2, <3>3 DEF Fits, Advised, Staff
    <2>2. CASE i # Len(records) + 1
      <3>1. i \in Own /\ records'[i] = records[i]
        BY <1>4, <2>2, Appending DEF Own
      <3>2. i \in DOMAIN records /\ records[i].sent # None
        BY <3>1 DEF Own
      <3>4. records[i] \in Record
        BY <3>2 DEF RecordInv
      <3>5. PICK q \in Payload : q = records[i].sent
        BY <3>2, <3>4 DEF Record
      <3>3. Fits(q)' /\ Advised(q)'
        BY <3>1, <3>5, AdviceKept DEF RecordInv
      <3> QED
        BY <3>1, <3>5, <3>3 DEF Fits, Advised, Staff
    <2> QED
      BY <2>1, <2>2
  <1> QED
    BY <1>3, <1>4, Appending DEF RecordInv

-----------------------------------------------------------------------------
(* The submission.                                                         *)

\* What is built from a form that fits its country, and is valid, fits too.
LEMMA BuiltFits ==
    ASSUME FormInv, Valid
    PROVE  /\ Built \in Payload /\ Fits(Built) /\ Built # None
           /\ Built.nid = form.nid /\ Built.child = form.child
  <1>1. /\ form.country \in Country /\ form.child \in Child
        /\ form.nid \in Country \cup {None} /\ form.extra \in Country \cup {None}
        /\ form.gps \in Country \cup {None} /\ form.late \in BOOLEAN
        /\ form.partner \in Partner \cup {None}
        /\ listed \in BOOLEAN
    BY DEF FormInv, Form, Valid
  <1>2. 0 \in 0..MaxRecords
    BY IntakeAssumption DEF MaxRecords
  <1>3. Built \in Payload
    BY <1>1, <1>2 DEF Built, ShowsGps, Shows, Staff, Payload
  <1>4. audience = "admin" => form.partner # None
    BY DEF Valid, Staff
  <1>5. Fits(Built)
    BY <1>1, <1>4, IntakeAssumption DEF Fits, Built, FormInv, FormFits
  <1> QED
    BY <1>3, <1>5, NoneIsNoPayload DEF Built

\* Nothing about the submission, or the records, changes while the form is
\* edited and while it waits.
LEMMA SubmitKept ==
    ASSUME IntakeInv, UNCHANGED <<audience, phase, payload, request, records>>
    PROVE  SubmitInv' /\ RecordInv'
  <1>1. RecordInv'
    BY DEF IntakeInv, RecordInv, Own, Fits, Advised, Staff
  <1>2. SubmitInv'
    BY DEF IntakeInv, SubmitInv, Fits, Advised, Staff, Room, Own, Registered
  <1> QED
    BY <1>1, <1>2

\* The records do not change, whoever fills the form in.
LEMMA RecordsKept ==
    ASSUME RecordInv, UNCHANGED <<audience, records>>
    PROVE  /\ RecordInv'
           /\ \A p : /\ Fits(p)' <=> Fits(p)
                     /\ Advised(p)' <=> Advised(p)
                     /\ Room(p)' <=> Room(p)
  <1>1. RecordInv'
    BY DEF RecordInv, Own, Fits, Advised, Staff
  <1>2. ASSUME NEW p PROVE /\ Fits(p)' <=> Fits(p)
                           /\ Advised(p)' <=> Advised(p)
                           /\ Room(p)' <=> Room(p)
    BY DEF Fits, Advised, Staff, Room, Own, Registered
  <1> QED
    BY <1>1, <1>2

\* What goes out under a look-up's advice.
LEMMA SendAdvised ==
    ASSUME IntakeInv, NEW a \in {"clear", "failed", "confirmed"}, Send(a),
           UNCHANGED <<audience, records>>, payload # None, request = "none",
           a = "clear" => NameMatches(payload.child) = {}
    PROVE  SubmitInv'
  <1>1. payload \in Payload /\ Fits(payload) /\ Room(payload)
    BY DEF IntakeInv, SubmitInv
  <1>2. Len(records) \in 0..MaxRecords
    BY Bounded DEF IntakeInv
  <1> DEFINE p == [payload EXCEPT !.advice = a, !.seen = Len(records)]
  <1>3. PICK q \in Payload : /\ q = payload'
                             /\ q.country = payload.country /\ q.child = payload.child
                             /\ q.nid = payload.nid /\ q.extra = payload.extra
                             /\ q.gps = payload.gps /\ q.late = payload.late
                             /\ q.partner = payload.partner /\ q.listed = payload.listed
                             /\ q.advice = a /\ q.seen = Len(records)
    <2>1. p \in Payload
      BY <1>1, <1>2 DEF Payload
    <2>2. /\ p.country = payload.country /\ p.child = payload.child
          /\ p.nid = payload.nid /\ p.extra = payload.extra
          /\ p.gps = payload.gps /\ p.late = payload.late
          /\ p.partner = payload.partner /\ p.listed = payload.listed
          /\ p.advice = a /\ p.seen = Len(records)
      BY <1>1 DEF Payload
    <2>3. payload' = p
      BY DEF Send
    <2> HIDE DEF p
    <2> QED
      BY <2>1, <2>2, <2>3
  <1>4. Fits(q) /\ Room(q)
    BY <1>1, <1>3 DEF Fits, Room
  <1>5. Advised(q)
    <2>1. DOMAIN records = 1..Len(records) /\ Len(records) \in Nat
      BY DEF IntakeInv, RecordInv
    <2> QED
      BY <1>3, <2>1 DEF Advised, NameMatches
  <1>6. Fits(q)' /\ Room(q)' /\ Advised(q)'
    BY <1>4, <1>5, RecordsKept DEF IntakeInv
  <1>7. phase' = "sending" /\ request' = "sent" /\ payload' = q /\ q # None
    BY <1>3, NoneIsNoPayload DEF Send
  <1> QED
    BY <1>6, <1>7 DEF SubmitInv, Fits, Advised, Room, Own, Registered, Staff

\* The browser's half of a submission.
LEMMA FormSubmits ==
    ASSUME IntakeInv, Submit \/ LookUp \/ Proceed \/ Cancel
    PROVE  SubmitInv'
  <1>1. CASE Submit
    <2>1. /\ Built \in Payload /\ Fits(Built) /\ Built # None
          /\ Built.nid = form.nid /\ Built.child = form.child
      BY <1>1, BuiltFits DEF Submit, IntakeInv
    <2>2. Built.seen = 0 /\ Built.advice = "none"
      BY DEF Built
    <2>3. Len(records) \in Nat
      BY DEF IntakeInv, RecordInv
    <2>4. PICK q \in Payload : q = Built
      BY <2>1
    <2>5. (Staff /\ form.nid = None) \/ Advised(q)
      BY <2>1, <2>2, <2>3, <2>4 DEF Advised
    <2>6. Room(q) /\ request = "none"
      BY <1>1, <2>1, <2>4 DEF Submit, HasRoom, Room
    <2>7. /\ payload' = q /\ UNCHANGED <<audience, records>> /\ q # None
          /\ \/ Staff /\ form.nid = None /\ phase' = "looking" /\ request' = "none"
             \/ ~(Staff /\ form.nid = None) /\ phase' = "sending" /\ request' = "sent"
      BY <1>1, <2>1, <2>4, <2>6 DEF Submit
    <2>8. /\ Fits(q)' /\ Room(q)' /\ (Advised(q)' <=> Advised(q)) /\ (Staff' <=> Staff)
      BY <2>1, <2>4, <2>6, <2>7, RecordsKept DEF IntakeInv, Staff
    <2> QED
      BY <2>5, <2>7, <2>8 DEF SubmitInv, Fits, Advised, Room, Own, Registered
  <1>2. CASE LookUp
    <2>1. /\ phase = "looking" /\ request = "none" /\ payload # None
          /\ UNCHANGED <<audience, records>> /\ Staff
      BY <1>2 DEF LookUp, IntakeInv, SubmitInv
    <2>2. CASE Send("failed")
      BY <2>1, <2>2, SendAdvised
    <2>3. CASE NameMatches(payload.child) = {} /\ Send("clear")
      BY <2>1, <2>3, SendAdvised
    <2>4. CASE phase' = "asking" /\ UNCHANGED <<payload, request>>
      <3>1. /\ RecordInv /\ Fits(payload) /\ Room(payload) /\ payload \in Payload
        BY <2>1 DEF IntakeInv, SubmitInv
      <3>2. PICK q \in Payload : q = payload /\ q = payload'
        BY <2>4, <3>1
      <3>3. Fits(q)' /\ Room(q)' /\ Staff'
        BY <2>1, <3>1, <3>2, RecordsKept DEF Staff
      <3> QED
        BY <2>1, <2>4, <3>2, <3>3 DEF SubmitInv, Fits, Room, Own, Registered
    <2> QED
      BY <1>2, <2>2, <2>3, <2>4 DEF LookUp
  <1>3. CASE Proceed
    BY <1>3, SendAdvised DEF Proceed, IntakeInv, SubmitInv
  <1>4. CASE Cancel
    BY <1>4 DEF Cancel, IntakeInv, SubmitInv
  <1> QED
    BY <1>1, <1>2, <1>3, <1>4

\* What becomes of the request, short of an insertion.
LEMMA RequestMoves ==
    ASSUME IntakeInv, Leave \/ Check \/ Created \/ Failed
    PROVE  SubmitInv'
  <1>1. CASE Created \/ Failed
    BY <1>1 DEF Created, Failed, AfterError, SubmitInv
  <1>2. CASE Leave \/ Check
    <2>1. /\ UNCHANGED <<audience, payload, records>>
          /\ \/ Leave /\ phase \in {"editing", "sending"} /\ phase' = "editing" /\ request' = request
             \/ Check /\ phase' = phase /\ request = "sent" /\ request' \in {"checked", "refused"}
      BY <1>2 DEF Leave, Check
    <2>2. CASE payload = None
      BY <2>1, <2>2 DEF IntakeInv, SubmitInv
    <2>3. CASE payload # None
      <3>1. PICK q \in Payload : q = payload /\ q = payload'
        BY <2>1, <2>3 DEF IntakeInv, SubmitInv
      <3>2. /\ request # "none" /\ Fits(q) /\ Advised(q)
            /\ request \in {"sent", "checked"} => Room(q)
        BY <2>1, <2>3, <3>1 DEF IntakeInv, SubmitInv
      <3>3. /\ Fits(q)' /\ Advised(q)' /\ (Room(q)' <=> Room(q))
        BY <2>1, <3>2, RecordsKept DEF IntakeInv
      <3> QED
        BY <2>1, <2>3, <3>1, <3>2, <3>3 DEF IntakeInv, SubmitInv, Fits, Advised, Room, Own,
             Registered, Staff
    <2> QED
      BY <2>2, <2>3
  <1> QED
    BY <1>1, <1>2

\* The server files what the request carries, under the partner it chooses.
LEMMA Filing ==
    ASSUME IntakeInv, Insert
    PROVE  SubmitInv' /\ RecordInv'
  <1>1. /\ request = "checked" /\ payload \in Payload /\ payload # None
        /\ Fits(payload) /\ Advised(payload) /\ Room(payload)
        /\ UNCHANGED <<audience, phase, payload>> /\ RecordInv
    BY DEF Insert, IntakeInv, SubmitInv
  <1>2. PICK q \in Payload : q = payload /\ q = payload'
    BY <1>1
  <1>3. CASE Registered(q.child)
    <2>1. request' = "refused" /\ records' = records
      BY <1>2, <1>3 DEF Insert
    <2>2. RecordInv' /\ Fits(q)' /\ Advised(q)'
      BY <1>1, <1>2, <2>1, RecordsKept
    <2> QED
      BY <1>1, <1>2, <2>1, <2>2 DEF IntakeInv, SubmitInv, Fits, Advised, Staff
  <1>4. CASE ~Registered(q.child)
    <2> DEFINE p == [payload EXCEPT !.partner = PartnerOf(payload)]
               r == [child |-> payload.child, sent |-> p]
    <2>1. request' = "created" /\ records' = Append(records, r)
      BY <1>2, <1>4 DEF Insert
    <2>2. PartnerOf(payload) \in Partner \cup {None}
          /\ (audience = "admin" => PartnerOf(payload) = payload.partner)
      BY <1>1, IntakeAssumption DEF PartnerOf, Payload
    <2>3. /\ p \in Payload /\ p # None
          /\ p.country = payload.country /\ p.child = payload.child
          /\ p.nid = payload.nid /\ p.extra = payload.extra
          /\ p.gps = payload.gps /\ p.late = payload.late
          /\ p.listed = payload.listed /\ p.advice = payload.advice /\ p.seen = payload.seen
          /\ p.partner = PartnerOf(payload)
      BY <1>1, <2>2, NoneIsNoPayload DEF Payload
    <2> HIDE DEF p
    <2>4. Fits(p) /\ Advised(p)
      BY <1>1, <2>2, <2>3 DEF Fits, Advised
    <2>9. payload.child \in Child
      BY <1>1 DEF Payload
    <2>5. r \in Record /\ r.sent = p
      BY <2>3, <2>9 DEF Record
    <2> HIDE DEF r
    <2>6. Cardinality(Own) < MaxOwn
      BY <1>1, <1>2, <1>4 DEF Room
    <2>7. RecordInv'
      BY <1>1, <2>1, <2>3, <2>4, <2>5, <2>6, RecordsExtend
    <2>8. Fits(q)' /\ Advised(q)'
      BY <1>1, <1>2, <2>1, <2>5, AdviceKept
    <2> QED
      BY <1>1, <1>2, <2>1, <2>7, <2>8 DEF IntakeInv, SubmitInv, Fits, Advised, Staff
  <1> QED
    BY <1>3, <1>4

\* Another desk's registration takes nothing away.
LEMMA FilingElsewhere ==
    ASSUME IntakeInv, NEW c \in Child, Elsewhere(c)
    PROVE  SubmitInv' /\ RecordInv'
  <1> DEFINE r == [child |-> c, sent |-> None]
  <1>1. /\ r \in Record /\ r.sent = None /\ records' = Append(records, r) /\ RecordInv
        /\ UNCHANGED <<audience, phase, payload, request>>
        /\ Cardinality(DOMAIN records \ Own) < MaxOthers
    BY DEF Elsewhere, Record, IntakeInv
  <1> HIDE DEF r
  <1>2. RecordInv'
    BY <1>1, RecordsExtend
  <1>3. CASE payload = None
    <2>1. phase = "editing" /\ request = "none"
      BY <1>3 DEF IntakeInv, SubmitInv
    <2>2. phase' = "editing" /\ request' = "none" /\ payload' = None
      BY <1>1, <1>3, <2>1
    <2> QED
      BY <1>2, <2>2 DEF SubmitInv
  <1>4. CASE payload # None
    <2>1. PICK q \in Payload : q = payload /\ q = payload'
      BY <1>1, <1>4 DEF IntakeInv, SubmitInv
    <2>2. /\ Fits(q) /\ (request # "none" => Advised(q))
          /\ request \in {"none", "sent", "checked"} => Room(q)
      BY <1>4, <2>1 DEF IntakeInv, SubmitInv
    <2>3. /\ Fits(q)' /\ (request # "none" => Advised(q)')
          /\ Registered(q.child) => Registered(q.child)'
      BY <1>1, <2>2, AdviceKept
    <2>4. Own' = Own
      BY <1>1, Counting
    <2>5. Room(q) => Room(q)'
      BY <2>3, <2>4 DEF Room
    <2> QED
      <3>1. Fits(payload)' /\ (request # "none" => Advised(payload)')
        BY <2>1, <2>3 DEF Fits, Advised, Staff
      <3>2. Room(q)' => Room(payload)'
        BY <2>1 DEF Room, Own, Registered
      <3>3. request \in {"none", "sent", "checked"} => Room(payload)'
        BY <2>2, <2>5, <3>2
      <3>4. Staff' <=> Staff
        BY <1>1 DEF Staff
      <3> QED
        BY <1>1, <1>2, <2>1, <3>1, <3>3, <3>4 DEF IntakeInv, SubmitInv
  <1> QED
    BY <1>2, <1>3, <1>4

-----------------------------------------------------------------------------
\* A form just opened, no request, no record.
LEMMA Start ==
    ASSUME Init
    PROVE  IntakeInv
  <1>1. FormInv
    <2>1. Blank(audience) \in Form
      BY IntakeAssumption DEF Blank, Form
    <2> QED
      BY <2>1 DEF Init, Opened, FormInv, FormFits, Blank
  <1>2. SubmitInv
    BY DEF Init, SubmitInv
  <1>3. RecordInv
    <2>1. Own = {} /\ DOMAIN records \ Own = {} /\ records \in Seq(Record)
      BY DEF Init, Own
    <2> QED
      BY <2>1, FS_EmptySet, IntakeAssumption DEF RecordInv
  <1> QED
    BY <1>1, <1>2, <1>3 DEF IntakeInv

\* Every step keeps the invariant.
LEMMA Step ==
    ASSUME IntakeInv, [Next]_vars
    PROVE  IntakeInv'
  <1> USE DEF IntakeInv
  <1>1. ASSUME NEW c \in Country \cup {None}, ChooseCountry(c) PROVE IntakeInv'
    BY <1>1, CountryFits, SubmitKept DEF ChooseCountry
  <1>2. CASE (\E c \in Child : TypeChild(c)) \/ (\E p \in Partner : PickPartner(p))
              \/ TypeNid \/ TypeExtra \/ TypeGps
    BY <1>2, TypingFits, SubmitKept
       DEF TypeChild, PickPartner, TypeNid, TypeExtra, TypeGps, Edit
  <1>3. CASE \/ RequirementsArrive \/ PartnersArrive \/ PartnersFail
             \/ RequestLocation \/ LocationFound \/ LocationFails
    BY <1>3, ArrivalFits, SubmitKept
       DEF RequirementsArrive, PartnersArrive, PartnersFail, RequestLocation, LocationFound,
           LocationFails
  <1>4. ASSUME UNCHANGED <<audience, form, known, listed, locating>> PROVE FormInv'
    BY <1>4 DEF FormInv, FormFits
  <1>5. CASE Submit \/ LookUp \/ Proceed \/ Cancel
    BY <1>4, <1>5, FormSubmits, RecordsKept DEF Submit, LookUp, Proceed, Cancel
  <1>6. CASE Leave \/ Created
    <2>1. FormInv'
      BY <1>6, BlankFits DEF Leave, Created, FormInv
    <2> QED
      BY <1>6, <2>1, RequestMoves, RecordsKept DEF Leave, Created
  <1>7. CASE Check \/ Failed
    BY <1>4, <1>7, RequestMoves, RecordsKept DEF Check, Failed
  <1>8. CASE Insert
    BY <1>4, <1>8, Filing DEF Insert
  <1>9. ASSUME NEW c \in Child, Elsewhere(c) PROVE IntakeInv'
    BY <1>4, <1>9, FilingElsewhere DEF Elsewhere
  <1>10. CASE UNCHANGED vars
    BY <1>4, <1>10, SubmitKept DEF vars
  <1> QED
    BY <1>1, <1>2, <1>3, <1>5, <1>6, <1>7, <1>8, <1>9, <1>10 DEF Next

\* The invariant holds of every reachable state.
THEOREM Inductive == Spec => []IntakeInv
  BY Start, Step, PTL DEF Spec

\* Every variable keeps its type, and a payload exists exactly while a
\* registration is under way.
THEOREM TypeCorrect == Spec => []TypeOK
  <1>1. ASSUME IntakeInv PROVE TypeOK
    <2>1. FormInv /\ SubmitInv /\ RecordInv
      BY <1>1 DEF IntakeInv
    <2>2. Len(records) <= MaxRecords
      BY <2>1, Bounded, IntakeAssumption DEF MaxRecords
    <2>3. \A i \in DOMAIN records : records[i] \in Record
      BY <2>1 DEF RecordInv
    <2> QED
      BY <2>1, <2>2, <2>3 DEF TypeOK, FormInv, SubmitInv, Record
  <1> QED
    BY Inductive, <1>1, PTL

\* No record holds an identity number, a section, coordinates or a picked
\* partner of another country than its own, but for the two cases named in
\* RecordFitsCountry: for any number of countries and of changes of mind.
THEOREM FiledWhereItBelongs == Spec => []RecordFitsCountry
  <1>1. ASSUME IntakeInv PROVE RecordFitsCountry
    BY <1>1 DEF IntakeInv, RecordInv, RecordFitsCountry, Sent, Fits
  <1> QED
    BY Inductive, <1>1, PTL

\* Staff are asked before a namesake is filed without an identity number,
\* whatever is registered elsewhere between the look-up and the insertion.
THEOREM StaffAreAdvised == Spec => []AdvisedBeforeSameName
  <1>1. ASSUME IntakeInv PROVE AdvisedBeforeSameName
    <2> SUFFICES ASSUME Staff, NEW i \in DOMAIN records, NEW j \in DOMAIN records,
                        i \in Own, j < i, records[i].sent.nid = None,
                        j <= records[i].sent.seen,
                        NameOf[records[j].child] = NameOf[records[i].sent.child]
                 PROVE  records[i].sent.advice \in {"confirmed", "failed"}
      BY DEF AdvisedBeforeSameName
    <2>1. RecordInv
      BY <1>1 DEF IntakeInv
    <2>2. records[i] \in Record /\ records[i].sent # None
      BY <2>1 DEF RecordInv, Own
    <2>3. PICK p \in Payload : p = records[i].sent
      BY <2>2 DEF Record
    <2>4. Advised(p) /\ j \in 1..p.seen
      <3>1. p.seen \in Nat
        BY IntakeAssumption DEF Payload, MaxRecords
      <3>2. j \in Nat /\ j >= 1
        BY <2>1 DEF RecordInv
      <3> QED
        BY <2>1, <2>3, <3>1, <3>2 DEF RecordInv
    <2> QED
      BY <2>3, <2>4 DEF Advised, Payload
  <1> QED
    BY Inductive, <1>1, PTL
=============================================================================
