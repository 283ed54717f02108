------------------------------- MODULE Kafala -------------------------------
(***************************************************************************)
(* What a sponsorship (kafala) promises, whatever handlers and workers do: *)
(* a donor sponsors an orphan at most once at a time, a sponsorship the    *)
(* donor proposed goes live with the money, a closed one stays closed and  *)
(* as it is ("immutable so the historical record stays clean",             *)
(* sponsorships.py), and a donor does not leave while one is live          *)
(* ("Refuses if any sponsorship is still active", donors.py).  Paused,     *)
(* active and overdue are all "live" here.                                 *)
(***************************************************************************)
CONSTANTS Rows, Donors, Orphans, Amounts

VARIABLES
    kafalat,   \* the sponsorships that exist: donor, orphan, stage and amount of each
    funded,    \* those a charge has been settled for
    left       \* donors who have left

Live(r) == kafalat[r].stage = "live"

Free(r, d, o) == \A x \in DOMAIN kafalat \ {r} :
    Live(x) => kafalat[x].donor # d \/ kafalat[x].orphan # o

Init == kafalat = << >> /\ funded = {} /\ left = {}

Add(r, d, o, stage, a) ==
    /\ r \in Rows \ DOMAIN kafalat
    /\ stage = "live" => Free(r, d, o)
    /\ kafalat' = [x \in DOMAIN kafalat \cup {r} |->
          IF x = r THEN [donor |-> d, orphan |-> o, stage |-> stage, amount |-> a]
                   ELSE kafalat[x]]
    /\ UNCHANGED <<funded, left>>

\* The money arrives; it brings a proposal to life.
Fund(r) ==
    /\ r \in DOMAIN kafalat
    /\ funded' = funded \cup {r}
    /\ \/ /\ kafalat[r].stage = "proposed"
          /\ Free(r, kafalat[r].donor, kafalat[r].orphan)
          /\ kafalat' = [kafalat EXCEPT ![r].stage = "live"]
       \/ kafalat[r].stage # "proposed" /\ UNCHANGED kafalat
    /\ UNCHANGED left

Amend(r, a) ==
    /\ r \in DOMAIN kafalat
    /\ kafalat[r].stage # "closed"
    /\ kafalat' = [kafalat EXCEPT ![r].amount = a]
    /\ UNCHANGED <<funded, left>>

Close(r) ==
    /\ r \in DOMAIN kafalat
    /\ kafalat[r].stage # "closed"
    /\ kafalat' = [kafalat EXCEPT ![r].stage = "closed"]
    /\ UNCHANGED <<funded, left>>

Leave(d) ==
    /\ \A r \in DOMAIN kafalat : kafalat[r].donor = d => ~Live(r)
    /\ left' = left \cup {d}
    /\ UNCHANGED <<kafalat, funded>>

Return(d) == left' = left \ {d} /\ UNCHANGED <<kafalat, funded>>

Next ==
    \/ \E r \in Rows :
         \/ \E d \in Donors, o \in Orphans, stage \in {"proposed", "live"}, a \in Amounts :
              Add(r, d, o, stage, a)
         \/ Fund(r) \/ Close(r)
         \/ \E a \in Amounts : Amend(r, a)
    \/ \E d \in Donors : Leave(d) \/ Return(d)

KafalaSpec == Init /\ [][Next]_<<kafalat, funded, left>>
=============================================================================
