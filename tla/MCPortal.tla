------------------------------- MODULE MCPortal -------------------------------
(* Donors for TLC: day 150 of years of 100 days.                           *)
EXTENDS Portal

Payment(id, status, currency, amount, initiated, completed, waqf) ==
    [id |-> id, status |-> status, currency |-> currency, amount |-> amount,
     initiated |-> initiated, completed |-> completed,
     failed |-> IF status = "failed" THEN initiated + 1 ELSE 0, waqf |-> waqf]
Row(id, status, currency, start, next) ==
    [id |-> id, status |-> status, orphan |-> id, code |-> id, name |-> id, currency |-> currency,
     monthly |-> 5, paid |-> 20, created |-> start, start |-> start, next |-> next]
Message(id, code, created) ==
    [id |-> id, code |-> code, created |-> created, mine |-> FALSE, read |-> FALSE]
Report(id, orphan, published) == [id |-> id, orphan |-> orphan, published |-> published]

Donor(payments, rows, reps, msgs) ==
    [payments |-> payments, sponsorships |-> rows, reports |-> reps, messages |-> msgs]

MCBook ==
    { \* one payment in each of two currencies, one of them started last year
      Donor({Payment(1, "completed", 1, 5, 120, 121, FALSE), Payment(2, "completed", 2, 5, 95, 121, FALSE)},
            {}, {}, {}),
      \* two small payments, one large in another currency, all of them waqf
      Donor({Payment(1, "completed", 1, 2, 120, 121, TRUE), Payment(2, "completed", 1, 2, 130, 0, TRUE),
             Payment(3, "completed", 2, 9, 140, 141, TRUE)}, {}, {}, {}),
      \* more payments than a page holds, of every kind
      Donor({Payment(1, "processing", 1, 2, 140, 0, FALSE), Payment(2, "failed", 1, 2, 140, 0, FALSE),
             Payment(3, "chargeback", 2, 9, 95, 99, FALSE), Payment(4, "completed", 1, 2, 95, 98, FALSE)}, {}, {}, {}),
      \* two children due on one day, in two currencies
      Donor({}, {Row(1, "active", 1, 50, 160), Row(2, "active", 2, 50, 160)}, {}, {}),
      \* overdue, paused and active children, a message and reports of one day
      Donor({}, {Row(1, "overdue", 1, 50, 130), Row(2, "paused", 1, 50, 155), Row(3, "active", 1, 60, 170)},
            {Report(1, 2, 140), Report(2, 3, 140)}, {Message(1, 1, 145)}),
      \* a closed sponsorship with a report, a payment due today, a report on the edge of the window
      Donor({}, {Row(1, "cancelled", 1, 30, 0), Row(2, "active", 1, 60, 150), Row(3, "active", 2, 60, 0)},
            {Report(1, 1, 140), Report(2, 2, 120)}, {}) }

-----------------------------------------------------------------------------
(* filter and sort of DonorViews, against the operators of the libraries,  *)
(* on every sequence of up to four elements.                               *)

Short(S) == UNION {[1..n -> S] : n \in 0..4}

\* What passes the test, in the order it came.
ASSUME FilterIsSelectSeq ==
    \A s \in Short(0..2) : Where(s, LAMBDA x : x > 0) = SelectSeq(s, LAMBDA x : x > 0)

\* In the order of the keys, and of equal keys the first stays first.
ASSUME SortIsStable ==
    \A s \in Short((0..2) \X (0..1)) :
        LET Before(i, j) == s[i][1] < s[j][1] \/ (s[i][1] = s[j][1] /\ i < j)
            order == SortSeq([i \in DOMAIN s |-> i], Before)
        IN SortedBy(s, LAMBDA x : <<x[1]>>) = [i \in DOMAIN s |-> s[order[i]]]
=============================================================================
