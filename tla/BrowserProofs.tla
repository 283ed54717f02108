--------------------------- MODULE BrowserProofs ---------------------------
(***************************************************************************)
(* TLAPS proofs about Browser, for any number of tabs, query keys,         *)
(* accounts, pairs, page loads and password changes.                       *)
(***************************************************************************)
EXTENDS Browser, TLAPS

-----------------------------------------------------------------------------
(* The server: what the handlers of module Sessions keep true of           *)
(* user_sessions, one lemma per handler, for any number of accounts, pairs *)
(* and password changes.                                                   *)

\* A pair is minted with an account, and only by a handler that rotates or
\* signs in.
MintedInv ==
    \A p \in Pair :
        /\ session[p] = "unused" => owner[p] = NoUser /\ parent[p] = NoPair
        /\ session[p] # "unused" => owner[p] \in User

\* A password change under way has read sessions that exist, and will be one
\* more within the bound.
ChangeInv ==
    \A u \in User : changing[u] # NotChanging =>
        /\ password[u] < MaxChanges
        /\ \A p \in changing[u] : session[p] # "unused"

\* Why OldPasswordIsCutOff is kept: a password change under way has read every
\* live session of the account that was not minted since.
CutOffInv ==
    \A p \in Pair : session[p] = "live" /\ p \notin overlapped =>
        /\ bornAt[p] = password[owner[p]]
        /\ changing[owner[p]] # NotChanging => p \in changing[owner[p]]

ServerInv ==
    ServerTypeOK /\ MintedInv /\ ChangeInv /\ CutOffInv /\ RotationRevokes

\* What no step of the server undoes: a pair once minted stays minted and keeps
\* its account.
MintedStays ==
    \A p \in Pair : session[p] # "unused" => session'[p] # "unused" /\ owner'[p] = owner[p]

\* No pair is a password change's mark of having read nothing.
LEMMA NotChangingIsNoSet == NotChanging \notin SUBSET Pair /\ NoPair \notin Pair
  BY SessionsAssumption DEF NotChanging, NoPair, Pair

\* The empty table.
LEMMA ServerStart == ServerInit => ServerInv
  <1> SUFFICES ASSUME ServerInit
               PROVE  ServerInv
    OBVIOUS
  <1>1. ServerTypeOK
    BY SessionsAssumption DEF ServerInit, ServerTypeOK, SessionState
  <1>2. MintedInv /\ ChangeInv /\ CutOffInv /\ RotationRevokes
    BY DEF ServerInit, MintedInv, ChangeInv, CutOffInv, RotationRevokes
  <1> QED
    BY <1>1, <1>2 DEF ServerInv

\* A sign-in with the password w it has verified, as committed (login,
\* verify_email).
LEMMA SignInKeeps ==
    ASSUME ServerInv, NEW u \in User, NEW w \in 0..MaxChanges, NEW p \in Pair,
           SignIn(u, w, p)
    PROVE  ServerInv' /\ MintedStays /\ session[p] = "unused"
           /\ session'[p] # "unused" /\ owner'[p] = u
  <1> USE DEF ServerInv
  <1>1. session[p] = "unused"
    BY DEF SignIn, IsNext
  <1>2. /\ session' = [session EXCEPT ![p] = "live"]
        /\ owner' = [owner EXCEPT ![p] = u]
        /\ bornAt' = [bornAt EXCEPT ![p] = w]
        /\ overlapped' = IF Overlaps(u, w) THEN overlapped \cup {p} ELSE overlapped
        /\ UNCHANGED <<parent, stale, password, changing>>
    BY DEF SignIn
  <1>3. ServerTypeOK'
    BY <1>2 DEF ServerTypeOK, SessionState
  <1>4. MintedStays /\ session'[p] # "unused" /\ owner'[p] = u
    BY <1>1, <1>2 DEF MintedStays, ServerTypeOK
  <1>5. MintedInv'
    BY <1>1, <1>2, <1>4 DEF MintedInv, ServerTypeOK
  <1>6. ChangeInv'
    BY <1>2, <1>4, NotChangingIsNoSet DEF ChangeInv, MintedStays, ServerTypeOK
  <1>7. CutOffInv'
    BY <1>1, <1>2 DEF CutOffInv, ServerTypeOK, Overlaps
  <1>8. RotationRevokes'
    BY <1>1, <1>2 DEF RotationRevokes, MintedInv, ServerTypeOK, NoPair
  <1> QED
    BY <1>1, <1>3, <1>4, <1>5, <1>6, <1>7, <1>8

\* The rotation of q into p, as committed (refresh).
LEMMA RotateToKeeps ==
    ASSUME ServerInv, NEW q \in Pair, NEW w \in 0..MaxChanges, NEW p \in Pair,
           session[q] # "unused", RotateTo(q, w, p)
    PROVE  ServerInv' /\ MintedStays /\ session[p] = "unused"
           /\ session'[p] # "unused" /\ owner'[p] = owner[q]
  <1> USE DEF ServerInv
  <1> DEFINE u == owner[q]
  <1>1. session[p] = "unused" /\ p # q /\ u \in User
    BY DEF RotateTo, IsNext, MintedInv
  <1>2. /\ session' = [session EXCEPT ![q] = "revoked", ![p] = "live"]
        /\ owner' = [owner EXCEPT ![p] = u]
        /\ parent' = [parent EXCEPT ![p] = q]
        /\ bornAt' = [bornAt EXCEPT ![p] = w]
        /\ overlapped' = IF Overlaps(u, w) THEN overlapped \cup {p} ELSE overlapped
        /\ UNCHANGED <<stale, password, changing>>
    BY DEF RotateTo, Rotated
  <1>3. ServerTypeOK'
    BY <1>1, <1>2 DEF ServerTypeOK, SessionState
  <1>4. MintedStays /\ session'[p] # "unused" /\ owner'[p] = u
    BY <1>1, <1>2 DEF MintedStays, ServerTypeOK
  <1>5. MintedInv'
    BY <1>1, <1>2, <1>4 DEF MintedInv, ServerTypeOK
  <1>6. ChangeInv'
    BY <1>2, <1>4, NotChangingIsNoSet DEF ChangeInv, MintedStays, ServerTypeOK
  <1>7. CutOffInv'
    BY <1>1, <1>2 DEF CutOffInv, ServerTypeOK, Overlaps
  <1>8. RotationRevokes'
    BY <1>1, <1>2 DEF RotationRevokes, MintedInv, ServerTypeOK, NoPair
  <1> QED
    BY <1>1, <1>3, <1>4, <1>5, <1>6, <1>7, <1>8

\* A look-up that finds q expired or revoked (refresh).
LEMMA RefuseKeeps ==
    ASSUME ServerInv, NEW q \in Pair, Refuse(q)
    PROVE  ServerInv' /\ MintedStays
  <1> USE DEF ServerInv
  <1>1. /\ session' = [session EXCEPT ![q] = IF @ = "live" THEN "expired" ELSE @]
        /\ UNCHANGED <<owner, parent, stale, bornAt, overlapped, password, changing>>
    BY DEF Refuse
  <1>2. ServerTypeOK' /\ MintedStays
    BY <1>1 DEF ServerTypeOK, SessionState, MintedStays
  <1>3. MintedInv' /\ RotationRevokes'
    BY <1>1 DEF MintedInv, RotationRevokes, ServerTypeOK, NoPair
  <1>4. ChangeInv'
    BY <1>1, <1>2, NotChangingIsNoSet DEF ChangeInv, MintedStays, ServerTypeOK
  <1>5. CutOffInv'
    BY <1>1 DEF CutOffInv, ServerTypeOK
  <1> QED
    BY <1>2, <1>3, <1>4, <1>5

\* The first half of a password change (change_password, reset_password).
LEMMA ChangeReadKeeps ==
    ASSUME ServerInv, NEW u \in User, ChangeRead(u)
    PROVE  ServerInv' /\ MintedStays
  <1> USE DEF ServerInv
  <1>1. /\ changing' = [changing EXCEPT ![u] = Unrevoked(u)]
        /\ password[u] < MaxChanges
        /\ UNCHANGED <<session, owner, parent, stale, bornAt, overlapped, password>>
    BY DEF ChangeRead
  <1>2. /\ Unrevoked(u) \in SUBSET Pair
        /\ \A p \in Unrevoked(u) : session[p] # "unused"
        /\ \A p \in Pair : owner[p] = u /\ session[p] = "live" => p \in Unrevoked(u)
    BY DEF Unrevoked
  <1>3. ServerTypeOK' /\ MintedStays
    BY <1>1, <1>2 DEF ServerTypeOK, MintedStays
  <1>4. MintedInv' /\ RotationRevokes'
    BY <1>1 DEF MintedInv, RotationRevokes
  <1>5. ChangeInv'
    BY <1>1, <1>2 DEF ChangeInv, ServerTypeOK
  <1>6. CutOffInv'
    BY <1>1, <1>2 DEF CutOffInv, ServerTypeOK, MintedInv
  <1> QED
    BY <1>3, <1>4, <1>5, <1>6

\* The second half, in the commit that stores the new password.
LEMMA ChangeCommitKeeps ==
    ASSUME ServerInv, NEW u \in User, ChangeCommit(u)
    PROVE  ServerInv' /\ MintedStays
  <1> USE DEF ServerInv
  <1>1. /\ changing[u] # NotChanging
        /\ password' = [password EXCEPT ![u] = @ + 1]
        /\ session' = [p \in Pair |-> IF p \in changing[u] THEN "revoked" ELSE session[p]]
        /\ changing' = [changing EXCEPT ![u] = NotChanging]
        /\ UNCHANGED <<owner, parent, stale, bornAt, overlapped>>
    BY DEF ChangeCommit
  <1>2. password[u] + 1 \in 0..MaxChanges
    BY <1>1, SessionsAssumption DEF ChangeInv, ServerTypeOK
  <1>3. ServerTypeOK'
    <2>1. password' \in [User -> 0..MaxChanges]
      BY <1>1, <1>2 DEF ServerTypeOK
    <2>2. session' \in [Pair -> SessionState]
      BY <1>1 DEF ServerTypeOK, SessionState
    <2>3. changing' \in [User -> (SUBSET Pair) \cup {NotChanging}]
      BY <1>1 DEF ServerTypeOK
    <2> QED
      BY <1>1, <2>1, <2>2, <2>3 DEF ServerTypeOK
  <1>4. MintedStays /\ \A p \in Pair : session[p] = "unused" => session'[p] = "unused"
    BY <1>1 DEF MintedStays, ChangeInv
  <1>5. MintedInv'
    BY <1>1, <1>4 DEF MintedInv, MintedStays
  <1>6. RotationRevokes'
    BY <1>1 DEF RotationRevokes, ServerTypeOK
  <1>7. ChangeInv'
    BY <1>1, <1>4, NotChangingIsNoSet DEF ChangeInv, ServerTypeOK, MintedStays
  <1>8. CutOffInv'
    BY <1>1 DEF CutOffInv, ServerTypeOK, MintedInv
  <1> QED
    BY <1>3, <1>4, <1>5, <1>6, <1>7, <1>8

\* The exp claim of an access token passes; no handler has a part in it.
LEMMA AccessExpiresKeeps ==
    ASSUME ServerInv, NEW p \in Pair, AccessExpires(p)
    PROVE  ServerInv' /\ MintedStays
  <1> USE DEF ServerInv
  <1>1. ServerTypeOK' /\ MintedStays
    BY DEF AccessExpires, ServerTypeOK, MintedStays
  <1>2. MintedInv' /\ ChangeInv' /\ CutOffInv' /\ RotationRevokes'
    BY DEF AccessExpires, MintedInv, ChangeInv, CutOffInv, RotationRevokes
  <1> QED
    BY <1>1, <1>2

\* Steps that leave the table alone.
LEMMA ServerIdleKeeps ==
    ASSUME ServerInv, UNCHANGED serverVars
    PROVE  ServerInv' /\ MintedStays
  BY DEF ServerInv, ServerTypeOK, MintedInv, ChangeInv, CutOffInv, RotationRevokes,
         Unrevoked, serverVars, MintedStays

\* ServerInv is what it is for.
LEMMA ServerInvImplies == ServerInv => RotationRevokes /\ OldPasswordIsCutOff
  BY DEF ServerInv, CutOffInv, OldPasswordIsCutOff

-----------------------------------------------------------------------------
(* The inductive invariant: the server's side, and what the tabs hold.     *)

\* The server's side, and what the tabs hold.
TabTypeOK ==
    /\ store \in [Tab -> Pair \cup {NoPair}]
    /\ disk \in Pair \cup {NoPair}
    /\ cache \in [Tab -> [Key -> User \cup {NoUser}]]
    /\ call \in [Tab -> [Key -> Call \cup {NoCall}]]
    /\ refreshing \in [Tab -> BOOLEAN]
    /\ refreshes \in SUBSET Refresh
    /\ signing \in [Tab -> Form]
    /\ verifying \in [Tab -> Verifying \cup {NoUser}]
    /\ load \in [Tab -> 0..MaxLoads]
    /\ spentBy \in [Pair -> (Tab \X (0..MaxLoads)) \cup {Nobody}]
    /\ mixed \in SUBSET Tab

WaitersInv == \A t \in Tab, k \in Key : call[t][k].st = "waiting" => refreshing[t]

\* Whatever is held, presented, granted or spent has been minted; a form that is
\* submitted names an account; a refresh stays with its account.
HeldInv ==
    /\ \A t \in Tab : store[t] # NoPair => session[store[t]] # "unused"
    /\ disk # NoPair => session[disk] # "unused"
    /\ \A t \in Tab : signing[t] # NoForm => signing[t].user \in User
    /\ \A p \in Pair : spentBy[p] # Nobody => session[p] # "unused"
    /\ \A r \in refreshes :
         /\ session[r.pair] # "unused"
         /\ r.st = "granted" => /\ r.new \in Pair
                                /\ session[r.new] # "unused"
                                /\ owner[r.new] = owner[r.pair]

\* A tab listens to one refresh at most, sent since its page was loaded.
HeardInv ==
    /\ \A r \in refreshes :
         /\ r.load <= load[r.tab]
         /\ r.heard => r.load = load[r.tab] /\ refreshing[r.tab]
         /\ r.st \in {"granted", "refused"} => r.heard
    /\ \A r, s \in refreshes : r.heard /\ s.heard /\ r.tab = s.tab => r = s

\* Pair p has been presented, or spent, by the page tab t has loaded.
Used(t, p) ==
    \/ \E r \in refreshes : r.tab = t /\ r.load = load[t] /\ r.pair = p
    \/ spentBy[p] = <<t, load[t]>>

\* A page presents a pair once: it never holds one it has presented, unless it
\* awaits the answer, and never gets one back.
UsedInv ==
    /\ \A p \in Pair : spentBy[p] # Nobody => spentBy[p][2] <= load[spentBy[p][1]]
    /\ \A t \in Tab : store[t] # NoPair /\ ~refreshing[t] => ~Used(t, store[t])
    /\ \A r \in refreshes : r.st = "granted" => ~Used(r.tab, r.new)
    /\ \A r, s \in refreshes : r.tab = s.tab /\ r.load = s.load /\ r.pair = s.pair => r = s
    /\ \A r \in refreshes : r.heard /\ r.st # "granted" => spentBy[r.pair] # <<r.tab, r.load>>

\* The data a tab has, and the data on its way, are of the account it acts for.
OneAccount(t) ==
    t \notin mixed /\ store[t] # NoPair =>
        \A k \in Key : /\ cache[t][k] \in {NoUser, owner[store[t]]}
                       /\ call[t][k].st = "ok" => call[t][k].from \in {NoUser, owner[store[t]]}

AccountInv == \A t \in Tab : OneAccount(t)

BrowserInv ==
    ServerInv /\ TabTypeOK /\ WaitersInv /\ HeldInv /\ HeardInv /\ UsedInv /\ AccountInv
-----------------------------------------------------------------------------
(* What the helpers of Browser do to the calls of a tab.                   *)

\* Calls as Browser!TypeOK has them.
Calls == [Key -> Call \cup {NoCall}]

\* A slot of the in-flight table holds a call whenever its state is not idle.
LEMMA CallFields ==
    /\ \A c \in Call \cup {NoCall} : c.st # "idle" => c \in Call
    /\ NoCall.st = "idle"
    /\ \A c \in Call : c.st \in {"ok", "unauth", "waiting"}
  BY DEF Call, NoCall

\* What the server answers, for a pair it has minted or none.
LEMMA SentType ==
    ASSUME ServerTypeOK, NEW p \in Pair \cup {NoPair}, NEW again \in BOOLEAN,
           NEW wants \in BOOLEAN
    PROVE  /\ Sent(p, again, wants) \in Call \cup {NoCall}
           /\ Sent(p, again, wants).st # "waiting"
           /\ Sent(p, again, wants).st = "ok"
              => p # NoPair /\ Sent(p, again, wants).from = owner[p]
  <1>1. CASE ~Accepts(p)
    BY <1>1 DEF Sent, Call
  <1>2. CASE Accepts(p) /\ wants
    <2>1. p # NoPair /\ owner[p] \in User \cup {NoUser}
      BY <1>2 DEF Accepts, ServerTypeOK
    <2> QED
      BY <1>2, <2>1 DEF Sent, Call
  <1>3. CASE Accepts(p) /\ ~wants
    BY <1>3 DEF Sent, NoCall
  <1> QED
    BY <1>1, <1>2, <1>3

\* The waiting calls are sent again: none waits any more, and what is answered
\* with data is of the new pair's account.
LEMMA ResentType ==
    ASSUME ServerTypeOK, call \in [Tab -> Calls], NEW t \in Tab, NEW p \in Pair
    PROVE  /\ Resent(t, p) \in Calls
           /\ \A k \in Key : /\ Resent(t, p)[k].st # "waiting"
                             /\ Resent(t, p)[k].st = "ok"
                                => Resent(t, p)[k] = call[t][k] \/ Resent(t, p)[k].from = owner[p]
  <1> SUFFICES ASSUME NEW k \in Key
               PROVE  /\ Resent(t, p)[k] \in Call \cup {NoCall}
                      /\ Resent(t, p)[k].st # "waiting"
                      /\ Resent(t, p)[k].st = "ok"
                         => Resent(t, p)[k] = call[t][k] \/ Resent(t, p)[k].from = owner[p]
    BY DEF Calls, Resent
  <1>1. call[t][k] \in Call \cup {NoCall}
    BY DEF Calls
  <1>2. CASE call[t][k].st # "waiting"
    BY <1>1, <1>2 DEF Resent
  <1>3. CASE call[t][k].st = "waiting"
    <2>1. call[t][k].wanted \in BOOLEAN
      BY <1>1, <1>3 DEF Call, NoCall
    <2>2. Resent(t, p)[k] = Sent(p, TRUE, call[t][k].wanted)
      BY <1>3 DEF Resent
    <2> QED
      BY <2>1, <2>2, SentType, ZenonT(30)
  <1> QED
    BY <1>2, <1>3

\* The waiting calls fail.
LEMMA RejectedType ==
    ASSUME call \in [Tab -> Calls], NEW t \in Tab
    PROVE  /\ Rejected(t) \in Calls
           /\ \A k \in Key : /\ Rejected(t)[k].st # "waiting"
                             /\ Rejected(t)[k].st = "ok" => Rejected(t)[k] = call[t][k]
  BY DEF Calls, Rejected, NoCall

\* What nobody wants any more brings no data.
LEMMA UnwantedType ==
    ASSUME NEW calls \in Calls
    PROVE  /\ Unwanted(calls) \in Calls
           /\ \A k \in Key : /\ Unwanted(calls)[k].st # "ok"
                             /\ Unwanted(calls)[k].st = "waiting" => calls[k].st = "waiting"
  <1> SUFFICES ASSUME NEW k \in Key
               PROVE  /\ Unwanted(calls)[k] \in Call \cup {NoCall}
                      /\ Unwanted(calls)[k].st # "ok"
                      /\ Unwanted(calls)[k].st = "waiting" => calls[k].st = "waiting"
    BY DEF Calls, Unwanted
  <1>1. CASE calls[k].st \in {"idle", "ok"}
    BY <1>1 DEF Unwanted, NoCall
  <1>2. CASE calls[k].st \notin {"idle", "ok"}
    <2>1. calls[k] \in Call
      BY <1>2, CallFields DEF Calls
    <2> QED
      BY <1>2, <2>1 DEF Unwanted, Call
  <1> QED
    BY <1>1, <1>2

\* A refresh that is dealt with further, or forgotten, is a refresh.
LEMMA RefreshType ==
    ASSUME refreshes \in SUBSET Refresh, NEW r \in refreshes
    PROVE  /\ r \in Refresh
           /\ r.tab \in Tab /\ r.load \in 0..MaxLoads /\ r.pair \in Pair
           /\ r.seen \in 0..MaxChanges /\ r.new \in Pair \cup {NoPair}
           /\ r.heard \in BOOLEAN /\ r.st \in {"sent", "checked", "granted", "refused"}
           /\ \A n \in 0..MaxChanges : [r EXCEPT !.st = "checked", !.seen = n] \in Refresh
           /\ [r EXCEPT !.st = "refused"] \in Refresh
           /\ \A p \in Pair : [r EXCEPT !.st = "granted", !.new = p] \in Refresh
           /\ \A h \in BOOLEAN : [r EXCEPT !.heard = h] \in Refresh
  BY DEF Refresh

\* What a page load of tab t makes of a refresh.
Loaded(r, t) == [r EXCEPT !.heard = @ /\ r.tab # t]

\* A page load leaves of the refreshes of its tab those the server works on, and
\* listens to none of them.
LEMMA LoadedRefreshes ==
    ASSUME TabTypeOK, NEW t \in Tab, NEW v, LoadPage(t, v)
    PROVE  \A m \in refreshes' : \E r \in refreshes :
               /\ m.tab = r.tab /\ m.load = r.load /\ m.pair = r.pair
               /\ m.st = r.st /\ m.new = r.new
               /\ m.heard <=> (r.heard /\ r.tab # t)
               /\ m = Loaded(r, t)
               /\ r.tab # t \/ r.st \in {"sent", "checked"}
  <1>1. TAKE m \in refreshes'
  <1>2. PICK r \in {q \in refreshes : q.tab # t \/ q.st \in {"sent", "checked"}} :
            m = Loaded(r, t)
    BY DEF LoadPage, Loaded
  <1>3. r \in Refresh
    BY DEF TabTypeOK
  <1>4. WITNESS r \in refreshes
  <1> QED
    BY <1>2, <1>3 DEF Refresh, Loaded

-----------------------------------------------------------------------------
(* The server under the browser.                                           *)

\* Every step keeps the server's invariant, and a pair once minted keeps its owner
\* and its kind.
LEMMA ServerKept ==
    ASSUME BrowserInv, [Next]_vars
    PROVE  ServerInv' /\ MintedStays
  <1> USE DEF BrowserInv
  <1>1. CASE UNCHANGED serverVars
    BY <1>1, ServerIdleKeeps
  <1>2. CASE ServerStep
    <2>1. ASSUME NEW u \in User, ChangeRead(u)
          PROVE  ServerInv' /\ MintedStays
      BY <2>1, ChangeReadKeeps
    <2>2. ASSUME NEW u \in User, ChangeCommit(u)
          PROVE  ServerInv' /\ MintedStays
      BY <2>2, ChangeCommitKeeps
    <2>3. ASSUME NEW p \in Held \ {NoPair}, AccessExpires(p)
          PROVE  ServerInv' /\ MintedStays
      <3>1. p \in Pair
        BY DEF Held, TabTypeOK
      <3> QED
        BY <2>3, <3>1, AccessExpiresKeeps
    <2> QED
      BY <1>2, <2>1, <2>2, <2>3 DEF ServerStep
  <1>3. ASSUME NEW r \in refreshes, CheckRefresh(r)
        PROVE  ServerInv' /\ MintedStays
    <2>1. r.pair \in Pair
      BY RefreshType DEF TabTypeOK
    <2>2. CASE Redeem(r.pair)
      BY <2>2, ServerIdleKeeps DEF Redeem
    <2>3. CASE Refuse(r.pair)
      BY <2>1, <2>3, RefuseKeeps
    <2> QED
      BY <1>3, <2>2, <2>3 DEF CheckRefresh
  <1>4. ASSUME NEW r \in refreshes, CommitRefresh(r)
        PROVE  ServerInv' /\ MintedStays
    <2>1. r.pair \in Pair /\ r.seen \in 0..MaxChanges /\ session[r.pair] # "unused"
      BY RefreshType DEF TabTypeOK, HeldInv
    <2>2. PICK p \in Pair : RotateTo(r.pair, r.seen, p)
      BY <1>4 DEF CommitRefresh
    <2> QED
      BY <2>1, <2>2, RotateToKeeps
  <1>5. ASSUME NEW t \in Tab, SignedIn(t)
        PROVE  ServerInv' /\ MintedStays
    <2>1. signing[t].user \in User /\ signing[t].seen \in 0..MaxChanges
      BY <1>5 DEF SignedIn, HeldInv, TabTypeOK, Form
    <2>2. PICK p \in Pair : SignIn(signing[t].user, signing[t].seen, p)
      BY <1>5 DEF SignedIn
    <2> QED
      BY <2>1, <2>2, SignInKeeps
  <1>6. ASSUME NEW t \in Tab, Verified(t)
        PROVE  ServerInv' /\ MintedStays
    <2> DEFINE u == verifying[t]
    <2>1. u \in User /\ password[u] \in 0..MaxChanges
      BY <1>6, BrowserAssumption DEF Verified, TabTypeOK, ServerInv, ServerTypeOK
    <2>2. PICK p \in Pair : SignIn(u, password[u], p)
      BY <1>6 DEF Verified
    <2> QED
      BY <2>1, <2>2, SignInKeeps
  <1>7. ASSUME NEW t \in Tab, NEW k \in Key, CallStep(t, k)
        PROVE  UNCHANGED serverVars
    BY <1>7 DEF CallStep, Fetch, ReceiveData, LoseCall, GiveUp, JoinRefresh, StartRefresh
  <1>8. ASSUME NEW r \in refreshes, RefreshGranted(r) \/ RefreshRefused(r) \/ RefreshLost(r)
        PROVE  UNCHANGED serverVars
    BY <1>8 DEF RefreshGranted, RefreshRefused, RefreshLost, SignedOutByRefresh
  <1>9. ASSUME NEW t \in Tab, NEW u \in User,
               SubmitForm(t, u) \/ FollowVerifyLink(t, u) \/ VerifyInPlace(t, u)
        PROVE  UNCHANGED serverVars
    BY <1>9 DEF SubmitForm, FollowVerifyLink, LoadPage, VerifyInPlace
  <1>10. ASSUME NEW t \in Tab,
                Logout(t) \/ ClearExpired(t) \/ SignInFails(t) \/ Reload(t) \/ VerifyFails(t)
         PROVE  UNCHANGED serverVars
    BY <1>10 DEF Logout, ClearExpired, SignInFails, Reload, LoadPage, VerifyFails
  <1>11. CASE UNCHANGED vars
    BY <1>1, <1>11 DEF vars
  <1>12. Verifying \subseteq User
    BY BrowserAssumption
  <1> QED
    BY <1>1, <1>2, <1>3, <1>4, <1>5, <1>6, <1>7, <1>8, <1>9, <1>10, <1>11, <1>12
       DEF Next, RefreshStep, PageStep

-----------------------------------------------------------------------------
(* The types of what the tabs hold.                                        *)

\* Every step keeps the tabs' types, and whoever waits for a refresh waits for one
\* that exists.
LEMMA TabTypeKept ==
    ASSUME BrowserInv, [Next]_vars
    PROVE  TabTypeOK' /\ WaitersInv'
  <1> USE DEF BrowserInv
  <1>a. ServerTypeOK /\ call \in [Tab -> Calls]
    BY DEF ServerInv, TabTypeOK, Calls
  <1>b. \A t \in Tab, k \in Key : call[t][k] \in Call \cup {NoCall}
    BY DEF TabTypeOK
  <1>c. MaxLoads \in Nat
    BY BrowserAssumption
  <1>1. CASE ServerStep
    BY <1>1 DEF ServerStep, tabVars, TabTypeOK, WaitersInv
  <1>2. ASSUME NEW t \in Tab, NEW k \in Key, Fetch(t, k)
        PROVE  TabTypeOK' /\ WaitersInv'
    <2>1. Sent(store[t], FALSE, TRUE) \in Call \cup {NoCall}
          /\ Sent(store[t], FALSE, TRUE).st # "waiting"
      BY <1>a, SentType DEF TabTypeOK
    <2> QED
      BY <1>2, <2>1 DEF Fetch, SetCall, TabTypeOK, WaitersInv
  <1>3. ASSUME NEW t \in Tab, NEW k \in Key, ReceiveData(t, k)
        PROVE  TabTypeOK' /\ WaitersInv'
    <2>1. call[t][k].from \in User \cup {NoUser}
      BY <1>3, <1>b DEF ReceiveData, Call, NoCall
    <2> QED
      BY <1>3, <2>1 DEF ReceiveData, SetCall, TabTypeOK, WaitersInv, NoCall
  <1>4. ASSUME NEW t \in Tab, NEW k \in Key, LoseCall(t, k) \/ GiveUp(t, k)
        PROVE  TabTypeOK' /\ WaitersInv'
    <2>1. /\ SetCall(t, k, NoCall)
          /\ UNCHANGED <<store, disk, cache, refreshing, refreshes, signing, verifying,
                         load, spentBy, mixed>>
      BY <1>4 DEF LoseCall, GiveUp
    <2> QED
      BY <2>1 DEF SetCall, TabTypeOK, WaitersInv, NoCall
  <1>5. ASSUME NEW t \in Tab, NEW k \in Key, JoinRefresh(t, k)
        PROVE  TabTypeOK' /\ WaitersInv'
    <2>1. [call[t][k] EXCEPT !.st = "waiting"] \in Call
      BY <1>5, <1>b DEF JoinRefresh, Call, NoCall
    <2> QED
      BY <1>5, <2>1 DEF JoinRefresh, SetCall, TabTypeOK, WaitersInv
  <1>6. ASSUME NEW t \in Tab, NEW k \in Key, StartRefresh(t, k)
        PROVE  TabTypeOK' /\ WaitersInv'
    <2> DEFINE r == [tab |-> t, load |-> load[t], pair |-> store[t], seen |-> 0,
                     st |-> "sent", new |-> NoPair, heard |-> TRUE]
    <2>1. [call[t][k] EXCEPT !.st = "waiting"] \in Call
      BY <1>6, <1>b DEF StartRefresh, Call, NoCall
    <2>2. r \in Refresh
      BY <1>6, SessionsAssumption DEF StartRefresh, Refresh, TabTypeOK
    <2>3. /\ SetCall(t, k, [call[t][k] EXCEPT !.st = "waiting"])
          /\ refreshing' = [refreshing EXCEPT ![t] = TRUE]
          /\ refreshes' = refreshes \cup {r}
          /\ UNCHANGED <<serverVars, store, disk, cache, signing, verifying, load, spentBy, mixed>>
      BY <1>6 DEF StartRefresh
    <2> HIDE DEF r
    <2> QED
      BY <2>1, <2>2, <2>3 DEF SetCall, TabTypeOK, WaitersInv
  <1>7. ASSUME NEW r \in refreshes, CheckRefresh(r)
        PROVE  TabTypeOK' /\ WaitersInv'
    <2>1. UNCHANGED <<store, disk, cache, call, refreshing, signing, verifying, load,
                      spentBy, mixed>>
      BY <1>7 DEF CheckRefresh
    <2>2. owner[r.pair] \in User
      BY RefreshType DEF TabTypeOK, HeldInv, ServerInv, MintedInv
    <2>3. password[owner[r.pair]] \in 0..MaxChanges
      BY <2>2, <1>a DEF ServerTypeOK
    <2>4. refreshes' \in SUBSET Refresh
      <3>1. CASE refreshes' = (refreshes \ {r}) \cup
                     {[r EXCEPT !.st = "checked", !.seen = password[owner[r.pair]]]}
        BY <3>1, <2>3, RefreshType DEF TabTypeOK
      <3>2. CASE refreshes' = Answer(r, [r EXCEPT !.st = "refused"])
        <4>1. [r EXCEPT !.st = "refused"] \in Refresh
          BY RefreshType DEF TabTypeOK
        <4> QED
          BY <3>2, <4>1 DEF Answer, TabTypeOK
      <3> QED
        BY <1>7, <3>1, <3>2 DEF CheckRefresh
    <2> QED
      BY <2>1, <2>4 DEF TabTypeOK, WaitersInv
  <1>8. ASSUME NEW r \in refreshes, CommitRefresh(r)
        PROVE  TabTypeOK' /\ WaitersInv'
    <2>1. UNCHANGED <<store, disk, cache, call, refreshing, signing, verifying, load, mixed>>
      BY <1>8 DEF CommitRefresh
    <2>2. PICK p \in Pair : refreshes' = Answer(r, [r EXCEPT !.st = "granted", !.new = p])
      BY <1>8 DEF CommitRefresh
    <2>3. refreshes' \in SUBSET Refresh
      <3>1. [r EXCEPT !.st = "granted", !.new = p] \in Refresh
        BY RefreshType DEF TabTypeOK
      <3> QED
        BY <2>2, <3>1 DEF Answer, TabTypeOK
    <2>4. spentBy' \in [Pair -> (Tab \X (0..MaxLoads)) \cup {Nobody}]
      BY <1>8, RefreshType DEF CommitRefresh, TabTypeOK
    <2> QED
      BY <2>1, <2>3, <2>4 DEF TabTypeOK, WaitersInv
  <1>9. ASSUME NEW r \in refreshes, RefreshGranted(r)
        PROVE  TabTypeOK' /\ WaitersInv'
    <2>1. r.tab \in Tab /\ r.new \in Pair
      BY <1>9, RefreshType DEF TabTypeOK, HeldInv, RefreshGranted
    <2>2. /\ Resent(r.tab, r.new) \in Calls
          /\ \A k \in Key : Resent(r.tab, r.new)[k].st # "waiting"
      BY <1>a, <2>1, ResentType
    <2> QED
      BY <1>9, <2>1, <2>2 DEF RefreshGranted, SetTokens, TabTypeOK, WaitersInv, Calls
  <1>10. ASSUME NEW r \in refreshes, RefreshRefused(r) \/ RefreshLost(r)
         PROVE  TabTypeOK' /\ WaitersInv'
    <2>1. r.tab \in Tab /\ [r EXCEPT !.heard = FALSE] \in Refresh
      BY RefreshType DEF TabTypeOK
    <2>2. /\ Rejected(r.tab) \in Calls
          /\ \A k \in Key : Rejected(r.tab)[k].st # "waiting"
      BY <1>a, <2>1, RejectedType
    <2>3. refreshes' \in SUBSET Refresh
      BY <1>10, <2>1 DEF RefreshRefused, RefreshLost, TabTypeOK
    <2>4. SignedOutByRefresh(r.tab)
      BY <1>10 DEF RefreshRefused, RefreshLost
    <2> QED
      BY <2>1, <2>2, <2>3, <2>4
         DEF SignedOutByRefresh, ClearTokens, SetTokens, TabTypeOK, WaitersInv, Calls
  <1>11. ASSUME NEW t \in Tab, Logout(t)
         PROVE  TabTypeOK' /\ WaitersInv'
    <2>1. /\ Unwanted(call[t]) \in Calls
          /\ \A k \in Key : Unwanted(call[t])[k].st = "waiting" => call[t][k].st = "waiting"
      BY <1>a, UnwantedType
    <2> QED
      BY <1>11, <2>1 DEF Logout, ClearTokens, SetTokens, EmptyCache, TabTypeOK, WaitersInv, Calls
  <1>12. ASSUME NEW t \in Tab, ClearExpired(t)
         PROVE  TabTypeOK' /\ WaitersInv'
    BY <1>12 DEF ClearExpired, ClearTokens, SetTokens, TabTypeOK, WaitersInv
  <1>13. ASSUME NEW t \in Tab, NEW u \in User, SubmitForm(t, u)
         PROVE  TabTypeOK' /\ WaitersInv'
    <2>1. [user |-> u, seen |-> password[u]] \in Form
      BY <1>a DEF Form, ServerTypeOK
    <2> QED
      BY <1>13, <2>1 DEF SubmitForm, TabTypeOK, WaitersInv
  <1>14. ASSUME NEW t \in Tab, SignedIn(t)
         PROVE  TabTypeOK' /\ WaitersInv'
    <2>1. /\ Unwanted(call[t]) \in Calls
          /\ \A k \in Key : Unwanted(call[t])[k].st = "waiting" => call[t][k].st = "waiting"
      BY <1>a, UnwantedType
    <2>2. PICK p \in Pair : SetTokens(t, p)
      BY <1>14 DEF SignedIn
    <2>3. NoForm \in Form
      BY SessionsAssumption DEF NoForm, Form
    <2> QED
      BY <1>14, <2>1, <2>2, <2>3
         DEF SignedIn, SetTokens, EmptyCache, TabTypeOK, WaitersInv, Calls
  <1>15. ASSUME NEW t \in Tab, SignInFails(t)
         PROVE  TabTypeOK' /\ WaitersInv'
    <2>1. NoForm \in Form
      BY SessionsAssumption DEF NoForm, Form
    <2> QED
      BY <1>15, <2>1 DEF SignInFails, TabTypeOK, WaitersInv
  <1>16. ASSUME NEW t \in Tab, NEW v \in Verifying \cup {NoUser}, LoadPage(t, v)
         PROVE  TabTypeOK' /\ WaitersInv'
    <2>1. NoForm \in Form
      BY SessionsAssumption DEF NoForm, Form
    <2>2. refreshes' \in SUBSET Refresh
      <3>1. ASSUME NEW m \in refreshes
            PROVE  [m EXCEPT !.heard = @ /\ m.tab # t] \in Refresh
        <4>1. m \in Refresh
          BY DEF TabTypeOK
        <4> QED
          BY <4>1 DEF Refresh
      <3> QED
        BY <1>16, <3>1 DEF LoadPage
    <2>3. load' \in [Tab -> 0..MaxLoads]
      BY <1>16, <1>c DEF LoadPage, TabTypeOK
    <2> QED
      BY <1>16, <2>1, <2>2, <2>3 DEF LoadPage, EmptyCache, TabTypeOK, WaitersInv, NoCall
  <1>17. ASSUME NEW t \in Tab, Reload(t)
         PROVE  TabTypeOK' /\ WaitersInv'
    BY <1>16, <1>17 DEF Reload
  <1>18. ASSUME NEW t \in Tab, NEW u \in Verifying, FollowVerifyLink(t, u)
         PROVE  TabTypeOK' /\ WaitersInv'
    BY <1>16, <1>18 DEF FollowVerifyLink
  <1>19. CASE UNCHANGED vars
    BY <1>19 DEF vars, tabVars, TabTypeOK, WaitersInv
  <1>20. ASSUME NEW t \in Tab, NEW u \in Verifying, VerifyInPlace(t, u)
         PROVE  TabTypeOK' /\ WaitersInv'
    BY <1>20 DEF VerifyInPlace, TabTypeOK, WaitersInv
  <1>21. ASSUME NEW t \in Tab, Verified(t)
         PROVE  TabTypeOK' /\ WaitersInv'
    <2>1. PICK p \in Pair : SetTokens(t, p)
      BY <1>21 DEF Verified
    <2> QED
      BY <1>21, <2>1 DEF Verified, SetTokens, TabTypeOK, WaitersInv
  <1>22. ASSUME NEW t \in Tab, VerifyFails(t)
         PROVE  TabTypeOK' /\ WaitersInv'
    BY <1>22 DEF VerifyFails, TabTypeOK, WaitersInv
  <1> QED
    BY <1>1, <1>2, <1>3, <1>4, <1>5, <1>6, <1>7, <1>8, <1>9, <1>10, <1>11, <1>12, <1>13,
       <1>14, <1>15, <1>17, <1>18, <1>19, <1>20, <1>21, <1>22
       DEF Next, CallStep, RefreshStep, PageStep
-----------------------------------------------------------------------------
(* What is held has been minted.                                           *)

\* What was held before a step is minted after it, and of the same account.
LEMMA HeldFrame ==
    ASSUME BrowserInv, MintedStays
    PROVE  /\ \A t \in Tab : store[t] # NoPair => session'[store[t]] # "unused"
           /\ disk # NoPair => session'[disk] # "unused"
           /\ \A p \in Pair : spentBy[p] # Nobody => session'[p] # "unused"
           /\ \A r \in refreshes :
                /\ session'[r.pair] # "unused"
                /\ r.st = "granted" => /\ r.new \in Pair
                                       /\ session'[r.new] # "unused"
                                       /\ owner'[r.new] = owner'[r.pair]
  <1> USE DEF BrowserInv, HeldInv, MintedStays
  <1>1. \A t \in Tab : store[t] \in Pair \cup {NoPair}
    BY DEF TabTypeOK
  <1>2. disk \in Pair \cup {NoPair}
    BY DEF TabTypeOK
  <1>3. \A r \in refreshes : r.pair \in Pair
    BY RefreshType DEF TabTypeOK
  <1> QED
    BY <1>1, <1>2, <1>3

\* Whatever is held, presented, granted or spent stays minted.
LEMMA HeldKept ==
    ASSUME BrowserInv, [Next]_vars
    PROVE  HeldInv'
  <1> USE DEF BrowserInv, HeldInv
  <1>a. ServerInv' /\ MintedStays
    BY ServerKept
  <1>b. /\ \A t \in Tab : store[t] # NoPair => session'[store[t]] # "unused"
        /\ disk # NoPair => session'[disk] # "unused"
        /\ \A p \in Pair : spentBy[p] # Nobody => session'[p] # "unused"
    BY <1>a, HeldFrame
  <1>c. \A r \in refreshes :
            /\ session'[r.pair] # "unused"
            /\ r.st = "granted" => /\ r.new \in Pair
                                   /\ session'[r.new] # "unused"
                                   /\ owner'[r.new] = owner'[r.pair]
    BY <1>a, HeldFrame
  <1>1. CASE UNCHANGED <<store, disk, refreshes, signing, spentBy>>
    BY <1>1, <1>b, <1>c
  <1>2. ASSUME NEW t \in Tab, NEW k \in Key, StartRefresh(t, k)
        PROVE  HeldInv'
    BY <1>2, <1>b, <1>c DEF StartRefresh
  <1>3. ASSUME NEW r \in refreshes, CheckRefresh(r)
        PROVE  HeldInv'
    <2>1. \A m \in refreshes' : m \in refreshes \/ (m.pair = r.pair /\ m.st \in {"checked", "refused"})
      <3>a. r \in Refresh
        BY DEF TabTypeOK
      <3>1. CASE refreshes' = (refreshes \ {r}) \cup
                     {[r EXCEPT !.st = "checked", !.seen = password[owner[r.pair]]]}
        BY <3>a, <3>1 DEF Refresh
      <3>2. CASE refreshes' = Answer(r, [r EXCEPT !.st = "refused"])
        BY <3>a, <3>2 DEF Refresh, Answer
      <3> QED
        BY <1>3, <3>1, <3>2 DEF CheckRefresh
    <2> QED
      BY <1>3, <1>b, <1>c, <2>1 DEF CheckRefresh
  <1>4. ASSUME NEW r \in refreshes, CommitRefresh(r)
        PROVE  HeldInv'
    <2>1. r.pair \in Pair /\ r.seen \in 0..MaxChanges /\ session[r.pair] # "unused"
      BY RefreshType DEF TabTypeOK
    <2>2. PICK p \in Pair : /\ RotateTo(r.pair, r.seen, p)
                            /\ refreshes' = Answer(r, [r EXCEPT !.st = "granted", !.new = p])
      BY <1>4 DEF CommitRefresh
    <2>3. session'[p] # "unused" /\ owner'[p] = owner'[r.pair]
      BY <2>1, <2>2, RotateToKeeps DEF MintedStays
    <2>4. \A m \in refreshes' : m \in refreshes \/ (m.pair = r.pair /\ m.new = p)
      <3>1. r \in Refresh
        BY DEF TabTypeOK
      <3> QED
        BY <2>2, <3>1 DEF Refresh, Answer
    <2>5. spentBy' = [spentBy EXCEPT ![r.pair] = <<r.tab, r.load>>]
      BY <1>4 DEF CommitRefresh
    <2>6. \A q \in Pair : spentBy'[q] # Nobody => session'[q] # "unused"
      BY <1>b, <1>c, <2>5 DEF TabTypeOK
    <2> QED
      BY <1>4, <1>b, <1>c, <2>3, <2>4, <2>6 DEF CommitRefresh
  <1>5. ASSUME NEW r \in refreshes, RefreshGranted(r)
        PROVE  HeldInv'
    <2>1. r.tab \in Tab
      BY RefreshType DEF TabTypeOK
    <2> QED
      BY <1>5, <1>b, <1>c, <2>1 DEF RefreshGranted, SetTokens, TabTypeOK
  <1>6. ASSUME NEW r \in refreshes, RefreshRefused(r) \/ RefreshLost(r)
        PROVE  HeldInv'
    <2>1. r.tab \in Tab
      BY RefreshType DEF TabTypeOK
    <2>2. \A m \in refreshes' : m \in refreshes \/ (m.pair = r.pair /\ m.st = r.st /\ m.new = r.new)
      <3>1. r \in Refresh
        BY DEF TabTypeOK
      <3> QED
        BY <1>6, <3>1 DEF RefreshRefused, RefreshLost, Refresh
    <2>3. SignedOutByRefresh(r.tab)
      BY <1>6 DEF RefreshRefused, RefreshLost
    <2> QED
      BY <2>1, <2>2, <2>3, <1>b, <1>c DEF SignedOutByRefresh, ClearTokens, SetTokens, TabTypeOK
  <1>7. ASSUME NEW t \in Tab, Logout(t) \/ ClearExpired(t)
        PROVE  HeldInv'
    <2>1. ClearTokens(t) /\ UNCHANGED <<refreshes, signing, spentBy>>
      BY <1>7 DEF Logout, ClearExpired
    <2> QED
      BY <2>1, <1>b, <1>c DEF ClearTokens, SetTokens, TabTypeOK
  <1>8. ASSUME NEW t \in Tab, NEW u \in User, SubmitForm(t, u)
        PROVE  HeldInv'
    BY <1>8, <1>b, <1>c DEF SubmitForm, TabTypeOK
  <1>9. ASSUME NEW t \in Tab, SignedIn(t)
        PROVE  HeldInv'
    <2>1. signing[t].user \in User /\ signing[t].seen \in 0..MaxChanges
      BY <1>9 DEF SignedIn, TabTypeOK, Form
    <2>2. PICK p \in Pair : SignIn(signing[t].user, signing[t].seen, p) /\ SetTokens(t, p)
      BY <1>9 DEF SignedIn
    <2>3. session'[p] # "unused"
      BY <2>1, <2>2, SignInKeeps
    <2> QED
      BY <1>9, <2>2, <2>3, <1>b, <1>c DEF SignedIn, SetTokens, TabTypeOK
  <1>10. ASSUME NEW t \in Tab, SignInFails(t)
         PROVE  HeldInv'
    BY <1>10, <1>b, <1>c DEF SignInFails, TabTypeOK
  <1>11. ASSUME NEW t \in Tab, NEW v, LoadPage(t, v)
         PROVE  HeldInv'
    <2>1. \A m \in refreshes' : \E r \in refreshes :
              m.pair = r.pair /\ m.st = r.st /\ m.new = r.new
      BY <1>11, LoadedRefreshes
    <2>2. /\ \A s \in Tab : store'[s] # NoPair => session'[store'[s]] # "unused"
          /\ disk' # NoPair => session'[disk'] # "unused"
      BY <1>11, <1>b DEF LoadPage, TabTypeOK
    <2>3. /\ \A s \in Tab : signing'[s] # NoForm => signing'[s].user \in User
          /\ \A q \in Pair : spentBy'[q] # Nobody => session'[q] # "unused"
      BY <1>11, <1>b DEF LoadPage, TabTypeOK
    <2> QED
      BY <2>1, <2>2, <2>3, <1>c
  <1>12. ASSUME NEW t \in Tab, Reload(t)
         PROVE  HeldInv'
    BY <1>11, <1>12 DEF Reload
  <1>13. ASSUME NEW t \in Tab, NEW u \in Verifying, FollowVerifyLink(t, u)
         PROVE  HeldInv'
    BY <1>11, <1>13 DEF FollowVerifyLink
  <1>14. ASSUME NEW t \in Tab, NEW k \in Key, Fetch(t, k) \/ ReceiveData(t, k) \/ LoseCall(t, k)
                                              \/ GiveUp(t, k) \/ JoinRefresh(t, k)
         PROVE  HeldInv'
    BY <1>1, <1>14 DEF Fetch, ReceiveData, LoseCall, GiveUp, JoinRefresh
  <1>15. CASE ServerStep \/ UNCHANGED vars
    BY <1>1, <1>15 DEF ServerStep, vars, tabVars
  <1>16. ASSUME NEW t \in Tab, NEW u \in Verifying, VerifyInPlace(t, u)
         PROVE  HeldInv'
    BY <1>1, <1>16 DEF VerifyInPlace
  <1>17. ASSUME NEW t \in Tab, VerifyFails(t)
         PROVE  HeldInv'
    BY <1>1, <1>17 DEF VerifyFails
  <1>18. ASSUME NEW t \in Tab, Verified(t)
         PROVE  HeldInv'
    <2> DEFINE u == verifying[t]
    <2>1. u \in User /\ password[u] \in 0..MaxChanges
      BY <1>18, BrowserAssumption DEF Verified, TabTypeOK, ServerInv, ServerTypeOK
    <2>2. PICK p \in Pair : SignIn(u, password[u], p) /\ SetTokens(t, p)
      BY <1>18 DEF Verified
    <2>3. session'[p] # "unused"
      BY <2>1, <2>2, SignInKeeps
    <2>4. UNCHANGED <<refreshes, signing, spentBy>>
      BY <1>18 DEF Verified
    <2> HIDE DEF u
    <2> QED
      BY <2>2, <2>3, <2>4, <1>b, <1>c DEF SetTokens, TabTypeOK
  <1> QED
    BY <1>2, <1>3, <1>4, <1>5, <1>6, <1>7, <1>8, <1>9, <1>10, <1>12, <1>13, <1>14, <1>15,
       <1>16, <1>17, <1>18
       DEF Next, CallStep, RefreshStep, PageStep
-----------------------------------------------------------------------------
(* A page presents a pair once.                                            *)

\* A pair not minted yet has not been presented.
LEMMA FreshIsUnused ==
    ASSUME TabTypeOK, HeldInv, NEW p \in Pair, session[p] = "unused"
    PROVE  /\ \A t \in Tab : ~Used(t, p)
           /\ \A r \in refreshes : r.pair # p
  <1>1. \A r \in refreshes : r.pair # p
    BY DEF HeldInv
  <1>2. spentBy[p] = Nobody
    BY DEF HeldInv
  <1>3. \A t \in Tab : <<t, load[t]>> # Nobody
    BY DEF Nobody
  <1> QED
    BY <1>1, <1>2, <1>3 DEF Used

\* What the steps of a refresh leave as it was.
LEMMA RefreshFields ==
    ASSUME NEW r \in Refresh
    PROVE  /\ \A n : LET c == [r EXCEPT !.st = "checked", !.seen = n] IN
                 /\ c.tab = r.tab /\ c.load = r.load /\ c.pair = r.pair
                 /\ c.heard = r.heard /\ c.st = "checked"
           /\ LET c == [r EXCEPT !.st = "refused"] IN
                 /\ c.tab = r.tab /\ c.load = r.load /\ c.pair = r.pair
                 /\ c.heard = r.heard /\ c.st = "refused"
           /\ \A p : LET c == [r EXCEPT !.st = "granted", !.new = p] IN
                 /\ c.tab = r.tab /\ c.load = r.load /\ c.pair = r.pair
                 /\ c.heard = r.heard /\ c.st = "granted" /\ c.new = p
           /\ LET c == [r EXCEPT !.heard = FALSE] IN
                 /\ c.tab = r.tab /\ c.load = r.load /\ c.pair = r.pair
                 /\ ~c.heard /\ c.st = r.st /\ c.new = r.new
  BY DEF Refresh

\* Every step keeps both: one refresh listened to, and a pair presented once by a
\* page.
LEMMA UsedKept ==
    ASSUME BrowserInv, [Next]_vars
    PROVE  HeardInv' /\ UsedInv'
  <1> USE DEF BrowserInv
  <1>a. /\ \A r \in refreshes : /\ r \in Refresh /\ r.tab \in Tab /\ r.pair \in Pair
                                /\ r.load \in Nat /\ r.heard \in BOOLEAN
        /\ \A t \in Tab : load[t] \in Nat /\ store[t] \in Pair \cup {NoPair}
        /\ NoPair \notin Pair
    <2>1. \A r \in refreshes : /\ r \in Refresh /\ r.tab \in Tab /\ r.pair \in Pair
                               /\ r.load \in Nat /\ r.heard \in BOOLEAN
      <3> SUFFICES ASSUME NEW r \in refreshes
                   PROVE  /\ r \in Refresh /\ r.tab \in Tab /\ r.pair \in Pair
                          /\ r.load \in Nat /\ r.heard \in BOOLEAN
        OBVIOUS
      <3>1. r \in Refresh
        BY DEF TabTypeOK
      <3> QED
        BY <3>1, BrowserAssumption DEF Refresh
    <2>2. \A t \in Tab : load[t] \in Nat /\ store[t] \in Pair \cup {NoPair}
      BY BrowserAssumption DEF TabTypeOK
    <2> QED
      BY <2>1, <2>2, NotChangingIsNoSet
  <1>1. CASE UNCHANGED <<store, refreshing, refreshes, load, spentBy>>
    BY <1>1 DEF HeardInv, UsedInv, Used
  <1>2. ASSUME NEW t \in Tab, NEW k \in Key, StartRefresh(t, k)
        PROVE  HeardInv' /\ UsedInv'
    <2> DEFINE n == [tab |-> t, load |-> load[t], pair |-> store[t], seen |-> 0,
                     st |-> "sent", new |-> NoPair, heard |-> TRUE]
    <2>1. /\ ~refreshing[t] /\ store[t] # NoPair
          /\ refreshing' = [refreshing EXCEPT ![t] = TRUE]
          /\ refreshes' = refreshes \cup {n}
          /\ UNCHANGED <<store, load, spentBy>>
      BY <1>2 DEF StartRefresh, NoneAwaited
    <2>2. ~Used(t, store[t]) /\ \A r \in refreshes : r.tab = t => ~r.heard
      BY <2>1 DEF UsedInv, HeardInv
    <2>3. n.tab = t /\ n.load = load[t] /\ n.pair = store[t] /\ n.st = "sent" /\ n.heard
      OBVIOUS
    <2> HIDE DEF n
    <2>4. HeardInv'
      BY <2>1, <2>2, <2>3, <1>a DEF HeardInv, TabTypeOK
    <2>5. \A s \in Tab, p \in Pair : Used(s, p)' => Used(s, p) \/ (s = t /\ p = store[t])
      BY <2>1, <2>3 DEF Used
    <2>6. \A s \in Tab : store'[s] # NoPair /\ ~refreshing'[s] => ~Used(s, store[s])'
      BY <2>1, <2>5, <1>a DEF UsedInv, TabTypeOK
    <2>7. \A r \in refreshes' : r.st = "granted" => ~Used(r.tab, r.new)'
      BY <2>1, <2>2, <2>3, <2>5, <1>a DEF UsedInv, HeardInv, HeldInv
    <2>8. \A r, s \in refreshes' : r.tab = s.tab /\ r.load = s.load /\ r.pair = s.pair => r = s
      BY <2>1, <2>2, <2>3 DEF UsedInv, Used
    <2>9. \A r \in refreshes' : r.heard /\ r.st # "granted" => spentBy'[r.pair] # <<r.tab, r.load>>
      BY <2>1, <2>2, <2>3 DEF UsedInv, Used
    <2> QED
      BY <2>1, <2>4, <2>6, <2>7, <2>8, <2>9 DEF UsedInv
  <1>3. ASSUME NEW r \in refreshes, CheckRefresh(r)
        PROVE  HeardInv' /\ UsedInv'
    <2>1. PICK n : /\ refreshes' \in {(refreshes \ {r}) \cup {n}, refreshes \ {r}}
                   /\ n.tab = r.tab /\ n.load = r.load /\ n.pair = r.pair /\ n.heard = r.heard
                   /\ n.st \in {"checked", "refused"}
                   /\ n.st = "refused" => (n.heard \/ refreshes' = refreshes \ {r})
      <3>1. CASE refreshes' = (refreshes \ {r}) \cup
                     {[r EXCEPT !.st = "checked", !.seen = password[owner[r.pair]]]}
        <4> DEFINE c == [r EXCEPT !.st = "checked", !.seen = password[owner[r.pair]]]
        <4>1. /\ c.tab = r.tab /\ c.load = r.load /\ c.pair = r.pair
              /\ c.heard = r.heard /\ c.st = "checked"
          BY <1>a, RefreshFields
        <4>2. refreshes' = (refreshes \ {r}) \cup {c}
          BY <3>1
        <4> HIDE DEF c
        <4> QED
          BY <4>1, <4>2
      <3>2. CASE refreshes' = Answer(r, [r EXCEPT !.st = "refused"])
        <4> DEFINE c == [r EXCEPT !.st = "refused"]
        <4>1. /\ c.tab = r.tab /\ c.load = r.load /\ c.pair = r.pair
              /\ c.heard = r.heard /\ c.st = "refused"
          BY <1>a, RefreshFields
        <4>2. /\ refreshes' \in {(refreshes \ {r}) \cup {c}, refreshes \ {r}}
              /\ c.heard \/ refreshes' = refreshes \ {r}
          BY <3>2, <4>1 DEF Answer
        <4> HIDE DEF c
        <4> QED
          BY <4>1, <4>2
      <3> QED
        BY <1>3, <3>1, <3>2 DEF CheckRefresh
    <2>2. UNCHANGED <<store, refreshing, load, spentBy>> /\ r.st = "sent"
      BY <1>3 DEF CheckRefresh
    <2>3. HeardInv'
      BY <2>1, <2>2, <1>a DEF HeardInv
    <2>4. \A s \in Tab, p \in Pair : Used(s, p)' => Used(s, p)
      BY <2>1, <2>2 DEF Used
    <2>5. \A m \in refreshes' : m.st = "granted" => m \in refreshes
      BY <2>1
    <2>6. \A m, s \in refreshes' : m.tab = s.tab /\ m.load = s.load /\ m.pair = s.pair => m = s
      BY <2>1 DEF UsedInv
    <2>7. \A m \in refreshes' : m.heard /\ m.st # "granted" => spentBy'[m.pair] # <<m.tab, m.load>>
      BY <2>1, <2>2 DEF UsedInv
    <2> QED
      BY <2>2, <2>3, <2>4, <2>5, <2>6, <2>7, <1>a DEF UsedInv, HeldInv
  <1>4. ASSUME NEW r \in refreshes, CommitRefresh(r)
        PROVE  HeardInv' /\ UsedInv'
    <2>1. PICK p \in Pair : /\ session[p] = "unused"
                            /\ refreshes' = Answer(r, [r EXCEPT !.st = "granted", !.new = p])
      BY <1>4 DEF CommitRefresh, RotateTo, IsNext
    <2>2. PICK n : /\ refreshes' \in {(refreshes \ {r}) \cup {n}, refreshes \ {r}}
                   /\ n.tab = r.tab /\ n.load = r.load /\ n.pair = r.pair /\ n.heard = r.heard
                   /\ n.st = "granted" /\ n.new = p
                   /\ n.heard \/ refreshes' = refreshes \ {r}
      <3> DEFINE c == [r EXCEPT !.st = "granted", !.new = p]
      <3>1. /\ c.tab = r.tab /\ c.load = r.load /\ c.pair = r.pair
            /\ c.heard = r.heard /\ c.st = "granted" /\ c.new = p
        BY <1>a, RefreshFields
      <3>2. /\ refreshes' \in {(refreshes \ {r}) \cup {c}, refreshes \ {r}}
            /\ c.heard \/ refreshes' = refreshes \ {r}
        BY <2>1, <3>1 DEF Answer
      <3> HIDE DEF c
      <3> QED
        BY <3>1, <3>2
    <2>3. /\ spentBy' = [spentBy EXCEPT ![r.pair] = <<r.tab, r.load>>]
          /\ UNCHANGED <<store, refreshing, load>> /\ r.st = "checked"
      BY <1>4 DEF CommitRefresh
    <2>4. /\ spentBy'[r.pair] = <<r.tab, r.load>>
          /\ \A q \in Pair : q # r.pair => spentBy'[q] = spentBy[q]
      BY <2>3, <1>a DEF TabTypeOK
    <2>5. HeardInv'
      BY <2>2, <2>3, <1>a DEF HeardInv
    <2>6. \A s \in Tab, q \in Pair : Used(s, q)' => Used(s, q)
      <3> SUFFICES ASSUME NEW s \in Tab, NEW q \in Pair, Used(s, q)'
                   PROVE  Used(s, q)
        OBVIOUS
      <3>1. CASE \E m \in refreshes' : m.tab = s /\ m.load = load[s] /\ m.pair = q
        BY <3>1, <2>2, <2>3 DEF Used
      <3>2. CASE spentBy'[q] = <<s, load[s]>>
        BY <3>2, <2>4 DEF Used
      <3> QED
        BY <3>1, <3>2, <2>3 DEF Used
    <2>7. \A q \in Pair : spentBy'[q] # Nobody => spentBy'[q][2] <= load[spentBy'[q][1]]
      BY <2>4, <1>a DEF UsedInv, HeardInv
    <2>8. \A m \in refreshes' : m.st = "granted" => ~Used(m.tab, m.new)'
      BY <2>1, <2>2, <2>6, <1>a, FreshIsUnused DEF UsedInv, HeldInv
    <2>9. \A m, s \in refreshes' : m.tab = s.tab /\ m.load = s.load /\ m.pair = s.pair => m = s
      BY <2>2 DEF UsedInv
    <2>10. \A m \in refreshes' : m.heard /\ m.st # "granted" => spentBy'[m.pair] # <<m.tab, m.load>>
      BY <2>2, <2>4, <1>a DEF UsedInv
    <2> QED
      BY <2>3, <2>5, <2>6, <2>7, <2>8, <2>9, <2>10, <1>a DEF UsedInv
  <1>5. ASSUME NEW r \in refreshes, RefreshGranted(r)
        PROVE  HeardInv' /\ UsedInv'
    <2>1. /\ store' = [store EXCEPT ![r.tab] = r.new]
          /\ refreshing' = [refreshing EXCEPT ![r.tab] = FALSE]
          /\ refreshes' = refreshes \ {r}
          /\ UNCHANGED <<load, spentBy>> /\ r.st = "granted"
      BY <1>5 DEF RefreshGranted, SetTokens
    <2>2. r.heard /\ r.new \in Pair /\ ~Used(r.tab, r.new)
      BY <2>1 DEF HeardInv, HeldInv, UsedInv
    <2>3. HeardInv'
      BY <2>1, <2>2, <1>a DEF HeardInv, TabTypeOK
    <2>4. \A s \in Tab, p \in Pair : Used(s, p)' => Used(s, p)
      BY <2>1 DEF Used
    <2>5. \A s \in Tab : store'[s] # NoPair /\ ~refreshing'[s] => ~Used(s, store[s])'
      BY <2>1, <2>2, <2>4, <1>a DEF UsedInv, TabTypeOK
    <2> QED
      BY <2>1, <2>3, <2>4, <2>5, <1>a DEF UsedInv, HeldInv
  <1>6. ASSUME NEW r \in refreshes, RefreshRefused(r) \/ RefreshLost(r)
        PROVE  HeardInv' /\ UsedInv'
    <2>1. /\ store' = [store EXCEPT ![r.tab] = NoPair]
          /\ refreshing' = [refreshing EXCEPT ![r.tab] = FALSE]
          /\ UNCHANGED <<load, spentBy>> /\ r.heard
      BY <1>6 DEF RefreshRefused, RefreshLost, SignedOutByRefresh, ClearTokens, SetTokens, HeardInv
    <2>2. PICK n : /\ refreshes' \in {(refreshes \ {r}) \cup {n}, refreshes \ {r}}
                   /\ n.tab = r.tab /\ n.load = r.load /\ n.pair = r.pair /\ ~n.heard
                   /\ n.st \in {"sent", "checked"} \/ refreshes' = refreshes \ {r}
      <3> DEFINE c == [r EXCEPT !.heard = FALSE]
      <3>1. c.tab = r.tab /\ c.load = r.load /\ c.pair = r.pair /\ ~c.heard /\ c.st = r.st
        BY <1>a, RefreshFields
      <3>2. /\ refreshes' \in {(refreshes \ {r}) \cup {c}, refreshes \ {r}}
            /\ r.st \in {"sent", "checked"} \/ refreshes' = refreshes \ {r}
        BY <1>6 DEF RefreshRefused, RefreshLost
      <3> HIDE DEF c
      <3> QED
        BY <3>1, <3>2
    <2>3. HeardInv'
      BY <2>1, <2>2, <1>a DEF HeardInv, TabTypeOK
    <2>4. \A s \in Tab, p \in Pair : Used(s, p)' => Used(s, p)
      BY <2>1, <2>2 DEF Used
    <2>5. \A s \in Tab : store'[s] # NoPair /\ ~refreshing'[s] => ~Used(s, store[s])'
      BY <2>1, <2>4, <1>a DEF UsedInv, TabTypeOK
    <2>6. \A m \in refreshes' : m.st = "granted" => m \in refreshes
      BY <2>2
    <2>7. \A m, s \in refreshes' : m.tab = s.tab /\ m.load = s.load /\ m.pair = s.pair => m = s
      BY <2>2 DEF UsedInv
    <2>8. \A m \in refreshes' : m.heard /\ m.st # "granted" => spentBy'[m.pair] # <<m.tab, m.load>>
      BY <2>1, <2>2 DEF UsedInv
    <2> QED
      BY <2>1, <2>3, <2>4, <2>5, <2>6, <2>7, <2>8, <1>a DEF UsedInv, HeldInv
  <1>7. ASSUME NEW t \in Tab, NEW p \in Pair \cup {NoPair}, store' = [store EXCEPT ![t] = p],
               p # NoPair => session[p] = "unused",
               UNCHANGED <<refreshing, refreshes, load, spentBy>>
        PROVE  HeardInv' /\ UsedInv'
    <2>1. \A s \in Tab : store'[s] # NoPair /\ ~refreshing'[s] => ~Used(s, store[s])'
      BY <1>7, <1>a, FreshIsUnused DEF UsedInv, TabTypeOK, Used
    <2> QED
      BY <1>7, <2>1 DEF HeardInv, UsedInv, Used
  <1>8. ASSUME NEW t \in Tab, Logout(t) \/ ClearExpired(t)
        PROVE  HeardInv' /\ UsedInv'
    <2>1. store' = [store EXCEPT ![t] = NoPair] /\ UNCHANGED <<refreshing, refreshes, load, spentBy>>
      BY <1>8 DEF Logout, ClearExpired, ClearTokens, SetTokens
    <2> QED
      BY <1>7, <2>1
  <1>9. ASSUME NEW t \in Tab, SignedIn(t)
        PROVE  HeardInv' /\ UsedInv'
    <2>1. PICK p \in Pair : session[p] = "unused" /\ store' = [store EXCEPT ![t] = p]
      BY <1>9 DEF SignedIn, SignIn, IsNext, SetTokens
    <2> QED
      BY <1>7, <1>9, <2>1 DEF SignedIn
  <1>10. ASSUME NEW t \in Tab, NEW v \in Verifying \cup {NoUser}, LoadPage(t, v)
         PROVE  HeardInv' /\ UsedInv'
    <2> DEFINE p == disk
    <2>a. store' = [store EXCEPT ![t] = p]
      BY <1>10 DEF LoadPage
    <2>1. /\ load' = [load EXCEPT ![t] = @ + 1]
          /\ refreshing' = [refreshing EXCEPT ![t] = FALSE]
          /\ UNCHANGED spentBy
      BY <1>10 DEF LoadPage
    <2>2. \A m \in refreshes' : \E r \in refreshes :
               /\ m.tab = r.tab /\ m.load = r.load /\ m.pair = r.pair
               /\ m.st = r.st /\ m.new = r.new
               /\ m.heard <=> (r.heard /\ r.tab # t)
               /\ m = Loaded(r, t)
               /\ r.tab # t \/ r.st \in {"sent", "checked"}
      BY <1>10, LoadedRefreshes
    <2>3. load'[t] = load[t] + 1 /\ \A s \in Tab : s # t => load'[s] = load[s]
      BY <2>1 DEF TabTypeOK
    <2>4. \A m \in refreshes' :
              /\ m.load <= load'[m.tab]
              /\ m.heard => m.load = load'[m.tab] /\ refreshing'[m.tab]
              /\ m.st \in {"granted", "refused"} => m.heard
      <3> SUFFICES ASSUME NEW m \in refreshes'
                   PROVE  /\ m.load <= load'[m.tab]
                          /\ m.heard => m.load = load'[m.tab] /\ refreshing'[m.tab]
                          /\ m.st \in {"granted", "refused"} => m.heard
        OBVIOUS
      <3>1. PICK r \in refreshes :
               /\ m.tab = r.tab /\ m.load = r.load /\ m.pair = r.pair /\ m.st = r.st
               /\ m.heard <=> (r.heard /\ r.tab # t)
               /\ r.tab # t \/ r.st \in {"sent", "checked"}
        BY <2>2
      <3>2. /\ r.load <= load[r.tab]
            /\ r.heard => r.load = load[r.tab] /\ refreshing[r.tab]
            /\ r.st \in {"granted", "refused"} => r.heard
        BY DEF HeardInv
      <3>3. CASE r.tab = t
        BY <3>1, <3>2, <3>3, <2>3, <1>a
      <3>4. CASE r.tab # t
        <4>1. load'[r.tab] = load[r.tab] /\ refreshing'[r.tab] = refreshing[r.tab]
          BY <3>4, <2>1, <2>3, <1>a DEF TabTypeOK
        <4>2. m.heard <=> r.heard
          BY <3>1, <3>4
        <4> QED
          BY <3>1, <3>2, <4>1, <4>2
      <3> QED
        BY <3>3, <3>4
    <2>5. HeardInv'
      <3> SUFFICES ASSUME NEW m \in refreshes', NEW s \in refreshes',
                          m.heard, s.heard, m.tab = s.tab
                   PROVE  m = s
        BY <2>4 DEF HeardInv
      <3>1. PICK q \in refreshes : m.tab = q.tab /\ (m.heard <=> (q.heard /\ q.tab # t))
                                   /\ m = Loaded(q, t)
        BY <2>2
      <3>2. PICK r \in refreshes : s.tab = r.tab /\ (s.heard <=> (r.heard /\ r.tab # t))
                                   /\ s = Loaded(r, t)
        BY <2>2
      <3>3. q.heard /\ r.heard /\ q.tab = r.tab
        BY <3>1, <3>2
      <3>4. q = r
        BY <3>3 DEF HeardInv
      <3> QED
        BY <3>1, <3>2, <3>4
    <2>6. \A q \in Pair : spentBy[q] # Nobody =>
              /\ spentBy[q] = <<spentBy[q][1], spentBy[q][2]>>
              /\ spentBy[q][1] \in Tab /\ spentBy[q][2] \in Nat
              /\ spentBy[q][2] <= load[spentBy[q][1]]
      BY DEF UsedInv, TabTypeOK
    <2>7. \A q \in Pair : ~Used(t, q)'
      <3> SUFFICES ASSUME NEW q \in Pair, Used(t, q)'
                   PROVE  FALSE
        OBVIOUS
      <3>1. CASE \E m \in refreshes' : m.tab = t /\ m.load = load'[t] /\ m.pair = q
        BY <3>1, <2>2, <2>3, <1>a DEF HeardInv
      <3>2. CASE spentBy[q] = <<t, load'[t]>>
        <4>1. spentBy[q] # Nobody /\ spentBy[q][1] = t /\ spentBy[q][2] = load'[t]
          BY <3>2 DEF Nobody
        <4> QED
          BY <4>1, <2>3, <2>6, <1>a
      <3> QED
        BY <3>1, <3>2, <2>1 DEF Used
    <2>8. \A s \in Tab, q \in Pair : s # t /\ Used(s, q)' => Used(s, q)
      BY <2>1, <2>2, <2>3 DEF Used
    <2>9. \A s \in Tab : store'[s] # NoPair /\ ~refreshing'[s] => ~Used(s, store[s])'
      <3> SUFFICES ASSUME NEW s \in Tab, store'[s] # NoPair, ~refreshing'[s]
                   PROVE  ~Used(s, store[s])'
        OBVIOUS
      <3>1. CASE s = t
        <4>1. \A r \in refreshes : r.tab = t => r.load # load'[t]
          BY <2>3, <1>a DEF HeardInv
        <4>2. \A m \in refreshes' : m.tab = t => m.load # load'[t]
          BY <4>1, <2>2
        <4>3. store'[t] \in Pair => ~Used(t, store[t])'
          BY <2>7
        <4> QED
          BY <3>1, <4>3, TabTypeKept DEF TabTypeOK
      <3>2. CASE s # t
        BY <3>2, <2>a, <2>1, <2>8, <1>a DEF UsedInv, TabTypeOK
      <3> QED
        BY <3>1, <3>2
    <2>10. \A q \in Pair : spentBy'[q] # Nobody => spentBy'[q][2] <= load'[spentBy'[q][1]]
      BY <2>1, <2>3, <2>6, <1>a
    <2>11. \A m \in refreshes' : m.st = "granted" => ~Used(m.tab, m.new)'
      BY <2>2, <2>8, <1>a DEF UsedInv, HeldInv
    <2>12. \A m, s \in refreshes' : m.tab = s.tab /\ m.load = s.load /\ m.pair = s.pair => m = s
      BY <2>2 DEF UsedInv
    <2>13. \A m \in refreshes' : m.heard /\ m.st # "granted" => spentBy'[m.pair] # <<m.tab, m.load>>
      <3> SUFFICES ASSUME NEW m \in refreshes', m.heard, m.st # "granted"
                   PROVE  spentBy[m.pair] # <<m.tab, m.load>>
        BY <2>1
      <3>1. PICK r \in refreshes : /\ m.tab = r.tab /\ m.load = r.load /\ m.pair = r.pair
                                   /\ m.st = r.st /\ (m.heard <=> (r.heard /\ r.tab # t))
        BY <2>2
      <3> QED
        BY <3>1 DEF UsedInv
    <2> QED
      BY <2>5, <2>9, <2>10, <2>11, <2>12, <2>13 DEF UsedInv
  <1>11. ASSUME NEW t \in Tab, NEW u \in Verifying, FollowVerifyLink(t, u)
         PROVE  HeardInv' /\ UsedInv'
    BY <1>10, <1>11 DEF FollowVerifyLink
  <1>12. ASSUME NEW t \in Tab, Reload(t)
         PROVE  HeardInv' /\ UsedInv'
    BY <1>10, <1>12 DEF Reload
  <1>13. ASSUME NEW t \in Tab, NEW k \in Key, Fetch(t, k) \/ ReceiveData(t, k) \/ LoseCall(t, k)
                                              \/ GiveUp(t, k) \/ JoinRefresh(t, k)
         PROVE  HeardInv' /\ UsedInv'
    BY <1>1, <1>13 DEF Fetch, ReceiveData, LoseCall, GiveUp, JoinRefresh
  <1>14. ASSUME NEW t \in Tab, NEW u \in User, SubmitForm(t, u)
         PROVE  HeardInv' /\ UsedInv'
    BY <1>1, <1>14 DEF SubmitForm
  <1>15. ASSUME NEW t \in Tab, SignInFails(t)
         PROVE  HeardInv' /\ UsedInv'
    BY <1>1, <1>15 DEF SignInFails
  <1>16. CASE ServerStep \/ UNCHANGED vars
    BY <1>1, <1>16 DEF ServerStep, vars, tabVars
  <1>17. ASSUME NEW t \in Tab, NEW u \in Verifying, VerifyInPlace(t, u)
         PROVE  HeardInv' /\ UsedInv'
    BY <1>1, <1>17 DEF VerifyInPlace
  <1>18. ASSUME NEW t \in Tab, VerifyFails(t)
         PROVE  HeardInv' /\ UsedInv'
    BY <1>1, <1>18 DEF VerifyFails
  <1>19. ASSUME NEW t \in Tab, Verified(t)
         PROVE  HeardInv' /\ UsedInv'
    <2>1. PICK p \in Pair : session[p] = "unused" /\ store' = [store EXCEPT ![t] = p]
      BY <1>19 DEF Verified, SignIn, IsNext, SetTokens
    <2> QED
      BY <1>7, <1>19, <2>1 DEF Verified
  <1> QED
    BY <1>2, <1>3, <1>4, <1>5, <1>6, <1>8, <1>9, <1>11, <1>12, <1>13, <1>14, <1>15, <1>16,
       <1>17, <1>18, <1>19
       DEF Next, CallStep, RefreshStep, PageStep
-----------------------------------------------------------------------------
(* A tab acts for one account.                                             *)

\* A step that leaves every tab but t alone need only be looked at in t.
LEMMA OtherTabs ==
    ASSUME BrowserInv, MintedStays, NEW t \in Tab,
           \A s \in Tab \ {t} : /\ store'[s] = store[s] /\ cache'[s] = cache[s]
                                /\ call'[s] = call[s] /\ (s \in mixed => s \in mixed'),
           OneAccount(t)'
    PROVE  AccountInv'
  <1> SUFFICES ASSUME NEW s \in Tab \ {t}
               PROVE  OneAccount(s)'
    BY DEF AccountInv
  <1>1. /\ store'[s] = store[s] /\ cache'[s] = cache[s] /\ call'[s] = call[s]
        /\ s \in mixed => s \in mixed'
    OBVIOUS
  <1>2. store[s] # NoPair => owner'[store[s]] = owner[store[s]]
    BY DEF BrowserInv, HeldInv, MintedStays, TabTypeOK
  <1>3. OneAccount(s)
    BY DEF BrowserInv, AccountInv
  <1> QED
    BY <1>1, <1>2, <1>3 DEF OneAccount

\* Every step keeps all that a tab shows, stores and awaits on one account.
LEMMA AccountKept ==
    ASSUME BrowserInv, [Next]_vars
    PROVE  AccountInv'
  <1>a. MintedStays /\ TabTypeOK /\ ServerTypeOK /\ HeldInv /\ NoPair \notin Pair
    BY ServerKept, NotChangingIsNoSet DEF BrowserInv, ServerInv
  <1>b. \A t \in Tab : OneAccount(t)
    BY DEF BrowserInv, AccountInv
  <1>c. \A t \in Tab : store[t] # NoPair => owner'[store[t]] = owner[store[t]]
    BY <1>a DEF HeldInv, MintedStays, TabTypeOK
  <1>1. ASSUME UNCHANGED <<store, cache, mixed>>,
               \A t \in Tab, k \in Key : call'[t][k].st = "ok" => call'[t][k] = call[t][k]
        PROVE  AccountInv'
    <2> SUFFICES ASSUME NEW t \in Tab
                 PROVE  OneAccount(t)'
      BY DEF AccountInv
    <2> QED
      BY <1>1, <1>b, <1>c DEF OneAccount
  <1>2. CASE UNCHANGED <<store, cache, call, mixed>>
    BY <1>1, <1>2
  <1>3. ASSUME NEW t \in Tab, NEW k \in Key, NEW c, SetCall(t, k, c), c.st # "ok",
               UNCHANGED <<store, cache, mixed>>
        PROVE  AccountInv'
    <2>1. \A s \in Tab, i \in Key : call'[s][i].st = "ok" => call'[s][i] = call[s][i]
      BY <1>3, <1>a DEF SetCall, TabTypeOK
    <2> QED
      BY <1>1, <1>3, <2>1
  <1>4. ASSUME NEW t \in Tab, NEW k \in Key,
               LoseCall(t, k) \/ GiveUp(t, k) \/ JoinRefresh(t, k) \/ StartRefresh(t, k)
        PROVE  AccountInv'
    <2>1. CASE LoseCall(t, k) \/ GiveUp(t, k)
      <3>1. SetCall(t, k, NoCall) /\ UNCHANGED <<store, cache, mixed>>
        BY <2>1 DEF LoseCall, GiveUp
      <3> QED
        BY <1>3, <3>1, CallFields
    <2>2. CASE JoinRefresh(t, k) \/ StartRefresh(t, k)
      <3> DEFINE c == [call[t][k] EXCEPT !.st = "waiting"]
      <3>1. /\ call[t][k].st = "unauth" /\ SetCall(t, k, c)
            /\ UNCHANGED <<store, cache, mixed>>
        BY <2>2 DEF JoinRefresh, StartRefresh
      <3>2. call[t][k] \in Call
        BY <1>a, <3>1, CallFields DEF TabTypeOK
      <3>3. c.st = "waiting"
        BY <3>2 DEF Call
      <3> HIDE DEF c
      <3> QED
        BY <1>3, <3>1, <3>3
    <2> QED
      BY <1>4, <2>1, <2>2
  <1>5. ASSUME NEW t \in Tab, NEW k \in Key, Fetch(t, k)
        PROVE  AccountInv'
    <2> DEFINE c == Sent(store[t], FALSE, TRUE)
    <2>1. /\ store[t] # NoPair /\ call' = [call EXCEPT ![t][k] = c]
          /\ UNCHANGED <<serverVars, store, cache, mixed>>
      BY <1>5 DEF Fetch, SetCall
    <2>2. c.st = "ok" => c.from = owner[store[t]]
      BY <1>a, SentType DEF TabTypeOK
    <2>3. owner' = owner
      BY <2>1 DEF serverVars
    <2> HIDE DEF c
    <2>4. \A s \in Tab \ {t} : call'[s] = call[s]
      BY <2>1, <1>a DEF TabTypeOK
    <2>5. \A i \in Key : call'[t][i] = IF i = k THEN c ELSE call[t][i]
      BY <2>1, <1>a DEF TabTypeOK
    <2>6. OneAccount(t)'
      BY <2>1, <2>2, <2>3, <2>5, <1>b DEF OneAccount
    <2> QED
      BY <2>1, <2>4, <2>6, <1>a, OtherTabs
  <1>6. ASSUME NEW t \in Tab, NEW k \in Key, ReceiveData(t, k)
        PROVE  AccountInv'
    <2>1. /\ call[t][k].st = "ok"
          /\ cache' = [cache EXCEPT ![t][k] = call[t][k].from]
          /\ call' = [call EXCEPT ![t][k] = NoCall]
          /\ UNCHANGED <<serverVars, store, mixed>>
      BY <1>6 DEF ReceiveData, SetCall
    <2>2. \A s \in Tab \ {t} : call'[s] = call[s] /\ cache'[s] = cache[s]
      BY <2>1, <1>a DEF TabTypeOK
    <2>3. \A i \in Key : /\ cache'[t][i] = IF i = k THEN call[t][k].from ELSE cache[t][i]
                         /\ call'[t][i].st = "ok" => call'[t][i] = call[t][i]
      BY <2>1, <1>a, CallFields DEF TabTypeOK
    <2>4. OneAccount(t)'
      BY <2>1, <2>3, <1>b DEF OneAccount, serverVars
    <2> QED
      BY <2>1, <2>2, <2>4, <1>a, OtherTabs
  <1>7. ASSUME NEW r \in refreshes, CheckRefresh(r) \/ CommitRefresh(r)
        PROVE  AccountInv'
    BY <1>2, <1>7 DEF CheckRefresh, CommitRefresh
  <1>8. ASSUME NEW r \in refreshes, RefreshGranted(r)
        PROVE  AccountInv'
    <2> DEFINE t == r.tab
    <2>1. /\ store' = [store EXCEPT ![t] = r.new]
          /\ call' = [call EXCEPT ![t] = Resent(t, r.new)]
          /\ mixed' = (IF Overtaken(r) THEN mixed \cup {t} ELSE mixed)
          /\ r.st = "granted"
          /\ UNCHANGED <<serverVars, cache>>
      BY <1>8 DEF RefreshGranted, SetTokens
    <2>2. /\ t \in Tab /\ r.pair \in Pair /\ r.new \in Pair
          /\ owner[r.new] = owner[r.pair] /\ owner' = owner
      BY <1>a, <2>1, RefreshType DEF HeldInv, TabTypeOK, serverVars
    <2>3. \A k \in Key : Resent(t, r.new)[k].st = "ok" =>
              Resent(t, r.new)[k] = call[t][k] \/ Resent(t, r.new)[k].from = owner[r.new]
      <3>1. call \in [Tab -> Calls] /\ t \in Tab /\ r.new \in Pair /\ ServerTypeOK
        BY <1>a, <2>2 DEF TabTypeOK, Calls
      <3> HIDE DEF t
      <3> QED
        BY <3>1, ResentType
    <2>4. /\ store'[t] = r.new /\ call'[t] = Resent(t, r.new)
          /\ \A s \in Tab \ {t} : /\ store'[s] = store[s] /\ call'[s] = call[s]
                                   /\ s \in mixed => s \in mixed'
      BY <2>1, <2>2, <1>a DEF TabTypeOK
    <2>5. OneAccount(t)'
      <3>1. CASE Overtaken(r)
        BY <3>1, <2>1 DEF OneAccount
      <3>2. CASE ~Overtaken(r) /\ store[t] = r.pair
        <4>1. t \notin mixed' => t \notin mixed /\ store[t] # NoPair
          BY <3>2, <2>1, <2>2, <1>a
        <4>2. OneAccount(t)
          BY <1>b, <2>2
        <4> QED
          BY <3>2, <4>1, <4>2, <2>1, <2>2, <2>3, <2>4 DEF OneAccount
      <3>3. CASE ~Overtaken(r) /\ store[t] # r.pair
        <4>1. DataOf(t) \subseteq {NoUser, owner[r.new]}
          BY <3>3 DEF Overtaken, HasOthers
        <4>2. \A k \in Key : /\ cache[t][k] \in {NoUser, owner[r.new]}
                             /\ call[t][k].st = "ok" => call[t][k].from \in {NoUser, owner[r.new]}
          BY <4>1 DEF DataOf
        <4> QED
          BY <4>2, <2>1, <2>2, <2>3, <2>4 DEF OneAccount
      <3> QED
        BY <3>1, <3>2, <3>3
    <2> QED
      BY <2>1, <2>2, <2>4, <2>5, <1>a, OtherTabs
  <1>9. ASSUME NEW t \in Tab, store' = [store EXCEPT ![t] = NoPair],
               \A s \in Tab \ {t} : /\ cache'[s] = cache[s] /\ call'[s] = call[s]
                                    /\ s \in mixed => s \in mixed'
        PROVE  AccountInv'
    <2>1. store'[t] = NoPair /\ \A s \in Tab \ {t} : store'[s] = store[s]
      BY <1>9, <1>a DEF TabTypeOK
    <2>2. OneAccount(t)'
      BY <2>1 DEF OneAccount
    <2> QED
      BY <1>9, <2>1, <2>2, <1>a, OtherTabs
  <1>10. ASSUME NEW r \in refreshes, RefreshRefused(r) \/ RefreshLost(r)
         PROVE  AccountInv'
    <2>1. SignedOutByRefresh(r.tab) /\ r.tab \in Tab
      BY <1>10, <1>a, RefreshType DEF RefreshRefused, RefreshLost, TabTypeOK
    <2> QED
      BY <1>9, <2>1, <1>a DEF SignedOutByRefresh, ClearTokens, SetTokens, TabTypeOK
  <1>11. ASSUME NEW t \in Tab, Logout(t) \/ ClearExpired(t)
         PROVE  AccountInv'
    BY <1>9, <1>11, <1>a DEF Logout, ClearExpired, ClearTokens, SetTokens, TabTypeOK
  <1>12. ASSUME NEW t \in Tab, NEW p, store' = [store EXCEPT ![t] = p],
                cache' = [cache EXCEPT ![t] = EmptyCache], mixed' = mixed \ {t},
                NEW c, call' = [call EXCEPT ![t] = c], \A k \in Key : c[k].st # "ok"
         PROVE  AccountInv'
    <2>1. /\ store'[t] = p /\ cache'[t] = EmptyCache /\ call'[t] = c
          /\ \A s \in Tab \ {t} : /\ store'[s] = store[s] /\ cache'[s] = cache[s]
                                   /\ call'[s] = call[s] /\ (s \in mixed => s \in mixed')
      BY <1>12, <1>a DEF TabTypeOK
    <2>2. OneAccount(t)'
      BY <1>12, <2>1 DEF OneAccount, EmptyCache
    <2> QED
      BY <2>1, <2>2, <1>a, OtherTabs
  <1>13. ASSUME NEW t \in Tab, SignedIn(t)
         PROVE  AccountInv'
    <2>1. PICK p : store' = [store EXCEPT ![t] = p]
      BY <1>13 DEF SignedIn, SetTokens
    <2>2. /\ cache' = [cache EXCEPT ![t] = EmptyCache] /\ mixed' = mixed \ {t}
          /\ call' = [call EXCEPT ![t] = Unwanted(call[t])]
      BY <1>13 DEF SignedIn
    <2>3. \A k \in Key : Unwanted(call[t])[k].st # "ok"
      BY <1>a, UnwantedType DEF TabTypeOK, Calls
    <2> QED
      BY <1>12, <2>1, <2>2, <2>3
  <1>14. ASSUME NEW t \in Tab, NEW v, LoadPage(t, v)
         PROVE  AccountInv'
    <2> DEFINE c == [k \in Key |-> NoCall]
    <2>1. /\ cache' = [cache EXCEPT ![t] = EmptyCache] /\ mixed' = mixed \ {t}
          /\ call' = [call EXCEPT ![t] = c] /\ store' = [store EXCEPT ![t] = disk]
      BY <1>14 DEF LoadPage
    <2>2. \A k \in Key : c[k].st # "ok"
      BY CallFields
    <2> HIDE DEF c
    <2> QED
      BY <1>12, <2>1, <2>2
  <1>15. ASSUME NEW t \in Tab, NEW u \in Verifying, FollowVerifyLink(t, u)
         PROVE  AccountInv'
    BY <1>14, <1>15 DEF FollowVerifyLink
  <1>16. ASSUME NEW t \in Tab, Reload(t)
         PROVE  AccountInv'
    BY <1>14, <1>16 DEF Reload
  <1>17. ASSUME NEW t \in Tab, NEW u \in User, SubmitForm(t, u)
         PROVE  AccountInv'
    BY <1>2, <1>17 DEF SubmitForm
  <1>18. ASSUME NEW t \in Tab, SignInFails(t)
         PROVE  AccountInv'
    BY <1>2, <1>18 DEF SignInFails
  <1>19. CASE ServerStep \/ UNCHANGED vars
    BY <1>2, <1>19 DEF ServerStep, vars, tabVars
  <1>20. ASSUME NEW t \in Tab, NEW u \in Verifying, VerifyInPlace(t, u)
         PROVE  AccountInv'
    BY <1>2, <1>20 DEF VerifyInPlace
  <1>21. ASSUME NEW t \in Tab, VerifyFails(t)
         PROVE  AccountInv'
    BY <1>2, <1>21 DEF VerifyFails
  <1>22. ASSUME NEW t \in Tab, Verified(t)
         PROVE  AccountInv'
    <2> DEFINE u == verifying[t]
    <2>1. u \in User /\ password[u] \in 0..MaxChanges
      BY <1>22, <1>a, BrowserAssumption DEF Verified, TabTypeOK, ServerTypeOK
    <2>2. PICK p \in Pair : SignIn(u, password[u], p) /\ SetTokens(t, p)
      BY <1>22 DEF Verified
    <2>3. owner'[p] = u /\ store' = [store EXCEPT ![t] = p]
      BY <2>1, <2>2, SignInKeeps DEF SetTokens, BrowserInv
    <2>4. /\ mixed' = (IF HasOthers(t, u) THEN mixed \cup {t} ELSE mixed)
          /\ UNCHANGED <<cache, call>>
      BY <1>22 DEF Verified
    <2> HIDE DEF u
    <2>5. store'[t] = p /\ \A s \in Tab \ {t} : store'[s] = store[s] /\ (s \in mixed => s \in mixed')
      BY <2>3, <2>4, <1>a DEF TabTypeOK
    <2>6. OneAccount(t)'
      <3>1. CASE HasOthers(t, u)
        BY <3>1, <2>4 DEF OneAccount
      <3>2. CASE ~HasOthers(t, u)
        <4>1. \A k \in Key : /\ cache[t][k] \in {NoUser, u}
                             /\ call[t][k].st = "ok" => call[t][k].from \in {NoUser, u}
          BY <3>2 DEF HasOthers, DataOf
        <4> QED
          BY <4>1, <2>3, <2>4, <2>5 DEF OneAccount
      <3> QED
        BY <3>1, <3>2
    <2> QED
      BY <2>4, <2>5, <2>6, <1>a, OtherTabs
  <1> QED
    BY <1>4, <1>5, <1>6, <1>7, <1>8, <1>10, <1>11, <1>13, <1>15, <1>16, <1>17, <1>18, <1>19,
       <1>20, <1>21, <1>22
       DEF Next, CallStep, RefreshStep, PageStep

-----------------------------------------------------------------------------
(* The theorems.                                                           *)

\* The invariant holds when the pages open.
LEMMA BrowserStart == Init => BrowserInv
  <1> SUFFICES ASSUME Init
               PROVE  BrowserInv
    OBVIOUS
  <1>1. ServerInv
    BY ServerStart DEF Init
  <1>2. TabTypeOK
    <2>1. NoForm \in Form
      BY SessionsAssumption DEF NoForm, Form
    <2>2. MaxLoads \in Nat
      BY BrowserAssumption
    <2> QED
      BY <2>1, <2>2 DEF Init, TabTypeOK
  <1>3. WaitersInv /\ AccountInv
    BY CallFields DEF Init, WaitersInv, AccountInv, OneAccount
  <1>4. HeldInv /\ HeardInv /\ UsedInv
    BY DEF Init, HeldInv, HeardInv, UsedInv
  <1> QED
    BY <1>1, <1>2, <1>3, <1>4 DEF BrowserInv

\* The inductive invariant is one.
THEOREM Inductive == Spec => []BrowserInv
  <1>1. BrowserInv /\ [Next]_vars => BrowserInv'
    BY ServerKept, TabTypeKept, HeldKept, UsedKept, AccountKept DEF BrowserInv
  <1> QED
    BY BrowserStart, <1>1, PTL DEF Spec

\* The variables of the server and of the tabs keep their types, and a call
\* waits only where a refresh is awaited.
THEOREM TypeCorrect == Spec => []TypeOK
  <1>1. BrowserInv => TypeOK
    BY DEF BrowserInv, ServerInv, TabTypeOK, WaitersInv, TypeOK
  <1> QED
    BY Inductive, <1>1, PTL

\* The invariant of module Sessions, with every caller of its handlers: a pair
\* that was turned in at /auth/refresh is live no more (auth.py, refresh).
THEOREM RotationAlwaysRevokes == Spec => []RotationRevokes
  <1>1. BrowserInv => RotationRevokes
    BY DEF BrowserInv, ServerInv
  <1> QED
    BY Inductive, <1>1, PTL

\* After a password change no session of before it is live, but for those
\* minted while it was under way (auth.py, change_password, reset_password).
THEOREM OldPasswordCutOff == Spec => []OldPasswordIsCutOff
  <1>1. BrowserInv => OldPasswordIsCutOff
    BY ServerInvImplies DEF BrowserInv
  <1> QED
    BY Inductive, <1>1, PTL

\* A tab never has a refresh refused because it presented the pair before
\* (lib/api.ts, the shared promise).
THEOREM PageNeverRefusesItself == Spec => []NeverRefusesItself
  <1>1. BrowserInv => NeverRefusesItself
    BY DEF BrowserInv, HeardInv, UsedInv, NeverRefusesItself
  <1> QED
    BY Inductive, <1>1, PTL

\* The data a tab shows is of the account whose token it sends, but after a
\* refresh that another account's sign-in has overtaken, or a verification, has
\* stored tokens over another account's data (useLogout.ts, LoginPage, api.ts,
\* VerifyEmailConfirmPage, VerifyEmailPendingPage).
THEOREM OneAccountShown == Spec => []OneAccountPerTab
  <1>1. BrowserInv => OneAccountPerTab
    BY DEF BrowserInv, AccountInv, OneAccount, OneAccountPerTab
  <1> QED
    BY Inductive, <1>1, PTL
=============================================================================
