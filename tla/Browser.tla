------------------------------- MODULE Browser -------------------------------
(***************************************************************************)
(* The tabs of one browser and the sessions they hold: the axios instance  *)
(* of frontend/src/lib/api.ts with its silent refresh, the persisted token *)
(* store of store/auth.ts, the query cache, hooks/useLogout.ts and the     *)
(* sign-in pages, composed with the server's side, module Sessions.        *)
(*                                                                         *)
(* A tab keeps the tokens in memory; the store is written through to       *)
(* localStorage (disk), which a tab reads only when its page is loaded.    *)
(* Every query of a page is a call: it is sent with the token of the       *)
(* moment, and its answer, which the server decides by that token, comes   *)
(* back later, whatever the tab has done meanwhile.  A 401 makes the tab   *)
(* refresh its tokens and send the call once more.  Refreshes outlive the  *)
(* page that sent them: they are messages.                                 *)
(***************************************************************************)
EXTENDS Sessions

CONSTANTS
    Tab,         \* tabs of the browser, sharing one localStorage
    Key,         \* query keys, ["me"] among them
    Verifying,   \* accounts signed up but not verified yet
    MaxLoads     \* bound: page loads per tab

ASSUME BrowserAssumption == Verifying \subseteq User /\ MaxLoads \in Nat

VARIABLES
    store,       \* pair in the memory of each tab
    disk,        \* pair persisted under "rufaqaa.auth"
    cache,       \* account whose data each tab has cached under each key
    call,        \* query under way per tab and key
    refreshing,  \* the module variable of lib/api.ts: a refresh is awaited
    refreshes,   \* /auth/refresh requests under way
    signing,     \* sign-in form submitted in each tab
    verifying,   \* account whose /auth/verify-email call is under way in each tab
    load,        \* number of page loads of each tab
    spentBy,     \* history: the tab and the load whose refresh turned a pair in
    mixed        \* history: tabs whose tokens were replaced, by a refresh that came
                 \* late or by a verification, under the data of another account

tabVars == <<store, disk, cache, call, refreshing, refreshes, signing, verifying,
             load, spentBy, mixed>>
vars == <<serverVars, tabVars>>

NoCall == [st |-> "idle"]
Call == [st : {"ok", "unauth", "waiting"}, from : User \cup {NoUser},
         retried : BOOLEAN, wanted : BOOLEAN]
Refresh == [tab : Tab, load : 0..MaxLoads, pair : Pair, seen : 0..MaxChanges,
            st : {"sent", "checked", "granted", "refused"}, new : Pair \cup {NoPair},
            heard : BOOLEAN]
NoForm == [user |-> NoUser, seen |-> 0]
Form == [user : User \cup {NoUser}, seen : 0..MaxChanges]
Nobody == <<>>

TypeOK ==
    /\ ServerTypeOK
    /\ store \in [Tab -> Pair \cup {NoPair}]
    /\ disk \in Pair \cup {NoPair}
    /\ cache \in [Tab -> [Key -> User \cup {NoUser}]]
    /\ call \in [Tab -> [Key -> Call \cup {NoCall}]]
    /\ refreshing \in [Tab -> BOOLEAN]
    /\ refreshes \in SUBSET Refresh
    /\ signing \in [Tab -> Form]
    /\ verifying \in [Tab -> Verifying \cup {NoUser}]
    /\ load \in [Tab -> 0..MaxLoads]
    /\ spentBy \in [Pair -> (Tab \X (0..MaxLoads)) \cup {Nobody}]
    /\ mixed \in SUBSET Tab
    /\ \A t \in Tab, k \in Key : call[t][k].st = "waiting" => refreshing[t]

Init ==
    /\ ServerInit
    /\ store = [t \in Tab |-> NoPair]
    /\ disk = NoPair
    /\ cache = [t \in Tab |-> [k \in Key |-> NoUser]]
    /\ call = [t \in Tab |-> [k \in Key |-> NoCall]]
    /\ refreshing = [t \in Tab |-> FALSE]
    /\ refreshes = {}
    /\ signing = [t \in Tab |-> NoForm]
    /\ verifying = [t \in Tab |-> NoUser]
    /\ load = [t \in Tab |-> 0]
    /\ spentBy = [p \in Pair |-> Nobody]
    /\ mixed = {}

-----------------------------------------------------------------------------
(* Helpers: the store, the query cache, the calls of a tab.                *)

\* setTokens and clear of the persisted store.
SetTokens(t, p) == store' = [store EXCEPT ![t] = p] /\ disk' = p
ClearTokens(t) == SetTokens(t, NoPair)

\* What the server answers to a call with pair p: the data of its owner, or 401.
\* Tokens expire when they like, so the moment of sending stands for the moment
\* of serving.  Data that nobody wants any more is as good as no call.
Sent(p, again, wants) ==
    IF ~Accepts(p) THEN [st |-> "unauth", from |-> NoUser, retried |-> again, wanted |-> wants]
    ELSE IF wants THEN [st |-> "ok", from |-> owner[p], retried |-> again, wanted |-> TRUE]
    ELSE NoCall

\* queryClient.clear() drops the cached data, and what the queries under way
\* would bring; their requests go on, a 401 still starts a refresh.
EmptyCache == [k \in Key |-> NoUser]

\* mutant: the queries under way are not cancelled
StillWanted(calls) == calls

Unwanted(calls) ==
    [k \in Key |-> IF calls[k].st \in {"idle", "ok"} THEN NoCall
                   ELSE [calls[k] EXCEPT !.wanted = FALSE]]

\* mutant: only those somebody still wants are sent again
ResentIfWanted(t, p) ==
    [k \in Key |-> IF call[t][k].st = "waiting" /\ call[t][k].wanted
                   THEN Sent(p, TRUE, TRUE) ELSE call[t][k]]

\* The calls of t that awaited the refresh are sent again with pair p ...
Resent(t, p) ==
    [k \in Key |-> IF call[t][k].st # "waiting" THEN call[t][k]
                   ELSE Sent(p, TRUE, call[t][k].wanted)]

\* ... or rejected.
Rejected(t) ==
    [k \in Key |-> IF call[t][k].st = "waiting" THEN NoCall ELSE call[t][k]]

SetCall(t, k, c) == call' = [call EXCEPT ![t][k] = c]

-----------------------------------------------------------------------------
(* Calls.                                                                  *)

\* A mounted query fetches: the request interceptor adds the stored token.
Fetch(t, k) ==
    /\ store[t] # NoPair
    /\ call[t][k] = NoCall
    /\ SetCall(t, k, Sent(store[t], FALSE, TRUE))
    /\ UNCHANGED <<serverVars, store, disk, cache, refreshing, refreshes, signing,
                   verifying, load, spentBy, mixed>>

\* The data arrives.
ReceiveData(t, k) ==
    /\ call[t][k].st = "ok"
    /\ cache' = [cache EXCEPT ![t][k] = call[t][k].from]
    /\ SetCall(t, k, NoCall)
    /\ UNCHANGED <<serverVars, store, disk, refreshing, refreshes, signing,
                   verifying, load, spentBy, mixed>>

\* A request or its answer is lost, or the server fails: a toast.
LoseCall(t, k) ==
    /\ call[t][k].st \in {"ok", "unauth"}
    /\ SetCall(t, k, NoCall)
    /\ UNCHANGED <<serverVars, store, disk, cache, refreshing, refreshes, signing,
                   verifying, load, spentBy, mixed>>

\* Bound: a handler that will mint a pair is started only while one is left.
Room ==
    Cardinality({p \in Pair : session[p] = "unused"})
      > Cardinality({r \in refreshes : r.st \in {"sent", "checked"}})
          + Cardinality({t \in Tab : signing[t] # NoForm})
          + Cardinality({t \in Tab : verifying[t] # NoUser})

\* A 401 is final for a call sent again, and for a tab without a token.
GiveUp(t, k) ==
    /\ call[t][k].st = "unauth"
    /\ call[t][k].retried \/ (~refreshing[t] /\ store[t] = NoPair)
    /\ SetCall(t, k, NoCall)
    /\ UNCHANGED <<serverVars, store, disk, cache, refreshing, refreshes, signing,
                   verifying, load, spentBy, mixed>>

\* A 401 while a refresh is awaited: the call awaits it too.
JoinRefresh(t, k) ==
    /\ call[t][k].st = "unauth" /\ ~call[t][k].retried
    /\ refreshing[t]
    /\ SetCall(t, k, [call[t][k] EXCEPT !.st = "waiting"])
    /\ UNCHANGED <<serverVars, store, disk, cache, refreshing, refreshes, signing,
                   verifying, load, spentBy, mixed>>

\* mutant: every 401 starts a refresh
NoneIsShared(t) == TRUE

\* No promise to share.
NoneAwaited(t) == ~refreshing[t]

\* Otherwise the 401 starts performRefresh, with the refresh token of now.
StartRefresh(t, k) ==
    /\ call[t][k].st = "unauth" /\ ~call[t][k].retried
    /\ NoneAwaited(t)
    /\ store[t] # NoPair
    /\ Room
    /\ SetCall(t, k, [call[t][k] EXCEPT !.st = "waiting"])
    /\ refreshing' = [refreshing EXCEPT ![t] = TRUE]
    /\ refreshes' = refreshes \cup
           {[tab |-> t, load |-> load[t], pair |-> store[t], seen |-> 0,
             st |-> "sent", new |-> NoPair, heard |-> TRUE]}
    /\ UNCHANGED <<serverVars, store, disk, cache, signing, verifying, load, spentBy, mixed>>

-----------------------------------------------------------------------------
(* The refresh.                                                            *)

\* A message whose tab no longer listens is gone once it is dealt with.
Answer(r, a) == (refreshes \ {r}) \cup (IF r.heard THEN {a} ELSE {})

\* The handler looks the token up.
CheckRefresh(r) ==
    /\ r.st = "sent"
    /\ \/ /\ Redeem(r.pair)
          /\ refreshes' = (refreshes \ {r}) \cup
                {[r EXCEPT !.st = "checked", !.seen = password[owner[r.pair]]]}
       \/ /\ Refuse(r.pair)
          /\ refreshes' = Answer(r, [r EXCEPT !.st = "refused"])
    /\ UNCHANGED <<store, disk, cache, call, refreshing, signing, verifying, load, spentBy, mixed>>

\* The handler commits.
CommitRefresh(r) ==
    /\ r.st = "checked"
    /\ \E p \in Pair :
         /\ RotateTo(r.pair, r.seen, p)
         /\ refreshes' = Answer(r, [r EXCEPT !.st = "granted", !.new = p])
    /\ spentBy' = [spentBy EXCEPT ![r.pair] = <<r.tab, r.load>>]
    /\ UNCHANGED <<store, disk, cache, call, refreshing, signing, verifying, load, mixed>>

\* The accounts whose data tab t has, or is about to get.
DataOf(t) ==
    {cache[t][k] : k \in Key}
      \cup {call[t][k].from : k \in {i \in Key : call[t][i].st = "ok"}}

\* History: the tab has data of an account other than u.
HasOthers(t, u) == ~(DataOf(t) \subseteq {NoUser, u})

\* History: the tab no longer holds the pair the refresh was sent for, and has
\* another account's data by now.
Overtaken(r) == store[r.tab] # r.pair /\ HasOthers(r.tab, owner[r.new])

\* The tab gets the new pair: the tokens are stored, whoever is signed in by
\* now, and the waiting calls are sent once more.
RefreshGranted(r) ==
    /\ r.st = "granted"
    /\ SetTokens(r.tab, r.new)
    /\ call' = [call EXCEPT ![r.tab] = Resent(r.tab, r.new)]
    /\ refreshing' = [refreshing EXCEPT ![r.tab] = FALSE]
    /\ refreshes' = refreshes \ {r}
    /\ mixed' = IF Overtaken(r) THEN mixed \cup {r.tab} ELSE mixed
    /\ UNCHANGED <<serverVars, cache, signing, verifying, load, spentBy>>

\* mutant: the promise of a failed refresh never settles
NeverSettles(t) ==
    /\ ClearTokens(t)
    /\ UNCHANGED <<serverVars, cache, call, refreshing, signing, verifying, load, spentBy, mixed>>

\* The catch of performRefresh: the store is cleared, the waiting calls fail.
SignedOutByRefresh(t) ==
    /\ ClearTokens(t)
    /\ call' = [call EXCEPT ![t] = Rejected(t)]
    /\ refreshing' = [refreshing EXCEPT ![t] = FALSE]
    /\ UNCHANGED <<serverVars, cache, signing, verifying, load, spentBy, mixed>>

RefreshRefused(r) ==
    /\ r.st = "refused"
    /\ SignedOutByRefresh(r.tab)
    /\ refreshes' = refreshes \ {r}

\* The request is lost, or the connection breaks and the server goes on.
RefreshLost(r) ==
    /\ r.heard
    /\ SignedOutByRefresh(r.tab)
    /\ \/ refreshes' = refreshes \ {r}
       \/ /\ r.st \in {"sent", "checked"}
          /\ refreshes' = (refreshes \ {r}) \cup {[r EXCEPT !.heard = FALSE]}

-----------------------------------------------------------------------------
(* The pages.                                                              *)

\* useLogout: the tokens, then the cache.  No request tells the server.
Logout(t) ==
    /\ store[t] # NoPair
    /\ ClearTokens(t)
    /\ cache' = [cache EXCEPT ![t] = EmptyCache]
    /\ call' = [call EXCEPT ![t] = Unwanted(@)]
    /\ mixed' = mixed \ {t}
    /\ UNCHANGED <<serverVars, refreshing, refreshes, signing, verifying, load, spentBy>>

\* LoginPage: an expired token is dropped, so that the form can be shown.
ClearExpired(t) ==
    /\ store[t] # NoPair /\ store[t] \in stale
    /\ ClearTokens(t)
    /\ UNCHANGED <<serverVars, cache, call, refreshing, refreshes, signing,
                   verifying, load, spentBy, mixed>>

\* An account is pending_verification until verify_email has given it a session.
Active(u) == u \in Verifying => \E p \in Pair : owner[p] = u

\* The form is shown to a tab without a token, and submitted, which comes to
\* nothing for an account that is not active; ...
SubmitForm(t, u) ==
    /\ store[t] = NoPair
    /\ signing[t] = NoForm
    /\ Active(u)
    /\ Room
    /\ signing' = [signing EXCEPT ![t] = [user |-> u, seen |-> password[u]]]
    /\ UNCHANGED <<serverVars, store, disk, cache, call, refreshing, refreshes, verifying,
                   load, spentBy, mixed>>

\* ... the sign-in succeeds: the cache is cleared, the tokens are stored.
SignedIn(t) ==
    /\ signing[t] # NoForm
    /\ \E p \in Pair : SignIn(signing[t].user, signing[t].seen, p) /\ SetTokens(t, p)
    /\ cache' = [cache EXCEPT ![t] = EmptyCache]
    /\ call' = [call EXCEPT ![t] = Unwanted(@)]
    /\ signing' = [signing EXCEPT ![t] = NoForm]
    /\ mixed' = mixed \ {t}
    /\ UNCHANGED <<refreshing, refreshes, verifying, load, spentBy>>

SignInFails(t) ==
    /\ signing[t] # NoForm
    /\ signing' = [signing EXCEPT ![t] = NoForm]
    /\ UNCHANGED <<serverVars, store, disk, cache, call, refreshing, refreshes, verifying,
                   load, spentBy, mixed>>

\* A page load forgets everything but the localStorage; v is the account the
\* page then verifies, if it is the page of the link in the mail.
LoadPage(t, v) ==
    /\ load[t] < MaxLoads
    /\ load' = [load EXCEPT ![t] = @ + 1]
    /\ store' = [store EXCEPT ![t] = disk]
    /\ cache' = [cache EXCEPT ![t] = EmptyCache]
    /\ call' = [call EXCEPT ![t] = [k \in Key |-> NoCall]]
    /\ refreshing' = [refreshing EXCEPT ![t] = FALSE]
    /\ refreshes' = {[r EXCEPT !.heard = @ /\ r.tab # t] :
                        r \in {m \in refreshes : m.tab # t \/ m.st \in {"sent", "checked"}}}
    /\ signing' = [signing EXCEPT ![t] = NoForm]
    /\ verifying' = [verifying EXCEPT ![t] = v]
    /\ mixed' = mixed \ {t}
    /\ UNCHANGED <<serverVars, disk, spentBy>>

Reload(t) == LoadPage(t, NoUser)

\* VerifyEmailConfirmPage, opened from the link in the mail, sends its token as
\* soon as it is shown.
FollowVerifyLink(t, u) == Room /\ LoadPage(t, u)

\* VerifyEmailPendingPage, reached from the sign-up form without a page load, does
\* the same where the server has echoed the token.
VerifyInPlace(t, u) ==
    /\ verifying[t] = NoUser
    /\ Room
    /\ verifying' = [verifying EXCEPT ![t] = u]
    /\ UNCHANGED <<serverVars, store, disk, cache, call, refreshing, refreshes, signing,
                   load, spentBy, mixed>>

\* The verification succeeds, whatever the tab shows by now: the tokens are
\* stored, the cache is kept.
Verified(t) ==
    /\ verifying[t] # NoUser
    /\ \E p \in Pair :
         SignIn(verifying[t], password[verifying[t]], p) /\ SetTokens(t, p)
    /\ verifying' = [verifying EXCEPT ![t] = NoUser]
    /\ mixed' = IF HasOthers(t, verifying[t]) THEN mixed \cup {t} ELSE mixed
    /\ UNCHANGED <<cache, call, refreshing, refreshes, signing, load, spentBy>>

VerifyFails(t) ==
    /\ verifying[t] # NoUser
    /\ verifying' = [verifying EXCEPT ![t] = NoUser]
    /\ UNCHANGED <<serverVars, store, disk, cache, call, refreshing, refreshes, signing,
                   load, spentBy, mixed>>

-----------------------------------------------------------------------------
\* That the access token of a pair expires shows only where a tab holds it.
Held == {store[t] : t \in Tab} \cup {disk}

ServerStep ==
    /\ \/ \E u \in User : ChangeRead(u) \/ ChangeCommit(u)
       \/ \E p \in Held \ {NoPair} : AccessExpires(p)
    /\ UNCHANGED tabVars

CallStep(t, k) ==
    \/ Fetch(t, k) \/ ReceiveData(t, k) \/ LoseCall(t, k)
    \/ GiveUp(t, k) \/ JoinRefresh(t, k) \/ StartRefresh(t, k)

RefreshStep(r) ==
    \/ CheckRefresh(r) \/ CommitRefresh(r)
    \/ RefreshGranted(r) \/ RefreshRefused(r) \/ RefreshLost(r)

PageStep(t) ==
    \/ Logout(t) \/ ClearExpired(t) \/ SignedIn(t) \/ SignInFails(t) \/ Reload(t)
    \/ Verified(t) \/ VerifyFails(t)
    \/ \E u \in User : SubmitForm(t, u)
    \/ \E u \in Verifying : FollowVerifyLink(t, u) \/ VerifyInPlace(t, u)

Next ==
    \/ ServerStep
    \/ \E t \in Tab, k \in Key : CallStep(t, k)
    \/ \E r \in refreshes : RefreshStep(r)
    \/ \E t \in Tab : PageStep(t)

\* The refreshes under way of tab t are dealt with: the server finishes the
\* handlers it has started, and the tab gets an answer or a network error.
Progress(t) == \E r \in refreshes : r.tab = t /\ RefreshStep(r)

Spec == Init /\ [][Next]_vars /\ \A t \in Tab : WF_vars(Progress(t))

-----------------------------------------------------------------------------
(* The shared promise in lib/api.ts: a tab never finds the refresh token   *)
(* it presents spent by itself.  Refused refreshes sign the user out, so   *)
(* a burst of 401s with a refresh each would.                              *)
NeverRefusesItself ==
    \A r \in refreshes : r.st = "refused" => spentBy[r.pair] # <<r.tab, r.load>>

(* "the next user saw the prior user's portal until a manual refresh.      *)
(* Clearing the cache here (and on login) guarantees a clean session"      *)
(* (hooks/useLogout.ts): the data a tab shows belongs to the account whose *)
(* token it sends.  Two things store tokens and keep the cache, and are    *)
(* left out where they find another account's data: a refresh answered     *)
(* after the sign-in of another account, and a verification of an e-mail   *)
(* address (VerifyEmailConfirmPage, VerifyEmailPendingPage).               *)
OneAccountPerTab ==
    \A t \in Tab \ mixed : store[t] # NoPair =>
        \A k \in Key : cache[t][k] \in {NoUser, owner[store[t]]}

(* All the calls that await a refresh of their tab are sent again or       *)
(* rejected, whatever the refresh comes to.                                *)
WaitersResume ==
    \A t \in Tab :
        (\E k \in Key : call[t][k].st = "waiting")
            ~> (\A k \in Key : call[t][k].st # "waiting")
=============================================================================
