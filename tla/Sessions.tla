------------------------------ MODULE Sessions ------------------------------
(***************************************************************************)
(* The server's side of signing in: the table user_sessions and the        *)
(* handlers of backend/app/api/v1/auth.py that write it.                   *)
(*                                                                         *)
(* A "pair" is the access and the refresh token minted together by         *)
(* _build_pair.  Its refresh token is a row of user_sessions (session,     *)
(* owner); its access token is good until it is stale.  /auth/refresh and  *)
(* /auth/change-password each read the table and commit later, so each is  *)
(* two actions.  The other handlers decide on nothing they read from the   *)
(* table, and are one.                                                     *)
(*                                                                         *)
(* The actions leave the client out: module Browser gives every one of     *)
(* them a caller.                                                          *)
(***************************************************************************)
EXTENDS Integers, FiniteSets

CONSTANTS
    User,        \* accounts
    NoUser,      \* the owner of a pair not minted yet
    MaxPairs,    \* bound: pairs minted in a behaviour
    Changing,    \* bound: accounts whose password is changed
    MaxChanges   \* bound: password changes of each of them

ASSUME SessionsAssumption ==
    /\ NoUser \notin User
    /\ Changing \subseteq User
    /\ MaxPairs \in Nat \ {0}
    /\ MaxChanges \in Nat

VARIABLES
    session,     \* state of the refresh token of each pair
    owner,       \* account of each pair
    parent,      \* the pair a refresh turned in for this one, 0 for a sign-in
    stale,       \* pairs whose access token is past its exp claim
    bornAt,      \* password the owner had when the minting handler read the table
    overlapped,  \* history: pairs minted while the password changed
    password,    \* number of password changes of each account
    changing     \* change-password handlers under way: account -> sessions they read

serverVars == <<session, owner, parent, stale, bornAt, overlapped, password, changing>>

Pair == 1..MaxPairs
NoPair == 0
SessionState == {"unused", "live", "revoked", "expired"}

\* changing[u] before the handler has read the table.
NotChanging == {NoPair}

ServerTypeOK ==
    /\ session \in [Pair -> SessionState]
    /\ owner \in [Pair -> User \cup {NoUser}]
    /\ parent \in [Pair -> Pair \cup {NoPair}]
    /\ stale \in SUBSET Pair
    /\ bornAt \in [Pair -> 0..MaxChanges]
    /\ overlapped \in SUBSET Pair
    /\ password \in [User -> 0..MaxChanges]
    /\ changing \in [User -> (SUBSET Pair) \cup {NotChanging}]

ServerInit ==
    /\ session = [p \in Pair |-> "unused"]
    /\ owner = [p \in Pair |-> NoUser]
    /\ parent = [p \in Pair |-> NoPair]
    /\ stale = {}
    /\ bornAt = [p \in Pair |-> 0]
    /\ overlapped = {}
    /\ password = [u \in User |-> 0]
    /\ changing = [u \in User |-> NotChanging]

-----------------------------------------------------------------------------
\* create_token puts a random jti in every token, so each pair is a new one.
IsNext(p) ==
    /\ session[p] = "unused"
    /\ \A q \in Pair : q < p => session[q] # "unused"

\* A handler that read password w of account u commits while it is changed.
Overlaps(u, w) == w # password[u] \/ changing[u] # NotChanging

\* The commit of a /auth/login that verified password w of u, past the checks
\* of the lock-out and the status; /auth/verify-email ends the same way.
SignIn(u, w, p) ==
    /\ IsNext(p)
    /\ session' = [session EXCEPT ![p] = "live"]
    /\ owner' = [owner EXCEPT ![p] = u]
    /\ bornAt' = [bornAt EXCEPT ![p] = w]
    /\ overlapped' = IF Overlaps(u, w) THEN overlapped \cup {p} ELSE overlapped
    /\ UNCHANGED <<parent, stale, password, changing>>

\* get_current_user: the account a bearer token stands for.
Accepts(p) == p # NoPair /\ p \notin stale

\* /auth/refresh, its look-up: the row is neither revoked nor past expires_at.
\* That a session has expired shows here for the first time.
Redeem(q) ==
    /\ session[q] = "live"
    /\ UNCHANGED serverVars

Refuse(q) ==
    /\ session' = [session EXCEPT ![q] = IF @ = "live" THEN "expired" ELSE @]
    /\ UNCHANGED <<owner, parent, stale, bornAt, overlapped, password, changing>>

\* mutant: the row turned in is left as it is
Copied(q, p) == [session EXCEPT ![p] = "live"]

\* The row turned in and the row minted, in one transaction.
Rotated(q, p) == [session EXCEPT ![q] = "revoked", ![p] = "live"]

\* The commit of a /auth/refresh that found q redeemable when the owner had
\* password w: q is revoked, whatever has become of it, and p is minted.
RotateTo(q, w, p) ==
    LET u == owner[q] IN
    /\ IsNext(p)
    /\ session' = Rotated(q, p)
    /\ owner' = [owner EXCEPT ![p] = u]
    /\ parent' = [parent EXCEPT ![p] = q]
    /\ bornAt' = [bornAt EXCEPT ![p] = w]
    /\ overlapped' = IF Overlaps(u, w) THEN overlapped \cup {p} ELSE overlapped
    /\ UNCHANGED <<stale, password, changing>>

\* mutant: only the newest session of the account
Newest(u) ==
    {p \in Pair : /\ owner[p] = u /\ session[p] \in {"live", "expired"}
                  /\ \A q \in Pair : owner[q] = u => q <= p}

\* revoked_at IS NULL
Unrevoked(u) == {p \in Pair : owner[p] = u /\ session[p] \in {"live", "expired"}}

\* /auth/change-password and /auth/reset-password select the sessions not
\* revoked yet, ...
ChangeRead(u) ==
    /\ u \in Changing /\ changing[u] = NotChanging
    /\ password[u] < MaxChanges
    /\ changing' = [changing EXCEPT ![u] = Unrevoked(u)]
    /\ UNCHANGED <<session, owner, parent, stale, bornAt, overlapped, password>>

\* ... and revoke those in the commit that stores the new password.
ChangeCommit(u) ==
    /\ changing[u] # NotChanging
    /\ password' = [password EXCEPT ![u] = @ + 1]
    /\ session' = [p \in Pair |-> IF p \in changing[u] THEN "revoked" ELSE session[p]]
    /\ changing' = [changing EXCEPT ![u] = NotChanging]
    /\ UNCHANGED <<owner, parent, stale, bornAt, overlapped>>

\* Time passes: the exp claim of an access token.
AccessExpires(p) ==
    /\ session[p] # "unused" /\ p \notin stale
    /\ stale' = stale \cup {p}
    /\ UNCHANGED <<session, owner, parent, bornAt, overlapped, password, changing>>

-----------------------------------------------------------------------------
(* "On /auth/refresh we look the token up by hash, revoke it, and mint a   *)
(* new pair (rotation)" (models/session.py): a pair that has been turned   *)
(* in for another can never be turned in again, whatever refreshes,        *)
(* password changes and expiries overlap.                                  *)
RotationRevokes ==
    \A p \in Pair : parent[p] # NoPair =>
        /\ session[parent[p]] = "revoked"
        /\ owner[parent[p]] = owner[p]

(* "revoke every live refresh session so other devices have to sign in     *)
(* again" (reset_password): a session that is still live and older than    *)
(* the password of its account can only come from a refresh or a sign-in   *)
(* that was under way while the password changed.                          *)
OldPasswordIsCutOff ==
    \A p \in Pair : session[p] = "live" /\ p \notin overlapped
                    => bornAt[p] = password[owner[p]]
=============================================================================
