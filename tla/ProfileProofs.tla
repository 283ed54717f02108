--------------------------- MODULE ProfileProofs ----------------------------
(***************************************************************************)
(* Proofs about Profile, for any number of staff, elements and phrases.    *)
(*                                                                         *)
(* The panels (BoardInv): what a panel shows differs from its cached copy  *)
(* by exactly what was changed by hand, and a copy, an answer or a request *)
(* nobody has written behind is that of the stored document.               *)
(*                                                                         *)
(* Media (MediaInv): a decision under way has read an item that awaited    *)
(* one, so a commit that shows the item either finds it awaiting still, or *)
(* is overtaken.                                                           *)
(***************************************************************************)
EXTENDS Profile, TLAPS

Anything == Element \cup Phrase

Gets(s) == {NoGet, [st |-> "asked"]} \cup [st : {"read"}, doc : Docs(s), fresh : BOOLEAN]
Puts(s) == {NoPut} \cup [st : {"sent", "stored"}, doc : Docs(s), edited : SUBSET Anything,
                         fresh : BOOLEAN]

BoardTypes ==
    /\ subject \in Boards \cup {"media"}
    /\ doc \in Docs(subject)
    /\ cache \in [User -> Docs(subject) \cup {None}]
    /\ draft \in [User -> Docs(subject) \cup {None}]
    /\ fresh \in [User -> BOOLEAN]
    /\ edited \in [User -> SUBSET Anything]
    /\ get \in [User -> Gets(subject)]
    /\ put \in [User -> Puts(subject)]

\* The panel of one user.
BoardOf(u) ==
    /\ cache[u] = None => draft[u] = None
    /\ draft[u] # None => edited[u] = SymDiff(cache[u], draft[u])
    /\ fresh[u] => cache[u] = doc
    /\ (get[u].st = "read" /\ get[u].fresh) => get[u].doc = doc
    /\ (put[u].st = "stored" /\ put[u].fresh) => put[u].doc = doc
    /\ (put[u].st = "sent" /\ put[u].fresh) => put[u].edited = SymDiff(doc, put[u].doc)

BoardInv == BoardTypes /\ \A u \in User : BoardOf(u)

Requests ==
    {Idle} \cup [op : {"approve", "reject"}, status : {"pending"}, visibility : Visibility]
           \cup [op : {"visibility"}, to : Visibility, found : Visibility]
           \cup [op : {"consent"}, to : BOOLEAN, found : BOOLEAN]

MediaInv ==
    /\ item \in Item
    /\ request \in [User -> Requests]
    /\ raced \in BOOLEAN /\ hidden \in BOOLEAN
    /\ \A u \in User : request[u] # Idle => item.status # "absent"
    /\ HiddenStaysHidden

ProfileInv == BoardInv /\ MediaInv

-----------------------------------------------------------------------------
(* Sets of differences.                                                    *)

\* Nothing differs from itself.
LEMMA SameHasNoDifference == \A A : SymDiff(A, A) = {}
  BY DEF SymDiff

\* One more change by hand is one more difference.
LEMMA OneMoreChange ==
    \A A, B, C : SymDiff(A, SymDiff(B, C)) = SymDiff(SymDiff(A, B), C)
  BY DEF SymDiff

\* A panel whose parts, and the document, are as they were.
LEMMA OtherPanels ==
    ASSUME NEW v, BoardOf(v), doc' = doc,
           cache'[v] = cache[v], draft'[v] = draft[v], fresh'[v] = fresh[v],
           edited'[v] = edited[v], get'[v] = get[v], put'[v] = put[v]
    PROVE  BoardOf(v)'
  BY DEF BoardOf

\* What an answer, or a request, under way is.
LEMMA UnderWay ==
    ASSUME BoardTypes, NEW u \in User
    PROVE  /\ get[u].st = "read" => /\ get[u].doc \in Docs(subject) /\ get[u].fresh \in BOOLEAN
                                    /\ get[u] \in [st : {"read"}, doc : Docs(subject), fresh : BOOLEAN]
           /\ put[u].st # "none" => put[u] # NoPut
           /\ put[u] # NoPut => /\ put[u].doc \in Docs(subject) /\ put[u].fresh \in BOOLEAN
                                /\ put[u].edited \in SUBSET Anything
                                /\ put[u].st \in {"sent", "stored"}
                                /\ put[u] \in [st : {"sent", "stored"}, doc : Docs(subject),
                                               edited : SUBSET Anything, fresh : BOOLEAN]
  <1>1. get[u] \in Gets(subject) /\ put[u] \in Puts(subject)
    BY DEF BoardTypes
  <1>2. get[u].st = "read" => get[u] \in [st : {"read"}, doc : Docs(subject), fresh : BOOLEAN]
    BY <1>1 DEF Gets, NoGet
  <1>3. put[u].st # "none" => put[u] # NoPut
    BY DEF NoPut
  <1>4. put[u] # NoPut => put[u] \in [st : {"sent", "stored"}, doc : Docs(subject),
                                      edited : SUBSET Anything, fresh : BOOLEAN]
    BY <1>1 DEF Puts
  <1> QED
    BY <1>2, <1>3, <1>4

-----------------------------------------------------------------------------
(* The panels.                                                             *)

\* A tab opened shows the copy, a tab closed nothing.
LEMMA OpenClose ==
    ASSUME BoardInv, NEW u \in User, Open(u) \/ Close(u)
    PROVE  BoardInv'
  <1>1. BoardTypes'
    BY DEF Open, Close, Synced, ToMap, BoardInv, BoardTypes
  <1>2. BoardOf(u)'
    BY SameHasNoDifference, ZenonT(30) DEF Open, Close, Synced, ToMap, BoardInv, BoardTypes, BoardOf
  <1>3. ASSUME NEW v \in User \ {u} PROVE BoardOf(v)'
    BY <1>3, OtherPanels DEF Open, Close, Synced, BoardInv, BoardTypes
  <1> QED
    BY <1>1, <1>2, <1>3 DEF BoardInv

\* A GET is sent, and read.
LEMMA AskRead ==
    ASSUME BoardInv, NEW u \in User, Ask(u) \/ Read(u)
    PROVE  BoardInv'
  <1>1. BoardTypes'
    <2>1. [st |-> "asked"] \in Gets(subject)
      BY DEF Gets
    <2>2. [st |-> "read", doc |-> doc, fresh |-> TRUE] \in Gets(subject)
      BY DEF Gets, BoardInv, BoardTypes
    <2> QED
      BY <2>1, <2>2 DEF Ask, Read, BoardInv, BoardTypes
  <1>2. BoardOf(u)'
    BY DEF Ask, Read, BoardInv, BoardTypes, BoardOf
  <1>3. ASSUME NEW v \in User \ {u} PROVE BoardOf(v)'
    BY <1>3, OtherPanels DEF Ask, Read, BoardInv, BoardTypes
  <1> QED
    BY <1>1, <1>2, <1>3 DEF BoardInv

\* An answer becomes the copy, and the draft unless it is no news or the tab
\* is closed.
LEMMA Arrives ==
    ASSUME BoardInv, NEW u \in User, Arrive(u)
    PROVE  BoardInv'
  <1>1. /\ get[u].doc \in Docs(subject) /\ get[u].fresh \in BOOLEAN /\ get[u].st = "read"
    BY UnderWay DEF Arrive, BoardInv
  <1>2. /\ subject' = subject /\ doc' = doc /\ put' = put
        /\ cache' = [cache EXCEPT ![u] = get[u].doc]
        /\ fresh' = [fresh EXCEPT ![u] = get[u].fresh]
        /\ get' = [get EXCEPT ![u] = NoGet]
        /\ \/ /\ UNCHANGED <<draft, edited>>
              /\ cache[u] = get[u].doc \/ draft[u] = None
           \/ /\ draft' = [draft EXCEPT ![u] = get[u].doc]
              /\ edited' = [edited EXCEPT ![u] = {}]
    BY DEF Arrive, Resync, Synced, ToMap
  <1>3. BoardTypes'
    BY <1>1, <1>2 DEF BoardInv, BoardTypes, Gets
  <1>4. BoardOf(u)'
    <2>1. cache'[u] = get[u].doc /\ fresh'[u] = get[u].fresh /\ get'[u] = NoGet /\ put'[u] = put[u]
      BY <1>2 DEF BoardInv, BoardTypes
    <2>2. \/ draft'[u] = draft[u] /\ edited'[u] = edited[u]
             /\ (cache[u] = get[u].doc \/ draft[u] = None)
          \/ draft'[u] = get[u].doc /\ edited'[u] = {}
      BY <1>2 DEF BoardInv, BoardTypes
    <2>3. /\ draft'[u] # None => edited'[u] = SymDiff(cache'[u], draft'[u])
          /\ cache'[u] = None => draft'[u] = None
      <3>1. CASE draft'[u] = get[u].doc /\ edited'[u] = {}
        BY <1>1, <2>1, <3>1, SameHasNoDifference
      <3>2. CASE draft'[u] = draft[u] /\ edited'[u] = edited[u] /\ cache[u] = get[u].doc
        BY <1>1, <2>1, <3>2 DEF BoardInv, BoardOf
      <3>3. CASE draft'[u] = draft[u] /\ draft[u] = None
        BY <1>1, <2>1, <3>3
      <3> QED
        BY <2>2, <3>1, <3>2, <3>3
    <2>4. /\ BoardOf(u) /\ doc' = doc
      BY <1>2 DEF BoardInv
    <2>5. /\ fresh'[u] => cache'[u] = doc'
          /\ get'[u].st # "read"
      BY <1>1, <2>1, <2>4 DEF BoardOf, NoGet
    <2>6. /\ (put'[u].st = "stored" /\ put'[u].fresh) => put'[u].doc = doc'
          /\ (put'[u].st = "sent" /\ put'[u].fresh) => put'[u].edited = SymDiff(doc', put'[u].doc)
      BY <2>1, <2>4 DEF BoardOf
    <2> QED
      BY <2>3, <2>5, <2>6 DEF BoardOf
  <1>5. ASSUME NEW v \in User \ {u} PROVE BoardOf(v)'
    BY <1>2, <1>5, OtherPanels DEF BoardInv, BoardTypes
  <1> QED
    BY <1>3, <1>4, <1>5 DEF BoardInv

\* A change by hand is counted.
LEMMA Edits ==
    ASSUME BoardInv, NEW u \in User, NEW e \in UNION Docs(subject), Edit(u, e)
    PROVE  BoardInv'
  <1>1. /\ e \in (IF subject = "words" THEN Phrase ELSE Element) /\ e \in Anything
        /\ draft[u] \in Docs(subject) /\ edited[u] \in SUBSET Anything
    BY DEF Docs, Anything, Edit, BoardInv, BoardTypes
  <1>2. SymDiff(draft[u], {e}) \in Docs(subject) /\ SymDiff(edited[u], {e}) \in SUBSET Anything
    BY <1>1 DEF SymDiff, Docs
  <1>3. /\ draft' = [draft EXCEPT ![u] = SymDiff(draft[u], {e})]
        /\ edited' = [edited EXCEPT ![u] = SymDiff(edited[u], {e})]
        /\ UNCHANGED <<subject, doc, cache, fresh, get, put>>
    BY DEF Edit
  <1>4. BoardTypes'
    BY <1>2, <1>3 DEF BoardInv, BoardTypes
  <1>5. BoardOf(u)'
    <2>1. /\ draft'[u] = SymDiff(draft[u], {e}) /\ edited'[u] = SymDiff(edited[u], {e})
          /\ edited[u] = SymDiff(cache[u], draft[u]) /\ cache[u] # None
      BY <1>3 DEF Edit, BoardInv, BoardTypes, BoardOf
    <2>2. edited'[u] = SymDiff(cache[u], draft'[u])
      <3>1. SymDiff(cache[u], SymDiff(draft[u], {e})) = SymDiff(SymDiff(cache[u], draft[u]), {e})
        BY OneMoreChange
      <3> QED
        BY <2>1, <3>1
    <2> QED
      BY <1>3, <2>1, <2>2 DEF BoardInv, BoardOf
  <1>6. ASSUME NEW v \in User \ {u} PROVE BoardOf(v)'
    BY <1>3, <1>6, OtherPanels DEF BoardInv, BoardTypes
  <1> QED
    BY <1>4, <1>5, <1>6 DEF BoardInv

\* A PUT carries the draft and what was changed in it.
LEMMA Saves ==
    ASSUME BoardInv, NEW u \in User, Save(u)
    PROVE  BoardInv'
  <1> DEFINE p == [st |-> "sent", doc |-> draft[u], edited |-> edited[u], fresh |-> fresh[u]]
  <1>1. p \in Puts(subject)
    BY DEF Save, BoardInv, BoardTypes, Puts
  <1>2. /\ put' = [put EXCEPT ![u] = p]
        /\ UNCHANGED <<subject, doc, cache, fresh, draft, edited, get>>
    BY DEF Save
  <1>3. p.st = "sent" /\ p.doc = draft[u] /\ p.edited = edited[u] /\ p.fresh = fresh[u]
    OBVIOUS
  <1> HIDE DEF p
  <1>4. BoardTypes'
    BY <1>1, <1>2 DEF BoardInv, BoardTypes
  <1>5. BoardOf(u)'
    <2>1. put'[u] = p
      BY <1>2 DEF BoardInv, BoardTypes
    <2>2. draft[u] # None
      BY DEF Save
    <2> QED
      BY <1>2, <1>3, <2>1, <2>2 DEF BoardInv, BoardOf
  <1>6. ASSUME NEW v \in User \ {u} PROVE BoardOf(v)'
    BY <1>2, <1>6, OtherPanels DEF BoardInv, BoardTypes
  <1> QED
    BY <1>4, <1>5, <1>6 DEF BoardInv

\* The document replaced, every other copy is stale.
LEMMA Replaces ==
    ASSUME BoardInv, NEW u \in User, Replace(u)
    PROVE  BoardInv'
  <1> DEFINE g(v) == IF get[v].st = "read" THEN [get[v] EXCEPT !.fresh = FALSE] ELSE get[v]
             s == [put[u] EXCEPT !.st = "stored", !.fresh = TRUE]
             p(v) == IF v = u THEN s
                     ELSE IF put[v] = NoPut THEN NoPut ELSE [put[v] EXCEPT !.fresh = FALSE]
  <1>1. /\ put[u] \in [st : {"sent", "stored"}, doc : Docs(subject),
                       edited : SUBSET Anything, fresh : BOOLEAN]
        /\ put[u] # NoPut /\ put[u].doc \in Docs(subject)
    BY UnderWay DEF Replace, BoardInv
  <1>2. /\ UNCHANGED <<subject, cache, draft, edited>>
        /\ doc' = put[u].doc
        /\ fresh' = [v \in User |-> FALSE]
        /\ get' = [v \in User |-> g(v)]
        /\ put' = [v \in User |-> p(v)]
    BY DEF Replace
  <1>3. s \in Puts(subject) /\ s.st = "stored" /\ s.doc = put[u].doc
    BY <1>1 DEF Puts
  <1>4. ASSUME NEW v \in User
        PROVE  /\ g(v) \in Gets(subject)
               /\ g(v).st = "read" => g(v).fresh = FALSE
    <2>1. CASE get[v].st = "read"
      BY <2>1, UnderWay DEF Gets, BoardInv
    <2>2. CASE get[v].st # "read"
      BY <2>2 DEF BoardInv, BoardTypes
    <2> QED
      BY <2>1, <2>2
  <1>5. ASSUME NEW v \in User \ {u}
        PROVE  /\ p(v) \in Puts(subject)
               /\ p(v).st # "none" => p(v).fresh = FALSE
    <2>1. CASE put[v] = NoPut
      BY <1>5, <2>1 DEF Puts, NoPut
    <2>2. CASE put[v] # NoPut
      BY <1>5, <2>2, UnderWay DEF Puts, BoardInv
    <2> QED
      BY <2>1, <2>2
  <1>6. p(u) = s
    OBVIOUS
  <1> HIDE DEF g, s, p
  <1>7. BoardTypes'
    <2>1. \A v \in User : p(v) \in Puts(subject)
      BY <1>3, <1>5, <1>6
    <2> QED
      BY <1>1, <1>2, <1>4, <2>1 DEF BoardInv, BoardTypes
  <1>8. ASSUME NEW v \in User PROVE BoardOf(v)'
    <2>1. get'[v] = g(v) /\ put'[v] = p(v) /\ fresh'[v] = FALSE
      BY <1>2
    <2>2. /\ put'[v].st = "stored" /\ put'[v].fresh => put'[v].doc = doc'
          /\ put'[v].st = "sent" => ~put'[v].fresh
      BY <1>2, <1>3, <1>5, <1>6, <2>1
    <2>3. get'[v].st = "read" => ~get'[v].fresh
      BY <1>4, <2>1
    <2> QED
      BY <1>2, <2>1, <2>2, <2>3 DEF BoardInv, BoardOf
  <1> QED
    BY <1>7, <1>8 DEF BoardInv

\* The answer to a PUT becomes the copy and the draft; a failure gives the
\* draft back, or leaves it.
LEMMA Answers ==
    ASSUME BoardInv, NEW u \in User, Saved(u) \/ SaveFails(u)
    PROVE  BoardInv'
  <1>1. NoPut \in Puts(subject) /\ NoPut.st = "none"
    BY DEF Puts, NoPut
  <1>2. CASE Saved(u)
    <2>1. put[u].doc \in Docs(subject) /\ put[u].fresh \in BOOLEAN
      BY <1>2, UnderWay DEF Saved, BoardInv
    <2>2. /\ subject' = subject /\ doc' = doc /\ get' = get
          /\ cache' = [cache EXCEPT ![u] = put[u].doc]
          /\ fresh' = [fresh EXCEPT ![u] = put[u].fresh]
          /\ put' = [put EXCEPT ![u] = NoPut] /\ put[u].st = "stored"
          /\ \/ draft[u] = None /\ UNCHANGED <<draft, edited>>
             \/ draft' = [draft EXCEPT ![u] = put[u].doc] /\ edited' = [edited EXCEPT ![u] = {}]
      BY <1>2 DEF Saved, Synced, ToMap
    <2>3. BoardTypes'
      BY <1>1, <2>1, <2>2 DEF BoardInv, BoardTypes
    <2>4. BoardOf(u)'
      <3>1. cache'[u] = put[u].doc /\ fresh'[u] = put[u].fresh /\ put'[u] = NoPut /\ get'[u] = get[u]
        BY <2>2 DEF BoardInv, BoardTypes
      <3>2. \/ draft'[u] = None
            \/ draft'[u] = put[u].doc /\ edited'[u] = {}
        BY <2>2 DEF BoardInv, BoardTypes
      <3> QED
        BY <1>1, <2>1, <2>2, <3>1, <3>2, SameHasNoDifference DEF BoardInv, BoardOf
    <2>5. ASSUME NEW v \in User \ {u} PROVE BoardOf(v)'
      BY <2>2, <2>5, OtherPanels DEF BoardInv, BoardTypes
    <2> QED
      BY <2>3, <2>4, <2>5 DEF BoardInv
  <1>3. CASE SaveFails(u)
    <2>1. /\ UNCHANGED <<subject, doc, get, cache, fresh>>
          /\ put' = [put EXCEPT ![u] = NoPut]
          /\ \/ UNCHANGED <<draft, edited>>
             \/ draft[u] # None /\ draft' = [draft EXCEPT ![u] = cache[u]]
                /\ edited' = [edited EXCEPT ![u] = {}]
      BY <1>3 DEF SaveFails, Synced, ToMap
    <2>2. BoardTypes'
      BY <1>1, <2>1 DEF BoardInv, BoardTypes
    <2>3. BoardOf(u)'
      <3>1. put'[u] = NoPut
        BY <2>1 DEF BoardInv, BoardTypes
      <3>2. \/ draft'[u] = draft[u] /\ edited'[u] = edited[u]
            \/ draft'[u] = cache[u] /\ edited'[u] = {}
        BY <2>1 DEF BoardInv, BoardTypes
      <3> QED
        BY <1>1, <2>1, <3>1, <3>2, SameHasNoDifference DEF BoardInv, BoardOf
    <2>4. ASSUME NEW v \in User \ {u} PROVE BoardOf(v)'
      BY <2>1, <2>4, OtherPanels DEF BoardInv, BoardTypes
    <2> QED
      BY <2>2, <2>3, <2>4 DEF BoardInv
  <1> QED
    BY <1>2, <1>3

-----------------------------------------------------------------------------
(* Media.                                                                  *)

\* Nothing of the item changes.
LEMMA MediaKept ==
    ASSUME MediaInv, UNCHANGED mediaVars
    PROVE  MediaInv'
  BY DEF mediaVars, MediaInv, HiddenStaysHidden, InSponsorState

\* An item uploaded awaits a decision, so sponsors are not shown it.
LEMMA Uploads ==
    ASSUME MediaInv, NEW c \in Categories, Upload(c)
    PROVE  MediaInv'
  <1>1. item' \in Item /\ item'.status = "pending"
    BY DEF Upload, NoItem, Item, Visibility
  <1>2. UNCHANGED <<request, raced, hidden>>
    BY DEF Upload
  <1> QED
    BY <1>1, <1>2 DEF MediaInv, HiddenStaysHidden, InSponsorState

\* A request takes with it what it has read, of an item that is there.
LEMMA Reads ==
    ASSUME MediaInv, NEW u \in User, NEW q \in Requests, item.status # "absent",
           request' = [request EXCEPT ![u] = q], UNCHANGED <<item, raced, hidden>>
    PROVE  MediaInv'
  BY DEF MediaInv, HiddenStaysHidden, InSponsorState

\* A decision has read an item that awaits one.
LEMMA Moderates ==
    ASSUME MediaInv, NEW u \in User, NEW d \in {"approve", "reject"}, Moderate(u, d)
    PROVE  MediaInv'
  <1> DEFINE q == [op |-> d, status |-> item.status, visibility |-> item.visibility]
  <1>1. item.status = "pending" /\ item.visibility \in Visibility
    BY DEF Moderate, Decidable, MediaInv, Item
  <1>2. q \in Requests
    BY <1>1 DEF Requests
  <1>3. request' = [request EXCEPT ![u] = q] /\ UNCHANGED <<item, raced, hidden>>
    BY DEF Moderate
  <1> HIDE DEF q
  <1> QED
    BY <1>1, <1>2, <1>3, Reads

\* A PATCH has read the field it is to set.
LEMMA Patches ==
    ASSUME MediaInv, NEW u \in User, NEW f, NEW v, Patch(u, f, v),
           \/ f = "visibility" /\ v \in Visibility
           \/ f = "consent" /\ v \in BOOLEAN
    PROVE  MediaInv'
  <1> DEFINE q == [op |-> f, to |-> v, found |-> item[f]]
  <1>1. item.visibility \in Visibility /\ item.consent \in BOOLEAN
    BY DEF MediaInv, Item
  <1>2. q \in Requests
    <2>1. CASE f = "visibility" /\ v \in Visibility
      BY <1>1, <2>1 DEF Requests
    <2>2. CASE f = "consent" /\ v \in BOOLEAN
      BY <1>1, <2>2 DEF Requests
    <2> QED
      BY <2>1, <2>2
  <1>3. /\ request' = [request EXCEPT ![u] = q] /\ UNCHANGED <<item, raced, hidden>>
        /\ item.status # "absent"
    BY DEF Patch
  <1> HIDE DEF q
  <1> QED
    BY <1>2, <1>3, Reads

\* What a request writes: only by showing it, or overtaken, one that had been
\* hidden comes into the sponsors' state.
LEMMA Writes ==
    ASSUME MediaInv, NEW u \in User, Commit(u)
    PROVE  /\ item' \in Item /\ item'.status # "absent"
           /\ raced' \in BOOLEAN /\ hidden' \in BOOLEAN
           /\ hidden' /\ ~raced' => ~InSponsorState(item')
  <1> DEFINE q == request[u]
  <1>1. /\ q # Idle /\ item' = Written(q)
        /\ raced' = (raced \/ Overtaken(q))
        /\ hidden' = ((hidden \/ Hides(q)) /\ ~Shows(q))
    BY DEF Commit
  <1>2. /\ q \in Requests /\ item \in Item /\ item.status # "absent"
        /\ hidden /\ ~raced => ~InSponsorState(item)
        /\ raced \in BOOLEAN /\ hidden \in BOOLEAN
    BY <1>1 DEF MediaInv, HiddenStaysHidden
  <1> HIDE DEF q
  <1>3. raced' \in BOOLEAN /\ hidden' \in BOOLEAN
    BY <1>1, <1>2 DEF Overtaken, Shows, Hides
  <1>4. CASE q \in [op : {"approve", "reject"}, status : {"pending"}, visibility : Visibility]
    <2>1. q.op \in {"approve", "reject"} /\ q.status = "pending" /\ q.visibility \in Visibility
      BY <1>4
    <2>2. CASE q.op = "approve"
      <3>1. item' \in Item /\ item'.status = "approved"
        BY <1>1, <1>2, <2>2 DEF Written, Item, Visibility
      <3>2. hidden' => raced'
        BY <1>1, <2>1, <2>2 DEF Overtaken, Shows, Hides
      <3> QED
        BY <1>3, <3>1, <3>2
    <2>3. CASE q.op = "reject"
      <3>1. item' \in Item /\ item'.status = "rejected"
        BY <1>1, <1>2, <2>1, <2>3 DEF Written, Item
      <3> QED
        BY <1>3, <3>1 DEF InSponsorState
    <2> QED
      BY <2>1, <2>2, <2>3
  <1>5. CASE q \in [op : {"visibility"}, to : Visibility, found : Visibility]
    <2>1. q.op = "visibility" /\ q.to \in Visibility /\ q.found \in Visibility
      BY <1>5
    <2>2. CASE q.to = q.found
      <3>1. item' = item
        BY <1>1, <2>1, <2>2 DEF Written
      <3>2. CASE q.to \in ForSponsors
        BY <1>1, <1>2, <1>3, <2>1, <2>2, <3>1, <3>2 DEF Overtaken, Shows, Hides
      <3>3. CASE q.to \notin ForSponsors
        BY <1>1, <1>2, <1>3, <2>1, <2>2, <3>1, <3>3
           DEF Overtaken, Shows, Hides, InSponsorState
      <3> QED
        BY <3>2, <3>3
    <2>3. CASE q.to # q.found
      <3>1. item' = [item EXCEPT !.visibility = q.to]
        BY <1>1, <2>1, <2>3 DEF Written
      <3>2. item' \in Item /\ item'.status = item.status /\ item'.visibility = q.to
        BY <1>2, <2>1, <3>1 DEF Item
      <3>3. q.to \in ForSponsors => ~hidden'
        BY <1>1, <2>1, <2>3 DEF Shows
      <3> QED
        BY <1>2, <1>3, <3>2, <3>3 DEF InSponsorState
    <2> QED
      BY <2>2, <2>3
  <1>6. CASE q \in [op : {"consent"}, to : BOOLEAN, found : BOOLEAN]
    <2>1. q.op = "consent" /\ q.to \in BOOLEAN
      BY <1>6
    <2>2. item' = item \/ item' = [item EXCEPT !.consent = q.to]
      BY <1>1, <2>1 DEF Written
    <2>3. item' \in Item /\ item'.status = item.status /\ item'.visibility = item.visibility
      BY <1>2, <2>1, <2>2 DEF Item
    <2>4. hidden' => hidden /\ (raced => raced')
      BY <1>1, <1>2, <2>1 DEF Hides
    <2> QED
      BY <1>1, <1>2, <1>3, <2>3, <2>4 DEF InSponsorState
  <1> QED
    BY <1>1, <1>2, <1>4, <1>5, <1>6 DEF Requests

\* A commit ends its request.
LEMMA Commits ==
    ASSUME MediaInv, NEW u \in User, Commit(u)
    PROVE  MediaInv'
  <1>1. request' = [request EXCEPT ![u] = Idle] /\ Idle \in Requests
    BY DEF Commit, Requests
  <1>2. request' \in [User -> Requests]
    BY <1>1 DEF MediaInv
  <1>3. HiddenStaysHidden'
    BY Writes DEF HiddenStaysHidden, InSponsorState
  <1> QED
    BY <1>2, <1>3, Writes DEF MediaInv

-----------------------------------------------------------------------------
\* Nothing is open, cached or under way, and there is no item.
LEMMA Start ==
    ASSUME Init
    PROVE  ProfileInv
  <1>1. BoardTypes
    BY DEF Init, BoardTypes, Gets, Puts
  <1>2. ASSUME NEW u \in User PROVE BoardOf(u)
    BY DEF Init, BoardOf, NoGet, NoPut
  <1>3. MediaInv
    BY DEF Init, MediaInv, NoItem, Item, Visibility, Categories, Requests, HiddenStaysHidden, InSponsorState
  <1> QED
    BY <1>1, <1>2, <1>3 DEF ProfileInv, BoardInv

\* Every step keeps the invariant.
LEMMA Step ==
    ASSUME ProfileInv, [Next]_vars
    PROVE  ProfileInv'
  <1> USE DEF ProfileInv
  <1>1. ASSUME NEW u \in User, Open(u) \/ Close(u) PROVE ProfileInv'
    BY <1>1, OpenClose, MediaKept DEF Open, Close
  <1>2. ASSUME NEW u \in User, Ask(u) \/ Read(u) PROVE ProfileInv'
    BY <1>2, AskRead, MediaKept DEF Ask, Read
  <1>3. ASSUME NEW u \in User, Arrive(u) PROVE ProfileInv'
    BY <1>3, Arrives, MediaKept DEF Arrive
  <1>4. ASSUME NEW u \in User, Save(u) PROVE ProfileInv'
    BY <1>4, Saves, MediaKept DEF Save
  <1>5. ASSUME NEW u \in User, Replace(u) PROVE ProfileInv'
    BY <1>5, Replaces, MediaKept DEF Replace
  <1>6. ASSUME NEW u \in User, Saved(u) \/ SaveFails(u) PROVE ProfileInv'
    BY <1>6, Answers, MediaKept DEF Saved, SaveFails
  <1>7. ASSUME NEW u \in User, NEW e \in UNION Docs(subject), Edit(u, e) PROVE ProfileInv'
    BY <1>7, Edits, MediaKept DEF Edit
  <1>8. ASSUME UNCHANGED <<subject, boardVars>> PROVE BoardInv'
    BY <1>8 DEF boardVars, BoardInv, BoardTypes, BoardOf
  <1>9. ASSUME NEW u \in User, NEW d \in {"approve", "reject"}, Moderate(u, d)
        PROVE  ProfileInv'
    BY <1>8, <1>9, Moderates DEF Moderate
  <1>10. ASSUME NEW u \in User, Commit(u) PROVE ProfileInv'
    BY <1>8, <1>10, Commits DEF Commit
  <1>11. ASSUME NEW u \in User,
                \/ \E v \in Visibility : Patch(u, "visibility", v)
                \/ \E b \in BOOLEAN : Patch(u, "consent", b)
         PROVE  ProfileInv'
    BY <1>8, <1>11, Patches DEF Patch
  <1>12. ASSUME NEW c \in Categories, Upload(c) PROVE ProfileInv'
    BY <1>8, <1>12, Uploads DEF Upload
  <1>13. CASE UNCHANGED vars
    BY <1>8, <1>13, MediaKept DEF vars
  <1> QED
    BY <1>1, <1>2, <1>3, <1>4, <1>5, <1>6, <1>7, <1>9, <1>10, <1>11, <1>12, <1>13 DEF Next

\* The invariant holds of every reachable state.
THEOREM Inductive == Spec => []ProfileInv
  BY Start, Step, PTL DEF Spec

\* Every variable keeps its type, a panel shows nothing before its document has
\* been read, and no request goes by an item that was never uploaded.
THEOREM TypeCorrect == Spec => []TypeOK
  <1>1. ASSUME ProfileInv PROVE TypeOK
    <2>1. BoardInv /\ MediaInv
      BY <1>1 DEF ProfileInv
    <2>2. ASSUME NEW u \in User
          PROVE  /\ cache[u] \in Docs(subject) \cup {None}
                 /\ draft[u] \in Docs(subject) \cup {None}
                 /\ cache[u] = None => draft[u] = None
                 /\ get[u].st = "read" => get[u].doc \in Docs(subject)
                 /\ put[u].st # "none" => put[u].doc \in Docs(subject)
      BY <2>1, UnderWay DEF BoardInv, BoardTypes, BoardOf
    <2>3. /\ subject \in Boards \cup {"media"} /\ doc \in Docs(subject)
      BY <2>1 DEF BoardInv, BoardTypes
    <2>4. item \in Item /\ \A u \in User : request[u] # Idle => item.status # "absent"
      BY <2>1 DEF MediaInv
    <2> QED
      BY <2>2, <2>3, <2>4 DEF TypeOK
  <1> QED
    BY Inductive, <1>1, PTL

\* What somebody has hidden the sponsors are not shown until somebody shows it,
\* for any number of staff, decisions and PATCHes of any visibility, at whatever
\* status, unless one of the two overlaps Overtaken names has happened.
THEOREM HiddenForGood == Spec => []HiddenStaysHidden
  <1>1. ASSUME ProfileInv PROVE HiddenStaysHidden
    BY <1>1 DEF ProfileInv, MediaInv, HiddenStaysHidden
  <1> QED
    BY Inductive, <1>1, PTL

\* The browser's rule and the server's agree on every up-to-date card.
THEOREM CardsAgree == Spec => []CardTellsTruth
  <1>1. ASSUME ProfileInv PROVE CardTellsTruth
    <2>1. item.category \in {"drawing", "album", "photo"}
      BY <1>1 DEF ProfileInv, MediaInv, Item, Categories
    <2> QED
      BY <2>1 DEF CardTellsTruth, SponsorSees, CardSaysVisible, InSponsorState
  <1> QED
    BY Inductive, <1>1, PTL

\* A save whose author had read what it replaces changes only what the author
\* changed: whatever was refetched, closed or saved in between.
THEOREM SavesOnlyEdits == Spec => OnlyWhatWasEdited
  <1>1. ASSUME ProfileInv, [Next]_vars
        PROVE  [\A u \in User : put[u].st = "sent" /\ put'[u].st = "stored"
                  => SymDiff(doc, doc') \subseteq put[u].edited \/ ~put[u].fresh]_vars
    <2> SUFFICES ASSUME NEW u \in User, put[u].st = "sent", put'[u].st = "stored", put[u].fresh
                 PROVE  SymDiff(doc, doc') \subseteq put[u].edited
      OBVIOUS
    <2>1. put \in [User -> Puts(subject)] /\ put[u].edited = SymDiff(doc, put[u].doc)
      BY <1>1 DEF ProfileInv, BoardInv, BoardTypes, BoardOf
    <2>2. \A v \in User : Replace(v) => (v = u \/ put'[u].st # "stored")
      <3> SUFFICES ASSUME NEW v \in User, Replace(v), v # u
                   PROVE  put'[u].st # "stored"
        OBVIOUS
      <3>1. put'[u] = IF put[u] = NoPut THEN NoPut ELSE [put[u] EXCEPT !.fresh = FALSE]
        BY DEF Replace
      <3>2. put[u] \in [st : {"sent", "stored"}, doc : Docs(subject), edited : SUBSET Anything,
                        fresh : BOOLEAN]
        BY <1>1, UnderWay DEF ProfileInv, BoardInv
      <3> QED
        BY <3>1, <3>2 DEF NoPut
    <2>3. ASSUME put' = put PROVE FALSE
      BY <2>3
    <2>4. ASSUME NEW v \in User, Save(v) PROVE FALSE
      BY <2>1, <2>4 DEF Save, NoPut
    <2>5. ASSUME NEW v \in User, Saved(v) \/ SaveFails(v) PROVE FALSE
      BY <2>1, <2>5 DEF Saved, SaveFails, NoPut
    <2>6. PICK v \in User : Replace(v)
      BY <1>1, <2>3, <2>4, <2>5
         DEF Next, vars, boardVars, Open, Close, Ask, Read, Arrive, Edit, Commit, Moderate, Patch, Upload
    <2>7. doc' = put[u].doc
      BY <2>2, <2>6 DEF Replace
    <2> QED
      BY <2>1, <2>7
  <1> QED
    BY Inductive, <1>1, PTL DEF Spec, OnlyWhatWasEdited
=============================================================================
