------------------------------- MODULE Profile -------------------------------
(***************************************************************************)
(* What the staff let a sponsor see of a child.                            *)
(*                                                                         *)
(* Two panels edit a document as a whole: which elements of the profile    *)
(* are hidden (ProfileVisibilityPanel) and the child's phrases             *)
(* (OrphanInHerWordsManager).  Each shows a cached copy, keeps a draft of  *)
(* it, and PUTs the draft; the server stores what it is sent, without a    *)
(* version.  The third manages media: a moderator's decision, visibility   *)
(* and the guardian's consent, each a request of its own that reads the    *)
(* item, and later commits (media.py; OrphanMediaManager and               *)
(* MediaReviewPage offer fewer of them than the server grants).            *)
(***************************************************************************)
EXTENDS Naturals, FiniteSets

CONSTANTS
    User,      \* staff at work on one child
    Element,   \* elements of the profile; "media" has no switch
    Phrase,    \* phrases
    MaxSaves,  \* bound: PUTs
    MaxReads,  \* bound: GETs per user
    None

ASSUME ProfileAssumption ==
    /\ "media" \in Element
    /\ MaxSaves \in Nat /\ MaxReads \in Nat

Boards == {"visibility", "words"}

Docs(s) == SUBSET (IF s = "words" THEN Phrase ELSE Element)

VARIABLES
    subject,  \* the panel of this behaviour: they share nothing
    doc,      \* the stored document: the hidden elements, or the phrases
    cache,    \* the copy each user's query cache holds
    fresh,    \* history: nobody has written since that copy was read
    draft,    \* what the panel shows; None while it is closed or loading
    edited,   \* history: what was changed by hand since the draft was set
    get,      \* GET under way
    put,      \* PUT under way
    saves, reads,
    item,     \* a media item
    request,  \* a request for it under way, by user
    raced,    \* history: a request has been overtaken, see Overtaken
    hidden    \* history: the item has been hidden, and not shown since

boardVars == <<doc, cache, fresh, draft, edited, get, put, saves, reads>>
mediaVars == <<item, request, raced, hidden>>
vars == <<subject, boardVars, mediaVars>>

SymDiff(A, B) == (A \ B) \cup (B \ A)

NoGet == [st |-> "none"]
NoPut == [st |-> "none"]

Categories == {"drawing", "album", "photo"}  \* album: consent; photo: no category
Visibility == {"private", "donor_only", "public", "archived"}
Item == [status : {"absent", "pending", "approved", "rejected"},
         visibility : Visibility, consent : BOOLEAN, category : Categories]
NoItem == [status |-> "absent", visibility |-> "private", consent |-> FALSE, category |-> "photo"]
Idle == [op |-> "none"]

TypeOK ==
    /\ subject \in Boards \cup {"media"}
    /\ doc \in Docs(subject)
    /\ \A u \in User :
         /\ cache[u] \in Docs(subject) \cup {None}
         /\ draft[u] \in Docs(subject) \cup {None}
         /\ cache[u] = None => draft[u] = None
         /\ get[u].st = "read" => get[u].doc \in Docs(subject)
         /\ put[u].st # "none" => put[u].doc \in Docs(subject)
    /\ item \in Item
    /\ \A u \in User : request[u] # Idle => item.status # "absent"

Init ==
    /\ subject \in Boards \cup {"media"}
    /\ doc \in Docs(subject)
    /\ cache = [u \in User |-> None] /\ draft = [u \in User |-> None]
    /\ fresh = [u \in User |-> FALSE]
    /\ edited = [u \in User |-> {}]
    /\ get = [u \in User |-> NoGet] /\ put = [u \in User |-> NoPut]
    /\ saves = 0 /\ reads = [u \in User |-> 0]
    /\ item = NoItem
    /\ request = [u \in User |-> Idle]
    /\ raced = FALSE /\ hidden = FALSE

-----------------------------------------------------------------------------
(* The panels.                                                             *)

\* mutant: only the elements with a switch are taken over
ToMapOfSwitches(registry) == registry \ {"media"}

\* toMap goes over what the server reports, switch or not.
ToMap(registry) == registry

\* The draft is set to what the cache holds.
Synced(u, copy) ==
    /\ draft' = [draft EXCEPT ![u] = ToMap(copy)]
    /\ edited' = [edited EXCEPT ![u] = {}]

\* mutant: the panel starts from an empty map while it loads
OpenBlank(u) ==
    /\ subject \in Boards /\ draft[u] = None
    /\ draft' = [draft EXCEPT ![u] = {}] /\ edited' = [edited EXCEPT ![u] = {}]
    /\ UNCHANGED <<subject, doc, cache, fresh, get, put, saves, reads, mediaVars>>

\* The tab is opened: the cached copy shows, if there is one.
Open(u) ==
    /\ subject \in Boards /\ draft[u] = None /\ cache[u] # None
    /\ Synced(u, cache[u])
    /\ UNCHANGED <<subject, doc, cache, fresh, get, put, saves, reads, mediaVars>>

\* The tab is left, with what was not saved.
Close(u) ==
    /\ draft[u] # None
    /\ draft' = [draft EXCEPT ![u] = None] /\ edited' = [edited EXCEPT ![u] = {}]
    /\ UNCHANGED <<subject, doc, cache, fresh, get, put, saves, reads, mediaVars>>

\* The copy is missing or older than 30 s when the tab is opened, or the
\* connection comes back: a GET is sent ...
Ask(u) ==
    /\ subject \in Boards /\ get[u] = NoGet /\ reads[u] < MaxReads
    /\ get' = [get EXCEPT ![u] = [st |-> "asked"]]
    /\ reads' = [reads EXCEPT ![u] = @ + 1]
    /\ UNCHANGED <<subject, doc, cache, fresh, draft, edited, put, saves, mediaVars>>

\* ... the server reads ...
Read(u) ==
    /\ get[u].st = "asked"
    /\ get' = [get EXCEPT ![u] = [st |-> "read", doc |-> doc, fresh |-> TRUE]]
    /\ UNCHANGED <<subject, doc, cache, fresh, draft, edited, put, saves, reads, mediaVars>>

\* mutant: a draft in use is left alone
KeepsEdits(u, copy) == IF edited[u] # {} THEN UNCHANGED <<draft, edited>> ELSE Synced(u, copy)

\* "(re)synced from the server whenever a fresh registry lands"
Resync(u, copy) == Synced(u, copy)

\* ... and its answer takes the place of the copy, whatever that has become
\* meanwhile.  An answer equal to the copy is no news.
Arrive(u) ==
    /\ get[u].st = "read"
    /\ cache' = [cache EXCEPT ![u] = get[u].doc]
    /\ fresh' = [fresh EXCEPT ![u] = get[u].fresh]
    /\ IF cache[u] = get[u].doc THEN UNCHANGED <<draft, edited>>
       ELSE IF draft[u] = None /\ cache[u] # None THEN UNCHANGED <<draft, edited>>
       ELSE Resync(u, get[u].doc)
    /\ get' = [get EXCEPT ![u] = NoGet]
    /\ UNCHANGED <<subject, doc, put, saves, reads, mediaVars>>

\* A switch, a phrase added or removed; it may be while a PUT is under way.
Edit(u, e) ==
    /\ draft[u] # None /\ e # "media"
    /\ draft' = [draft EXCEPT ![u] = SymDiff(@, {e})]
    /\ edited' = [edited EXCEPT ![u] = SymDiff(@, {e})]
    /\ UNCHANGED <<subject, doc, cache, fresh, get, put, saves, reads, mediaVars>>

\* The button is enabled while the draft differs from the copy.
Save(u) ==
    /\ draft[u] # None /\ draft[u] \ {"media"} # cache[u] \ {"media"}
    /\ put[u] = NoPut /\ saves < MaxSaves
    /\ saves' = saves + 1
    /\ put' = [put EXCEPT ![u] = [st |-> "sent", doc |-> draft[u], edited |-> edited[u],
                                  fresh |-> fresh[u]]]
    /\ UNCHANGED <<subject, doc, cache, fresh, draft, edited, get, reads, mediaVars>>

\* The document is replaced as a whole: nobody's copy is fresh any more.
Replace(u) ==
    /\ put[u].st = "sent"
    /\ doc' = put[u].doc
    /\ fresh' = [v \in User |-> FALSE]
    /\ get' = [v \in User |-> IF get[v].st = "read" THEN [get[v] EXCEPT !.fresh = FALSE]
                                                   ELSE get[v]]
    /\ put' = [v \in User |-> IF v = u THEN [put[u] EXCEPT !.st = "stored", !.fresh = TRUE]
                              ELSE IF put[v] = NoPut THEN NoPut
                              ELSE [put[v] EXCEPT !.fresh = FALSE]]
    /\ UNCHANGED <<subject, cache, draft, edited, saves, reads, mediaVars>>

\* onSuccess: the answer becomes the copy and the draft, and what was changed
\* meanwhile is gone.
Saved(u) ==
    /\ put[u].st = "stored"
    /\ cache' = [cache EXCEPT ![u] = put[u].doc]
    /\ fresh' = [fresh EXCEPT ![u] = put[u].fresh]
    /\ IF draft[u] = None THEN UNCHANGED <<draft, edited>> ELSE Synced(u, put[u].doc)
    /\ put' = [put EXCEPT ![u] = NoPut]
    /\ UNCHANGED <<subject, doc, get, saves, reads, mediaVars>>

\* onError, when the PUT or its answer is lost: the switches go back to the
\* copy, the phrases stay as they are.
SaveFails(u) ==
    /\ put[u] # NoPut
    /\ put' = [put EXCEPT ![u] = NoPut]
    /\ IF subject = "visibility" /\ draft[u] # None THEN Synced(u, cache[u])
       ELSE UNCHANGED <<draft, edited>>
    /\ UNCHANGED <<subject, doc, cache, fresh, get, saves, reads, mediaVars>>

-----------------------------------------------------------------------------
(* Media.                                                                  *)

\* upload_orphan_media, and upload_orphan_photo without a category.
Upload(c) ==
    /\ subject = "media" /\ item = NoItem
    /\ item' = [NoItem EXCEPT !.status = "pending", !.category = c]
    /\ UNCHANGED <<subject, boardVars, request, raced, hidden>>

\* mutant: "show" brings back what was hidden
Reopens == {"pending", "approved"}

\* The statuses moderate_media accepts; it also names "flagged", which nothing
\* sets.
Decidable == {"pending"}

ForSponsors == {"donor_only", "public"}

InSponsorState(m) == m.status = "approved" /\ m.visibility \in ForSponsors

\* moderate_media reads status and visibility; a decision on anything else is
\* answered 409, which is no step.
Moderate(u, decision) ==
    /\ subject = "media" /\ request[u] = Idle /\ item.status \in Decidable
    /\ request' = [request EXCEPT ![u] =
          [op |-> decision, status |-> item.status, visibility |-> item.visibility]]
    /\ UNCHANGED <<subject, boardVars, item, raced, hidden>>

\* update_media reads the item, whatever its status, and is to set one field:
\* "Hide" to archived, consent to what the card does not show, and any client
\* of the staff to any visibility.
Patch(u, field, value) ==
    /\ subject = "media" /\ request[u] = Idle /\ item.status # "absent"
    /\ request' = [request EXCEPT ![u] =
          [op |-> field, to |-> value, found |-> item[field]]]
    /\ UNCHANGED <<subject, boardVars, item, raced, hidden>>

\* What the request writes: a decision writes status and visibility, the
\* visibility of a rejection being the one it has read; a PATCH writes its field,
\* which the session leaves out if the value is the one it has loaded.
Written(q) ==
    CASE q.op = "approve" -> [item EXCEPT !.status = "approved", !.visibility = "donor_only"]
      [] q.op = "reject"  -> [item EXCEPT !.status = "rejected", !.visibility = q.visibility]
      [] OTHER -> IF q.to = q.found THEN item ELSE [item EXCEPT ![q.op] = q.to]

\* History: somebody hides the item, or decides that it be shown: by a PATCH that
\* writes, or by approving an item that awaits it.
Hides(q) == q.op = "visibility" /\ q.to \notin ForSponsors
Shows(q) ==
    \/ q.op = "visibility" /\ q.to \in ForSponsors /\ q.to # q.found
    \/ q.op = "approve" /\ item.status = "pending"

\* History: an approval writes over a decision it has not read, or a request to
\* hide writes nothing, for it found the item so, over one that is no longer so.
Overtaken(q) ==
    \/ q.op = "approve" /\ item.status # q.status
    \/ Hides(q) /\ q.to = q.found /\ item.visibility # q.to

Commit(u) ==
    LET q == request[u] IN
    /\ q # Idle
    /\ item' = Written(q)
    /\ raced' = (raced \/ Overtaken(q))
    /\ hidden' = ((hidden \/ Hides(q)) /\ ~Shows(q))
    /\ request' = [request EXCEPT ![u] = Idle]
    /\ UNCHANGED <<subject, boardVars>>

-----------------------------------------------------------------------------
Next ==
    \/ \E u \in User : \/ Open(u) \/ Close(u) \/ Ask(u) \/ Read(u) \/ Arrive(u)
                       \/ Save(u) \/ Replace(u) \/ Saved(u) \/ SaveFails(u)
                       \/ \E e \in UNION Docs(subject) : Edit(u, e)
                       \/ \E d \in {"approve", "reject"} : Moderate(u, d)
                       \/ \E v \in Visibility : Patch(u, "visibility", v)
                       \/ \E b \in BOOLEAN : Patch(u, "consent", b)
                       \/ Commit(u)
    \/ \E c \in Categories : Upload(c)

Spec == Init /\ [][Next]_vars

-----------------------------------------------------------------------------
(* A save changes only what its author changed by hand, unless somebody    *)
(* else had saved after the author's copy was read: no element is shown to *)
(* sponsors, no phrase brought back or dropped, that nobody touched - not  *)
(* by a refetch under the author's hands, a save that failed, or the       *)
(* element that has no switch (the drafts of ProfileVisibilityPanel and    *)
(* OrphanInHerWordsManager, and the PUTs that replace the whole).          *)
OnlyWhatWasEdited ==
    [][\A u \in User : put[u].st = "sent" /\ put'[u].st = "stored"
         => SymDiff(doc, doc') \subseteq put[u].edited \/ ~put[u].fresh]_vars

(* What somebody has hidden, sponsors are not shown until somebody shows   *)
(* it: by setting it visible or by approving it while it awaits that, and  *)
(* not by a rejection, which "leaves visibility untouched so the item      *)
(* stays hidden", by consent, or by a decision read earlier.  Left out are *)
(* the two overlaps Overtaken names (moderate_media tests the status it    *)
(* has read and writes both columns; update_media writes only what differs *)
(* from what it has loaded).                                               *)
HiddenStaysHidden == hidden /\ ~raced => ~InSponsorState(item)

\* mutant: the card does not know of consent
CardTakesConsent(m) == InSponsorState(m)

\* sponsorVisibility of lib/orphanMedia.ts.
CardSaysVisible(m) == InSponsorState(m) /\ (m.category = "album" => m.consent)

\* _build_media_block: categories of the block only, and nothing if the
\* element is hidden.
SponsorSees(m) ==
    /\ "media" \notin doc
    /\ m.status = "approved" /\ m.visibility \in ForSponsors
    /\ m.category \in {"drawing", "album"}
    /\ m.category \in {"album"} => m.consent

(* The card of an up-to-date list says "visible to the sponsor" exactly of *)
(* what the sponsor's page shows, but for photos without a category, which *)
(* that page leaves out, and unless media are hidden as a whole: the       *)
(* browser and the server each have a rule of their own.                   *)
CardTellsTruth ==
    subject = "media" =>
        /\ SponsorSees(item) => CardSaysVisible(item)
        /\ CardSaysVisible(item) /\ item.category # "photo" /\ "media" \notin doc
           => SponsorSees(item)
=============================================================================
