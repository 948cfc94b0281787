------------------------------ MODULE Catalog ------------------------------
(***************************************************************************)
(* What a shop may sell: src/src/approval-cases.js, enrollment.js,         *)
(* catalog-review-state.js, catalog-review-routes.js, catalog-routes.js,   *)
(* supplier-catalog.js and the service-line, role and verification routes  *)
(* of server.js.                                                           *)
(*                                                                         *)
(* One shop, its approval case, its service lines and one listing on one   *)
(* of the lines.  Operations decide the case, the lines and the listing on *)
(* separate desks while the shop edits all three.  An approved listing     *)
(* that is edited keeps selling as it was approved, out of a snapshot,     *)
(* until the edit is reviewed; retention must not take the photos of       *)
(* either version.                                                         *)
(*                                                                         *)
(* Terms stand for all that is reviewed besides the photos: price, units,  *)
(* options, formats.  Names, descriptions, turnaround, Express, the sample *)
(* offer with its price and the order of listings go live without review   *)
(* (LIVE_FIELDS); an edit of them is an edit to the same terms.            *)
(***************************************************************************)
EXTENDS Naturals, Sequences, Functions

CONSTANTS
    Lines,       \* service lines
    Listed,      \* the line the listing is on
    Terms,       \* what the listing may say
    Photos,      \* files uploaded for it
    MaxPhotos,   \* photos of a listing, eight in the code
    Reviewers,   \* people at the review desk
    Lookalikes,  \* a line is suspended with an account suspension's reason
    None         \* no snapshot, no content at a desk

ASSUME CatalogAssumption ==
    /\ Listed \in Lines /\ MaxPhotos \in Nat \ {0} /\ Lookalikes \in BOOLEAN

VARIABLES
    case,       \* status of the supplier's approval case
    member,     \* it has the supplier membership
    line,       \* supplierServices: state, tag of the case, legacy mark
    down,       \* history: what a suspended line was suspended with
    listing,    \* the catalogue item with its approvedSnapshot
    references, \* files whose references name the listing
    file,       \* what became of each file
    desk,       \* the content each reviewer has open, at today's version
    reviewed    \* history: the content last approved

account == <<case, member>>
services == <<line, down>>
shelf == <<listing, references, desk, reviewed>>
vars == <<account, services, shelf, file>>

PhotoLists == {s \in UNION {[1..n -> Photos] : n \in 0..MaxPhotos} : IsInjective(s)}
Content == [terms: Terms, photos: PhotoLists]
LineStates == {"none", "draft", "pending_verification", "live", "suspended", "withdrawn"}
Line == [state: LineStates, tag: BOOLEAN, alike: BOOLEAN]
Listing == [standing: {"none", "on", "deleted"}, active: BOOLEAN, takenDown: BOOLEAN,
            review: {"pending", "approved", "needs_revision"}, draft: Content,
            snapshot: Content \cup {None}, ordered: BOOLEAN]

TypeOK ==
    /\ case \in {"pending", "approved", "rejected", "suspended"} /\ member \in BOOLEAN
    /\ line \in [Lines -> Line]
    /\ down \in [Lines -> {"no", "account", "alone"}]
    /\ listing \in Listing /\ references \subseteq Photos
    /\ file \in [Photos -> {"ready", "expired", "removed"}]
    /\ desk \in [Reviewers -> Content \cup {None}]
    /\ reviewed \in Content \cup {None}

(***************************************************************************)
(* The listing as it is sold, and who may buy it                           *)
(***************************************************************************)
On == listing.standing = "on"
\* approvedCatalogView.
View == IF listing.snapshot = None THEN listing.draft ELSE listing.snapshot
InReview == listing.snapshot = None /\ listing.review # "approved"
HasPhoto(content) == \E p \in Range(content.photos) : file[p] = "ready"

\* catalogItemBlockers with publicOnly: no blocker is left.
Public ==
    /\ On /\ ~InReview /\ HasPhoto(View)
    /\ listing.active /\ ~listing.takenDown
    /\ line[Listed].state = "live" /\ member /\ case = "approved"

\* createOrderLineSnapshot: an order that names the listing.
Order ==
    /\ Public
    /\ listing' = [listing EXCEPT !.ordered = TRUE]
    /\ UNCHANGED <<account, services, references, desk, reviewed, file>>

(***************************************************************************)
(* Initial states: a shop that has just enrolled, and one of an older      *)
(* release, suspended by the legacy route before lines were tagged, whose  *)
(* listing was on the board before listings were reviewed.                 *)
(***************************************************************************)
Idle(state) == [state |-> state, tag |-> FALSE, alike |-> FALSE]
NewListing(terms, photos, review) ==
    [standing |-> "on", active |-> TRUE, takenDown |-> FALSE, review |-> review,
     draft |-> [terms |-> terms, photos |-> photos], snapshot |-> None, ordered |-> FALSE]
Unlisted(terms) == [NewListing(terms, << >>, "pending") EXCEPT !.standing = "none"]

\* enrollSupplier: lines in draft, a pending case.
JustEnrolled ==
    /\ case = "pending"
    /\ \E chosen \in (SUBSET Lines) \ {{}} :
          line = [l \in Lines |-> Idle(IF l \in chosen THEN "draft" ELSE "none")]
    /\ down = [l \in Lines |-> "no"]
    /\ \E t \in Terms : listing = Unlisted(t)
    /\ references = {} /\ reviewed = None

OlderRelease ==
    /\ case = "suspended"
    /\ line = [l \in Lines |-> IF l = Listed
                  THEN [state |-> "suspended", tag |-> FALSE, alike |-> TRUE] ELSE Idle("draft")]
    /\ down = [l \in Lines |-> IF l = Listed THEN "account" ELSE "no"]
    /\ \E t \in Terms, p \in Photos : listing = NewListing(t, <<p>>, "approved")
    /\ references = Range(listing.draft.photos) /\ reviewed = listing.draft

Init ==
    /\ JustEnrolled \/ OlderRelease
    /\ member = TRUE
    /\ file = [p \in Photos |-> "ready"]
    /\ desk = [r \in Reviewers |-> None]

(***************************************************************************)
(* The approval case: decideApprovalCase, reapplyForApproval, the          *)
(* verification and role routes of the server.  A decision on an older     *)
(* version, or one already made, changes nothing.                          *)
(***************************************************************************)
\* suspendSupplierServices: every live line goes down, tagged with the case.
SuspendLines ==
    /\ line' = [l \in Lines |-> IF line[l].state = "live"
                    THEN [line[l] EXCEPT !.state = "suspended", !.tag = TRUE] ELSE line[l]]
    /\ down' = [l \in Lines |-> IF line[l].state = "live" THEN "account" ELSE down[l]]

SuspendedWithAccount(l) ==
    line[l].state = "suspended" /\ (line[l].tag \/ line[l].alike)

DecideCase(from, to) == member /\ case = from /\ case' = to /\ UNCHANGED <<member, shelf, file>>

\* publishSupplierServices: the pending lines that are complete, one at least.
Approve ==
    /\ DecideCase("pending", "approved")
    /\ \E complete \in (SUBSET {l \in Lines : line[l].state = "pending_verification"}) \ {{}} :
        /\ line' = [l \in Lines |-> IF l \in complete
                        THEN [line[l] EXCEPT !.state = "live", !.alike = FALSE] ELSE line[l]]
        /\ down' = [l \in Lines |-> IF l \in complete THEN "no" ELSE down[l]]

Reject == DecideCase("pending", "rejected") /\ UNCHANGED services

Suspend == DecideCase("approved", "suspended") /\ SuspendLines

\* restoreSupplierServices: the lines the approver names, each of which must
\* have gone down with the account.
Restore ==
    /\ DecideCase("suspended", "approved")
    /\ \E named \in SUBSET {l \in Lines : SuspendedWithAccount(l)} :
        /\ line' = [l \in Lines |-> IF l \in named THEN Idle("live") ELSE line[l]]
        /\ down' = [l \in Lines |-> IF l \in named THEN "no" ELSE down[l]]

Reapply == DecideCase("rejected", "pending") /\ UNCHANGED services

\* POST /users/:id/verification with syncApprovalCaseWithVerification: a Super
\* Admin sets any status whatever the case says.
SetVerification ==
    /\ member
    /\ \E status \in {"pending", "approved", "suspended", "rejected"} :
        /\ case' = status
        /\ IF status \in {"suspended", "rejected"} THEN SuspendLines ELSE UNCHANGED services
    /\ UNCHANGED <<member, shelf, file>>

\* PATCH /users/:id/role: lines stay as they are; coming back starts a new case.
LeaveRole == member /\ member' = FALSE /\ UNCHANGED <<case, services, shelf, file>>
ReturnToRole ==
    /\ ~member
    /\ member' = TRUE /\ case' = "pending" /\ UNCHANGED <<services, shelf, file>>

(***************************************************************************)
(* Service lines                                                           *)
(***************************************************************************)
SetLine(l, new, cause) ==
    /\ line' = [line EXCEPT ![l] = new] /\ down' = [down EXCEPT ![l] = cause]
    /\ UNCHANGED <<account, shelf, file>>

CreateLine(l) == member /\ line[l].state = "none" /\ SetLine(l, Idle("draft"), "no")

\* A live line that takes on new work is verified again.
ExpandLine(l) ==
    /\ member /\ line[l].state = "live"
    /\ SetLine(l, [line[l] EXCEPT !.state = "pending_verification"], "no")

\* Its suspension is cleared, but for the tag.
SubmitLine(l) ==
    /\ member /\ line[l].state \notin {"none", "live"}
    /\ SetLine(l, [line[l] EXCEPT !.state = "pending_verification",
                                  !.alike = @ /\ line[l].state # "suspended"], "no")

MayVerify(l) == case = "approved" /\ member /\ line[l].state \notin {"none", "withdrawn"}
VerifyLine(l) == MayVerify(l) /\ SetLine(l, Idle("live"), "no")

\* As a mutant: the tag of an earlier account suspension stays.
StillTagged(l, likely) == [state |-> "suspended", tag |-> line[l].tag, alike |-> likely]
\* On its own now: an account restore no longer brings it back.
Untagged(l, likely) == [state |-> "suspended", tag |-> FALSE, alike |-> likely]
SuspendLine(l) ==
    /\ line[l].state # "none"
    /\ \E likely \in {FALSE, Lookalikes} : SetLine(l, Untagged(l, likely), "alone")

WithdrawLine(l) ==
    /\ member /\ line[l].state # "none"
    /\ SetLine(l, [line[l] EXCEPT !.state = "withdrawn"], down[l])

DeleteLine(l) ==
    /\ member /\ line[l].state # "none" /\ ~(l = Listed /\ On)
    /\ SetLine(l, Idle("none"), "no")

(***************************************************************************)
(* The listing: drafts and the approved snapshot                           *)
(***************************************************************************)
\* bumpVersion: what a reviewer has open is from now on refused as stale.
Closed == [r \in Reviewers |-> None]
Write(new) == listing' = new /\ desk' = Closed /\ UNCHANGED <<account, services, reviewed, file>>

\* As a mutant: the snapshot taken whatever the review says.
EditedAlways(content) ==
    IF content = listing.draft THEN listing
    ELSE [listing EXCEPT !.draft = content, !.review = "pending", !.snapshot = listing.draft]
\* startListingReview, for an edit of what is reviewed: the version a reviewer
\* approved becomes the snapshot, the draft waits for review.
Edited(content) ==
    IF content = listing.draft THEN listing
    ELSE [listing EXCEPT !.draft = content, !.review = "pending",
             !.snapshot = IF listing.review = "approved" THEN listing.draft ELSE @]

\* As a mutant: the draft's alone.
RetainedDraft(new) == Range(new.draft.photos)
\* retainApprovedPhotos: the files of the draft and of the snapshot, no other.
Retained(new) ==
    Range(new.draft.photos) \cup (IF new.snapshot = None THEN {} ELSE Range(new.snapshot.photos))

Edit(content) == Write(Edited(content)) /\ references' = Retained(Edited(content))

CreateListing ==
    /\ member /\ listing.standing = "none" /\ line[Listed].state # "none"
    /\ \E t \in Terms : Write(NewListing(t, << >>, "pending"))
    /\ UNCHANGED references

\* PATCH, formats, option groups and options.
EditTerms ==
    /\ member /\ On
    /\ \E t \in Terms : Edit([listing.draft EXCEPT !.terms = t])

\* PATCH active; not reviewed, and off while GRIDGO has taken it down.
SetActive ==
    /\ member /\ On
    /\ \E on \in BOOLEAN : (on => ~listing.takenDown) /\ Write([listing EXCEPT !.active = on])
    /\ references' = Retained(listing)

\* attachCatalogItemPhoto: at the end, or in the place of another.
AttachPhoto(p) ==
    LET photos == listing.draft.photos IN
    /\ member /\ On
    /\ file[p] = "ready" /\ p \notin references
    /\ \/ /\ Len(photos) < MaxPhotos
          /\ Edit([listing.draft EXCEPT !.photos = Append(photos, p)])
       \/ \E i \in DOMAIN photos : Edit([listing.draft EXCEPT !.photos[i] = p])

\* photos/reorder: some of them, in any order.
Reorder ==
    /\ member /\ On
    /\ \E kept \in PhotoLists :
        /\ Range(kept) \subseteq Range(listing.draft.photos)
        /\ Edit([listing.draft EXCEPT !.photos = kept])

DeleteListing ==
    /\ member /\ On
    /\ IF listing.ordered
       THEN Write([listing EXCEPT !.active = FALSE]) /\ references' = Retained(listing)
       ELSE Write([listing EXCEPT !.standing = "deleted"]) /\ UNCHANGED references

\* suspend and restore of one listing, by a Super Admin.
TakeDown ==
    /\ On /\ ~listing.takenDown
    /\ Write([listing EXCEPT !.active = FALSE, !.takenDown = TRUE]) /\ UNCHANGED references
PutBack ==
    /\ On /\ listing.takenDown
    /\ Write([listing EXCEPT !.active = FALSE, !.takenDown = FALSE]) /\ UNCHANGED references

(***************************************************************************)
(* The review desk                                                         *)
(***************************************************************************)
SubmitListing ==
    /\ member /\ On /\ listing.review # "approved" /\ HasPhoto(listing.draft)
    /\ Write([listing EXCEPT !.review = "pending"]) /\ UNCHANGED references

OpenReview(r) ==
    /\ On /\ listing.review = "pending"
    /\ desk' = [desk EXCEPT ![r] = listing.draft]
    /\ UNCHANGED <<account, services, listing, references, reviewed, file>>

\* A decision on the version the reviewer has open.
DecideReview(r) ==
    /\ On /\ listing.review = "pending" /\ desk[r] # None
    /\ desk' = Closed
    /\ \/ LET approved == [listing EXCEPT !.review = "approved", !.snapshot = None] IN
          /\ HasPhoto(listing.draft)
          /\ listing' = approved /\ references' = Retained(approved)
          /\ reviewed' = desk[r]
       \/ /\ listing' = [listing EXCEPT !.review = "needs_revision"]
          /\ UNCHANGED <<references, reviewed>>
    /\ UNCHANGED <<account, services, file>>

(***************************************************************************)
(* Files: retention of what nothing uses for a day, and early deletion by  *)
(* a Super Admin, which asks only for a reason.                            *)
(***************************************************************************)
Unused(p) == p \notin references /\ (On => p \notin Range(listing.draft.photos))
ExpirePhoto(p) ==
    /\ file[p] = "ready" /\ Unused(p)
    /\ file' = [file EXCEPT ![p] = "expired"] /\ UNCHANGED <<account, services, shelf>>
RemovePhoto(p) ==
    /\ file[p] = "ready"
    /\ file' = [file EXCEPT ![p] = "removed"] /\ UNCHANGED <<account, services, shelf>>

(***************************************************************************)
(* Specification                                                           *)
(***************************************************************************)
Cases == Approve \/ Reject \/ Suspend \/ Restore \/ Reapply \/ SetVerification
         \/ LeaveRole \/ ReturnToRole
LineSteps(l) == CreateLine(l) \/ ExpandLine(l) \/ SubmitLine(l) \/ VerifyLine(l)
                \/ SuspendLine(l) \/ WithdrawLine(l) \/ DeleteLine(l)
Edits == CreateListing \/ EditTerms \/ SetActive \/ Reorder \/ DeleteListing
         \/ TakeDown \/ PutBack \/ SubmitListing \/ Order
Next ==
    \/ Cases
    \/ \E l \in Lines : LineSteps(l)
    \/ Edits
    \/ \E r \in Reviewers : OpenReview(r) \/ DecideReview(r)
    \/ \E p \in Photos : AttachPhoto(p) \/ ExpirePhoto(p) \/ RemovePhoto(p)

Spec == Init /\ [][Next]_vars

(***************************************************************************)
(* Properties                                                              *)
(***************************************************************************)
\* The terms and photos that clients see and buy are those a reviewer last
\* approved, whatever the shop edits meanwhile (catalog-review-state.js,
\* "isolate supplier drafts from every client price path").
OnlyReviewedIsSold == Public => View = reviewed

\* Retention never takes a photo of the draft or of the version on sale, whose
\* snapshot it does not look into; only a Super Admin does.
ShownPhotosKeepTheirFiles ==
    On => \A p \in Range(listing.draft.photos) \cup Range(View.photos) : file[p] # "expired"

\* A restore can bring back exactly what went down with the account, never a
\* line Operations took down on its own (approval-cases.js:223).
RestorableLinesWentDownWithTheShop ==
    \A l \in Lines : SuspendedWithAccount(l) => down[l] = "account"
=============================================================================
