--------------------------- MODULE CatalogProofs ---------------------------
(***************************************************************************)
(* Theorems about Catalog.tla, for any lines, terms, photos and reviewers. *)
(*                                                                         *)
(* The three properties of the module need three invariants that do not    *)
(* meet: what the review has seen (Reviewed), which files the listing      *)
(* holds (Held), and what brought each line down (the property itself).    *)
(***************************************************************************)
EXTENDS Catalog, SequenceTheorems, TLAPS

USE CatalogAssumption

-----------------------------------------------------------------------------
(* Lists of photos.                                                        *)

(* A list of photos is a sequence without repetitions of at most MaxPhotos. *)
LEMMA PhotoListType ==
    ASSUME NEW s \in PhotoLists
    PROVE  /\ s \in Seq(Photos) /\ Len(s) \in 0..MaxPhotos
           /\ s \in [1..Len(s) -> Photos] /\ DOMAIN s = 1..Len(s)
           /\ \A i, j \in 1..Len(s) : s[i] = s[j] => i = j
<1>1. PICK n \in 0..MaxPhotos : s \in [1..n -> Photos]
  BY DEF PhotoLists
<1>2. n \in Nat /\ s \in Seq(Photos) /\ Len(s) = n /\ DOMAIN s = 1..n
  BY <1>1
<1>3. IsInjective(s)
  BY DEF PhotoLists
<1> QED
  BY <1>1, <1>2, <1>3 DEF IsInjective

(* And every such sequence is a list of photos.                            *)
LEMMA IsPhotoList ==
    ASSUME NEW n \in 0..MaxPhotos, NEW s \in [1..n -> Photos],
           \A i, j \in 1..n : s[i] = s[j] => i = j
    PROVE  s \in PhotoLists
BY DEF PhotoLists, IsInjective

(* No photo is a list.                                                     *)
LEMMA NoPhotos == << >> \in PhotoLists /\ Range(<< >>) = {}
<1>1. << >> \in [1..0 -> Photos] /\ 1..0 = {} /\ 0 \in 0..MaxPhotos /\ DOMAIN << >> = {}
  OBVIOUS
<1> DEFINE none == << >>
<1>2. none \in [1..0 -> Photos] /\ DOMAIN none = {}
  BY <1>1
<1> HIDE DEF none
<1>3. none \in PhotoLists
  BY <1>1, <1>2, IsPhotoList
<1>4. Range(none) = {}
  BY <1>2 DEF Range
<1> QED
  BY <1>3, <1>4 DEF none

(* A photo that is not in a list may be put at its end or in the place of  *)
(* another; the files of the result are those of the list and the photo.   *)
LEMMA PhotoAttached ==
    ASSUME NEW s \in PhotoLists, NEW p \in Photos, p \notin Range(s)
    PROVE  /\ Len(s) < MaxPhotos => Append(s, p) \in PhotoLists
           /\ Range(Append(s, p)) \subseteq Range(s) \cup {p}
           /\ \A i \in DOMAIN s :
                 /\ [s EXCEPT ![i] = p] \in PhotoLists
                 /\ Range([s EXCEPT ![i] = p]) \subseteq Range(s) \cup {p}
<1>1. /\ s \in Seq(Photos) /\ Len(s) \in 0..MaxPhotos
      /\ s \in [1..Len(s) -> Photos] /\ DOMAIN s = 1..Len(s)
      /\ \A i, j \in 1..Len(s) : s[i] = s[j] => i = j
  BY PhotoListType
<1>2. \A i \in 1..Len(s) : s[i] # p
  BY <1>1 DEF Range
<1> DEFINE longer == Append(s, p)
<1>3. /\ longer \in [1..(Len(s) + 1) -> Photos]
      /\ \A i \in 1..Len(s) : longer[i] = s[i]
      /\ longer[Len(s) + 1] = p
  <2>1. /\ longer \in Seq(Photos) /\ Len(longer) = Len(s) + 1
        /\ \A i \in 1..Len(s) : longer[i] = s[i]
        /\ longer[Len(s) + 1] = p
    BY <1>1, AppendProperties
  <2> HIDE DEF longer
  <2>2. longer \in [1..Len(longer) -> Photos]
    BY <2>1, LenProperties
  <2> QED
    BY <2>1, <2>2
<1>4. ASSUME Len(s) < MaxPhotos
      PROVE  longer \in PhotoLists
  <2>1. Len(s) + 1 \in 0..MaxPhotos
    BY <1>1, <1>4
  <2>2. \A i, j \in 1..(Len(s) + 1) : longer[i] = longer[j] => i = j
    <3>1. \A i \in 1..(Len(s) + 1) : i \in 1..Len(s) \/ i = Len(s) + 1
      BY <1>1
    <3> QED
      BY <3>1, <1>1, <1>2, <1>3
  <2> HIDE DEF longer
  <2> QED
    BY <2>1, <2>2, <1>3, IsPhotoList
<1>5. Range(longer) \subseteq Range(s) \cup {p}
  <2>1. DOMAIN longer = 1..(Len(s) + 1)
    BY <1>3
  <2>2. \A i \in 1..(Len(s) + 1) : i \in 1..Len(s) \/ i = Len(s) + 1
    BY <1>1
  <2> HIDE DEF longer
  <2> QED
    BY <1>1, <1>3, <2>1, <2>2 DEF Range
<1>6. ASSUME NEW i \in DOMAIN s
      PROVE  /\ [s EXCEPT ![i] = p] \in PhotoLists
             /\ Range([s EXCEPT ![i] = p]) \subseteq Range(s) \cup {p}
  <2> DEFINE other == [s EXCEPT ![i] = p]
  <2>1. /\ other \in [1..Len(s) -> Photos] /\ DOMAIN other = 1..Len(s)
        /\ \A j \in 1..Len(s) : other[j] = IF j = i THEN p ELSE s[j]
    BY <1>1, <1>6
  <2>2. \A j, k \in 1..Len(s) : other[j] = other[k] => j = k
    BY <2>1, <1>1, <1>2
  <2> HIDE DEF other
  <2>3. other \in PhotoLists
    BY <2>1, <2>2, <1>1, IsPhotoList
  <2>4. Range(other) \subseteq Range(s) \cup {p}
    BY <2>1, <1>1 DEF Range
  <2> QED
    BY <2>3, <2>4 DEF other
<1> QED
  BY <1>4, <1>5, <1>6

-----------------------------------------------------------------------------
(* The invariants of the listing.                                          *)

(* The listing is named by the references of every file it shows, and      *)
(* retention took none of the files that name it.                          *)
Held ==
    /\ On => /\ Range(listing.draft.photos) \subseteq references
             /\ listing.snapshot # None =>
                   Range(listing.snapshot.photos) \subseteq references
    /\ \A p \in references : file[p] # "expired"

(* An approved draft, or else the snapshot, is what was approved last, and *)
(* whatever a reviewer can still decide on is today's draft.               *)
Reviewed ==
    /\ On /\ listing.review = "approved" => listing.snapshot = None /\ reviewed = listing.draft
    /\ On /\ listing.snapshot # None => listing.snapshot = reviewed
    /\ \A r \in Reviewers : desk[r] # None => desk[r] = listing.draft

ListingInv == Held /\ Reviewed

-----------------------------------------------------------------------------
(* Types.                                                                  *)

(* A service line keeps the shape of one whatever is written of it.        *)
LEMMA LineWritten ==
    ASSUME TypeOK, NEW l \in Lines, NEW new \in Line,
           NEW cause \in {"no", "account", "alone"}, SetLine(l, new, cause)
    PROVE  TypeOK'
BY DEF TypeOK, SetLine, account, shelf

(* A line of any state is a line.                                          *)
LEMMA LineTypes ==
    /\ \A state \in LineStates : Idle(state) \in Line
    /\ \A old \in Line, state \in LineStates : [old EXCEPT !.state = state] \in Line
BY DEF Idle, Line

(* An edit of a listing is a listing, and its draft is what was written.   *)
LEMMA EditType ==
    ASSUME listing \in Listing, NEW content \in Content
    PROVE  /\ Edited(content) \in Listing
           /\ Edited(content).draft = content
           /\ Edited(content).standing = listing.standing
BY DEF Edited, Listing

(* The files a listing retains are files.                                  *)
LEMMA RetainedType ==
    ASSUME NEW new \in Listing
    PROVE  Retained(new) \subseteq Photos
<1>1. \A s \in PhotoLists : Range(s) \subseteq Photos
  <2> TAKE s \in PhotoLists
  <2> QED
    BY PhotoListType DEF Range
<1>2. new.draft.photos \in PhotoLists
  BY DEF Listing, Content
<1>3. new.snapshot # None => new.snapshot.photos \in PhotoLists
  BY DEF Listing, Content
<1> QED
  BY <1>1, <1>2, <1>3 DEF Retained

(* Nobody has the listing open after a write.                              *)
LEMMA ClosedType == Closed \in [Reviewers -> Content \cup {None}]
BY DEF Closed

(* A write of a listing keeps the types.                                   *)
LEMMA WriteType ==
    ASSUME TypeOK, NEW new \in Listing, Write(new), references' \subseteq Photos
    PROVE  TypeOK'
BY ClosedType DEF TypeOK, Write, account, services

(* So does an edit.                                                        *)
LEMMA EditWritten ==
    ASSUME TypeOK, NEW content \in Content, Edit(content)
    PROVE  TypeOK'
<1>1. Edited(content) \in Listing
  BY EditType DEF TypeOK
<1> QED
  BY <1>1, RetainedType, WriteType DEF Edit

(* The types hold at the start.                                            *)
LEMMA TypeInit == Init => TypeOK
<1> SUFFICES ASSUME Init PROVE TypeOK
  OBVIOUS
<1>1. \A t \in Terms : NewListing(t, << >>, "pending") \in Listing
  BY NoPhotos DEF NewListing, Listing, Content
<1>2. \A p \in Photos : <<p>> \in PhotoLists
  <2> TAKE p \in Photos
  <2>1. /\ <<p>> \in [1..1 -> Photos] /\ 1 \in 0..MaxPhotos
        /\ \A i, j \in 1..1 : <<p>>[i] = <<p>>[j] => i = j
    OBVIOUS
  <2> QED
    BY <2>1, IsPhotoList
<1>3. CASE JustEnrolled
  BY <1>3, <1>1 DEF JustEnrolled, Init, TypeOK, Idle, Line, LineStates, Unlisted, Listing
<1>4. CASE OlderRelease
  <2>1. PICK t \in Terms, p \in Photos : listing = NewListing(t, <<p>>, "approved")
    BY <1>4 DEF OlderRelease
  <2>2. listing \in Listing /\ listing.draft \in Content
    BY <2>1, <1>2 DEF NewListing, Listing, Content
  <2>3. listing.draft.photos = <<p>>
    BY <2>1 DEF NewListing
  <2>4. Range(<<p>>) \subseteq Photos
    BY DEF Range
  <2> QED
    BY <1>4, <2>2, <2>3, <2>4 DEF OlderRelease, Init, TypeOK, Idle, Line, LineStates
<1> QED
  BY <1>3, <1>4 DEF Init

(* The decisions on the account keep the types.                            *)
LEMMA CasesType == ASSUME TypeOK, Cases PROVE TypeOK'
<1>1. SuspendLines => /\ line' \in [Lines -> Line]
                      /\ down' \in [Lines -> {"no", "account", "alone"}]
  <2>1. \A l \in Lines : line[l] \in Line /\ [line[l] EXCEPT !.state = "suspended", !.tag = TRUE] \in Line
    BY DEF TypeOK, Line, LineStates
  <2> QED
    BY <2>1 DEF SuspendLines, TypeOK
<1>2. CASE Approve
  <2>1. PICK complete \in SUBSET Lines :
          /\ line' = [l \in Lines |-> IF l \in complete
                         THEN [line[l] EXCEPT !.state = "live", !.alike = FALSE] ELSE line[l]]
          /\ down' = [l \in Lines |-> IF l \in complete THEN "no" ELSE down[l]]
    BY <1>2 DEF Approve
  <2>2. line' \in [Lines -> Line] /\ down' \in [Lines -> {"no", "account", "alone"}]
    BY <2>1 DEF TypeOK, Line, LineStates
  <2> QED
    BY <2>2, <1>2 DEF Approve, DecideCase, TypeOK, shelf
<1>3. CASE Restore
  <2>1. PICK named \in SUBSET Lines :
          /\ line' = [l \in Lines |-> IF l \in named THEN Idle("live") ELSE line[l]]
          /\ down' = [l \in Lines |-> IF l \in named THEN "no" ELSE down[l]]
    BY <1>3 DEF Restore
  <2>2. line' \in [Lines -> Line] /\ down' \in [Lines -> {"no", "account", "alone"}]
    BY <2>1, LineTypes DEF TypeOK, LineStates
  <2> QED
    BY <2>2, <1>3 DEF Restore, DecideCase, TypeOK, shelf
<1>4. CASE Reject \/ Reapply
  BY <1>4 DEF Reject, Reapply, DecideCase, TypeOK, services, shelf
<1>5. CASE Suspend
  BY <1>5, <1>1 DEF Suspend, DecideCase, TypeOK, shelf
<1>6. CASE SetVerification
  BY <1>6, <1>1 DEF SetVerification, TypeOK, services, shelf
<1>7. CASE LeaveRole \/ ReturnToRole
  BY <1>7 DEF LeaveRole, ReturnToRole, TypeOK, services, shelf
<1> QED
  BY <1>2, <1>3, <1>4, <1>5, <1>6, <1>7 DEF Cases

(* What is done with a service line keeps the types.                       *)
LEMMA LineType == ASSUME TypeOK, NEW l \in Lines, LineSteps(l) PROVE TypeOK'
<1>1. line[l] \in Line /\ down[l] \in {"no", "account", "alone"}
  BY DEF TypeOK
<1>2. /\ Idle("draft") \in Line /\ Idle("live") \in Line /\ Idle("none") \in Line
      /\ [line[l] EXCEPT !.state = "pending_verification"] \in Line
      /\ [line[l] EXCEPT !.state = "withdrawn"] \in Line
  BY <1>1, LineTypes DEF LineStates
<1>3. [line[l] EXCEPT !.state = "pending_verification",
                      !.alike = @ /\ line[l].state # "suspended"] \in Line
  BY <1>1 DEF Line, LineStates
<1>4. \A likely \in BOOLEAN : Untagged(l, likely) \in Line
  BY DEF Untagged, Line, LineStates
<1>5. CASE CreateLine(l) \/ DeleteLine(l) \/ VerifyLine(l)
  BY <1>5, <1>2, LineWritten DEF CreateLine, DeleteLine, VerifyLine
<1>6. CASE ExpandLine(l) \/ WithdrawLine(l)
  BY <1>6, <1>1, <1>2, LineWritten DEF ExpandLine, WithdrawLine
<1>7. CASE SubmitLine(l)
  BY <1>7, <1>3, LineWritten DEF SubmitLine
<1>8. CASE SuspendLine(l)
  BY <1>8, <1>4, LineWritten DEF SuspendLine
<1> QED
  BY <1>5, <1>6, <1>7, <1>8 DEF LineSteps

(* What the shop, a Super Admin and a buyer do with the listing.           *)
LEMMA EditsType == ASSUME TypeOK, Edits PROVE TypeOK'
<1>1. /\ listing \in Listing /\ references \subseteq Photos
      /\ listing.draft \in Content /\ Retained(listing) \subseteq Photos
  BY RetainedType DEF TypeOK, Listing
<1>2. CASE CreateListing
  <2>1. \A t \in Terms : NewListing(t, << >>, "pending") \in Listing
    BY NoPhotos DEF NewListing, Listing, Content
  <2> QED
    BY <1>2, <2>1, <1>1, WriteType DEF CreateListing
<1>3. CASE EditTerms
  <2>1. PICK t \in Terms : Edit([listing.draft EXCEPT !.terms = t])
    BY <1>3 DEF EditTerms
  <2>2. [listing.draft EXCEPT !.terms = t] \in Content
    BY <1>1 DEF Content
  <2> QED
    BY <2>1, <2>2, EditWritten
<1>4. CASE Reorder
  <2>1. PICK kept \in PhotoLists : Edit([listing.draft EXCEPT !.photos = kept])
    BY <1>4 DEF Reorder
  <2>2. [listing.draft EXCEPT !.photos = kept] \in Content
    BY <1>1 DEF Content
  <2> QED
    BY <2>1, <2>2, EditWritten
<1>5. CASE SetActive
  <2>1. \A on \in BOOLEAN : [listing EXCEPT !.active = on] \in Listing
    BY <1>1 DEF Listing
  <2> QED
    BY <1>5, <2>1, <1>1, WriteType DEF SetActive
<1>6. CASE DeleteListing
  <2>1. /\ [listing EXCEPT !.active = FALSE] \in Listing
        /\ [listing EXCEPT !.standing = "deleted"] \in Listing
    BY <1>1 DEF Listing
  <2> QED
    BY <1>6, <2>1, <1>1, WriteType DEF DeleteListing
<1>7. CASE TakeDown \/ PutBack
  <2>1. \A off \in BOOLEAN : [listing EXCEPT !.active = FALSE, !.takenDown = off] \in Listing
    BY <1>1 DEF Listing
  <2> QED
    BY <1>7, <2>1, <1>1, WriteType DEF TakeDown, PutBack
<1>8. CASE SubmitListing
  <2>1. [listing EXCEPT !.review = "pending"] \in Listing
    BY <1>1 DEF Listing
  <2> QED
    BY <1>8, <2>1, <1>1, WriteType DEF SubmitListing
<1>9. CASE Order
  BY <1>9, <1>1 DEF Order, TypeOK, Listing, account, services
<1> QED
  BY <1>2, <1>3, <1>4, <1>5, <1>6, <1>7, <1>8, <1>9 DEF Edits

(* The review desk and the files.                                          *)
LEMMA DeskType == ASSUME TypeOK, NEW r \in Reviewers, OpenReview(r) \/ DecideReview(r) PROVE TypeOK'
<1>1. listing \in Listing /\ listing.draft \in Content
  BY DEF TypeOK, Listing
<1>2. CASE OpenReview(r)
  BY <1>2, <1>1 DEF OpenReview, TypeOK, account, services
<1>3. CASE DecideReview(r)
  <2> DEFINE approved == [listing EXCEPT !.review = "approved", !.snapshot = None]
  <2>1. approved \in Listing /\ [listing EXCEPT !.review = "needs_revision"] \in Listing
    BY <1>1 DEF Listing
  <2> HIDE DEF approved
  <2>2. Retained(approved) \subseteq Photos
    BY <2>1, RetainedType
  <2>3. /\ listing' \in Listing /\ references' \subseteq Photos
        /\ reviewed' \in Content \cup {None}
    BY <1>3, <2>1, <2>2 DEF DecideReview, TypeOK, approved
  <2> QED
    BY <1>3, <2>3, ClosedType DEF DecideReview, TypeOK, account, services
<1> QED
  BY <1>2, <1>3

(* A photo that is attached is in no list yet: the files of the draft name *)
(* the listing, and the route refuses one that does.                       *)
LEMMA PhotoType ==
    ASSUME TypeOK, NEW p \in Photos, AttachPhoto(p) \/ ExpirePhoto(p) \/ RemovePhoto(p),
           Held
    PROVE  TypeOK'
<1>1. /\ listing \in Listing /\ listing.draft \in Content
      /\ listing.draft.photos \in PhotoLists
  BY DEF TypeOK, Listing, Content
<1>2. CASE AttachPhoto(p)
  <2> DEFINE photos == listing.draft.photos
  <2>1. p \notin Range(photos)
    BY <1>2 DEF AttachPhoto, Held
  <2>2. PICK new : Edit([listing.draft EXCEPT !.photos = new]) /\ new \in PhotoLists
    <3>1. CASE Len(photos) < MaxPhotos /\ Edit([listing.draft EXCEPT !.photos = Append(photos, p)])
      <4>1. Append(photos, p) \in PhotoLists
        BY <3>1, <2>1, <1>1, PhotoAttached
      <4> QED
        BY <3>1, <4>1
    <3>2. CASE \E i \in DOMAIN photos : Edit([listing.draft EXCEPT !.photos[i] = p])
      <4>1. PICK i \in DOMAIN photos : Edit([listing.draft EXCEPT !.photos[i] = p])
        BY <3>2
      <4>2. [photos EXCEPT ![i] = p] \in PhotoLists
        BY <2>1, <1>1, PhotoAttached
      <4>3. [listing.draft EXCEPT !.photos[i] = p]
              = [listing.draft EXCEPT !.photos = [photos EXCEPT ![i] = p]]
        BY <1>1 DEF Content
      <4> QED
        BY <4>1, <4>2, <4>3
    <3> QED
      BY <3>1, <3>2, <1>2 DEF AttachPhoto
  <2>3. [listing.draft EXCEPT !.photos = new] \in Content
    BY <2>2, <1>1 DEF Content
  <2> QED
    BY <2>2, <2>3, EditWritten
<1>3. CASE ExpirePhoto(p) \/ RemovePhoto(p)
  BY <1>3 DEF ExpirePhoto, RemovePhoto, TypeOK, account, services, shelf
<1> QED
  BY <1>2, <1>3

(* Every step keeps the types, whose lists of photos depend on Held.       *)
LEMMA TypeStep == ASSUME TypeOK, Held, [Next]_vars PROVE TypeOK'
<1>1. CASE Cases
  BY <1>1, CasesType
<1>2. CASE \E l \in Lines : LineSteps(l)
  BY <1>2, LineType
<1>3. CASE Edits
  BY <1>3, EditsType
<1>4. CASE \E r \in Reviewers : OpenReview(r) \/ DecideReview(r)
  BY <1>4, DeskType
<1>5. CASE \E p \in Photos : AttachPhoto(p) \/ ExpirePhoto(p) \/ RemovePhoto(p)
  BY <1>5, PhotoType
<1>6. CASE UNCHANGED vars
  BY <1>6 DEF vars, account, services, shelf, TypeOK
<1> QED
  BY <1>1, <1>2, <1>3, <1>4, <1>5, <1>6 DEF Next

-----------------------------------------------------------------------------
(* What a step makes of the listing.                                       *)

(* A write that leaves the draft and the snapshot, and approves nothing.   *)
LEMMA WriteKeeps ==
    ASSUME TypeOK, ListingInv, On, NEW new \in Listing, Write(new),
           new.draft = listing.draft, new.snapshot = listing.snapshot,
           new.review = "approved" => listing.review = "approved",
           references' \in {references, Retained(listing)}
    PROVE  ListingInv'
<1>1. listing' = new /\ file' = file /\ reviewed' = reviewed /\ desk' = Closed
  BY DEF Write
<1>2. \A r \in Reviewers : desk'[r] = None
  BY <1>1 DEF Closed
<1>3. references' \subseteq references
  BY DEF ListingInv, Held, Retained
<1>4. Range(new.draft.photos) \subseteq references'
  BY DEF ListingInv, Held, Retained
<1>5. new.snapshot # None => Range(new.snapshot.photos) \subseteq references'
  BY DEF ListingInv, Held, Retained
<1>6. Held'
  BY <1>1, <1>3, <1>4, <1>5 DEF ListingInv, Held
<1>7. Reviewed'
  BY <1>1, <1>2 DEF ListingInv, Reviewed, On
<1> QED
  BY <1>6, <1>7 DEF ListingInv

(* An edit, whose photos are the listing's own or ready files.             *)
LEMMA EditKeeps ==
    ASSUME TypeOK, ListingInv, On, NEW content \in Content, Edit(content),
           \A p \in Range(content.photos) : p \in references \/ file[p] = "ready"
    PROVE  ListingInv'
<1> DEFINE new == Edited(content)
<1>1. /\ listing' = new /\ file' = file /\ reviewed' = reviewed /\ desk' = Closed
      /\ references' = Retained(new)
  BY DEF Edit, Write
<1>2. \A r \in Reviewers : desk'[r] = None
  BY <1>1 DEF Closed
<1>3. new.draft = content /\ new.standing = "on"
  BY EditType DEF TypeOK, On
<1>4. new = listing \/ (/\ new.review = "pending"
                        /\ new.snapshot = IF listing.review = "approved" THEN listing.draft
                                          ELSE listing.snapshot)
  BY DEF Edited, TypeOK, Listing
<1> HIDE DEF new
<1>5. new.snapshot # None => Range(new.snapshot.photos) \subseteq references
  BY <1>4 DEF ListingInv, Held
<1>6. Held'
  <2>1. \A p \in references' : p \in references \/ file[p] = "ready"
    BY <1>1, <1>3, <1>5 DEF Retained
  <2>2. \A p \in references' : file'[p] # "expired"
    BY <1>1, <2>1 DEF ListingInv, Held
  <2> QED
    BY <1>1, <2>2 DEF Held, Retained
<1>7. Reviewed'
  BY <1>1, <1>2, <1>3, <1>4 DEF ListingInv, Reviewed, On
<1> QED
  BY <1>6, <1>7 DEF ListingInv

(* The invariants hold at the start.                                       *)
LEMMA ListingInit == Init => ListingInv
<1> SUFFICES ASSUME Init PROVE ListingInv
  OBVIOUS
<1>1. CASE JustEnrolled
  <2>1. ~On /\ references = {}
    BY <1>1 DEF JustEnrolled, On, Unlisted, NewListing
  <2> QED
    BY <2>1 DEF Init, ListingInv, Held, Reviewed
<1>2. CASE OlderRelease
  <2>1. listing.snapshot = None
    BY <1>2 DEF OlderRelease, NewListing
  <2> QED
    BY <1>2, <2>1, TypeInit DEF OlderRelease, Init, ListingInv, Held, Reviewed, TypeOK
<1> QED
  BY <1>1, <1>2 DEF Init

(* What the shop, a Super Admin and a buyer do with the listing.           *)
LEMMA EditsKeep == ASSUME TypeOK, ListingInv, Edits PROVE ListingInv'
<1>1. /\ listing \in Listing /\ listing.draft \in Content
      /\ listing.draft.photos \in PhotoLists
  BY DEF TypeOK, Listing, Content
<1>2. CASE CreateListing
  <2>1. PICK t \in Terms : Write(NewListing(t, << >>, "pending")) /\ UNCHANGED references
    BY <1>2 DEF CreateListing
  <2> DEFINE new == NewListing(t, << >>, "pending")
  <2>2. /\ new.draft.photos = << >> /\ new.snapshot = None /\ new.review = "pending"
    BY DEF NewListing
  <2> HIDE DEF new
  <2>3. listing' = new /\ file' = file /\ \A r \in Reviewers : desk'[r] = None
    BY <2>1 DEF Write, Closed, new
  <2> QED
    BY <2>1, <2>2, <2>3, NoPhotos DEF ListingInv, Held, Reviewed
<1>3. CASE EditTerms
  <2>1. PICK t \in Terms : Edit([listing.draft EXCEPT !.terms = t]) /\ On
    BY <1>3 DEF EditTerms
  <2>2. /\ [listing.draft EXCEPT !.terms = t] \in Content
        /\ [listing.draft EXCEPT !.terms = t].photos = listing.draft.photos
    BY <1>1 DEF Content
  <2> QED
    BY <2>1, <2>2, EditKeeps DEF ListingInv, Held
<1>4. CASE Reorder
  <2>1. PICK kept \in PhotoLists : /\ Edit([listing.draft EXCEPT !.photos = kept]) /\ On
                                   /\ Range(kept) \subseteq Range(listing.draft.photos)
    BY <1>4 DEF Reorder
  <2>2. /\ [listing.draft EXCEPT !.photos = kept] \in Content
        /\ [listing.draft EXCEPT !.photos = kept].photos = kept
    BY <1>1 DEF Content
  <2> QED
    BY <2>1, <2>2, EditKeeps DEF ListingInv, Held
<1>5. CASE SetActive
  <2>1. \A on \in BOOLEAN :
          LET new == [listing EXCEPT !.active = on] IN
          /\ new \in Listing /\ new.draft = listing.draft
          /\ new.snapshot = listing.snapshot /\ new.review = listing.review
    BY <1>1 DEF Listing
  <2> QED
    BY <1>5, <2>1, WriteKeeps DEF SetActive
<1>6. CASE DeleteListing
  <2>1. \A new \in {[listing EXCEPT !.active = FALSE], [listing EXCEPT !.standing = "deleted"]} :
          /\ new \in Listing /\ new.draft = listing.draft
          /\ new.snapshot = listing.snapshot /\ new.review = listing.review
    BY <1>1 DEF Listing
  <2> QED
    BY <1>6, <2>1, WriteKeeps DEF DeleteListing
<1>7. CASE TakeDown \/ PutBack
  <2>1. \A off \in BOOLEAN :
          LET new == [listing EXCEPT !.active = FALSE, !.takenDown = off] IN
          /\ new \in Listing /\ new.draft = listing.draft
          /\ new.snapshot = listing.snapshot /\ new.review = listing.review
    BY <1>1 DEF Listing
  <2> QED
    BY <1>7, <2>1, WriteKeeps DEF TakeDown, PutBack
<1>8. CASE SubmitListing
  <2> DEFINE new == [listing EXCEPT !.review = "pending"]
  <2>1. /\ new \in Listing /\ new.draft = listing.draft
        /\ new.snapshot = listing.snapshot /\ new.review = "pending"
    BY <1>1 DEF Listing
  <2> HIDE DEF new
  <2> QED
    BY <1>8, <2>1, WriteKeeps DEF SubmitListing, new
<1>9. CASE Order
  <2>1. /\ listing'.draft = listing.draft /\ listing'.snapshot = listing.snapshot
        /\ listing'.review = listing.review /\ On' = On
        /\ UNCHANGED <<references, desk, reviewed, file>>
    BY <1>9, <1>1 DEF Order, On, Listing
  <2> QED
    BY <2>1 DEF ListingInv, Held, Reviewed
<1> QED
  BY <1>2, <1>3, <1>4, <1>5, <1>6, <1>7, <1>8, <1>9 DEF Edits

(* The review desk.                                                        *)
LEMMA DeskKeeps ==
    ASSUME TypeOK, ListingInv, NEW r \in Reviewers, OpenReview(r) \/ DecideReview(r)
    PROVE  ListingInv'
<1>1. listing \in Listing
  BY DEF TypeOK
<1>2. CASE OpenReview(r)
  <2>1. \A q \in Reviewers : desk'[q] \in {desk[q], listing.draft}
    BY <1>2 DEF OpenReview, TypeOK
  <2> QED
    BY <1>2, <2>1 DEF OpenReview, ListingInv, Held, Reviewed, On
<1>3. CASE DecideReview(r)
  <2> DEFINE approved == [listing EXCEPT !.review = "approved", !.snapshot = None]
             revise == [listing EXCEPT !.review = "needs_revision"]
  <2>1. /\ approved.draft = listing.draft /\ approved.snapshot = None
        /\ revise.draft = listing.draft /\ revise.snapshot = listing.snapshot
        /\ revise.review = "needs_revision" /\ revise.standing = listing.standing
    BY <1>1 DEF Listing
  <2> HIDE DEF approved, revise
  <2>2. file' = file /\ \A q \in Reviewers : desk'[q] = None
    BY <1>3 DEF DecideReview, Closed
  <2>3. desk[r] = listing.draft /\ On
    BY <1>3 DEF DecideReview, ListingInv, Reviewed
  <2>4. CASE listing' = approved /\ references' = Retained(approved) /\ reviewed' = desk[r]
    <3>1. references' = Range(listing.draft.photos)
      BY <2>1, <2>4 DEF Retained
    <3> QED
      BY <2>1, <2>2, <2>3, <2>4, <3>1 DEF ListingInv, Held, Reviewed
  <2>5. CASE listing' = revise /\ UNCHANGED <<references, reviewed>>
    BY <2>1, <2>2, <2>3, <2>5 DEF ListingInv, Held, Reviewed, On
  <2> QED
    BY <1>3, <2>4, <2>5 DEF DecideReview, approved, revise
<1> QED
  BY <1>2, <1>3

(* The files: a ready file is attached, one nothing names expires.         *)
LEMMA PhotoKeeps ==
    ASSUME TypeOK, ListingInv, NEW p \in Photos,
           AttachPhoto(p) \/ ExpirePhoto(p) \/ RemovePhoto(p)
    PROVE  ListingInv'
<1>1. /\ listing.draft \in Content /\ listing.draft.photos \in PhotoLists
  BY DEF TypeOK, Listing, Content
<1>2. CASE AttachPhoto(p)
  <2> DEFINE photos == listing.draft.photos
  <2>1. On /\ file[p] = "ready" /\ p \notin Range(photos)
    BY <1>2 DEF AttachPhoto, ListingInv, Held
  <2>2. ASSUME NEW new \in PhotoLists, Range(new) \subseteq Range(photos) \cup {p},
               Edit([listing.draft EXCEPT !.photos = new])
        PROVE  ListingInv'
    <3> DEFINE content == [listing.draft EXCEPT !.photos = new]
    <3>1. content \in Content /\ content.photos = new /\ Edit(content)
      BY <1>1, <2>2 DEF Content
    <3>2. \A q \in Range(photos) : q \in references
      BY <2>1 DEF ListingInv, Held
    <3> HIDE DEF content, photos
    <3>3. \A q \in Range(content.photos) : q \in references \/ file[q] = "ready"
      BY <2>1, <2>2, <3>1, <3>2
    <3> QED
      BY <2>1, <3>1, <3>3, EditKeeps
  <2>3. CASE Len(photos) < MaxPhotos /\ Edit([listing.draft EXCEPT !.photos = Append(photos, p)])
    BY <2>1, <2>2, <2>3, <1>1, PhotoAttached
  <2>4. CASE \E i \in DOMAIN photos : Edit([listing.draft EXCEPT !.photos[i] = p])
    <3>1. PICK i \in DOMAIN photos : Edit([listing.draft EXCEPT !.photos[i] = p])
      BY <2>4
    <3>2. [listing.draft EXCEPT !.photos[i] = p]
            = [listing.draft EXCEPT !.photos = [photos EXCEPT ![i] = p]]
      BY <1>1 DEF Content
    <3> DEFINE new == [photos EXCEPT ![i] = p]
    <3>3. new \in PhotoLists /\ Range(new) \subseteq Range(photos) \cup {p}
      BY <2>1, <1>1, PhotoAttached
    <3>4. Edit([listing.draft EXCEPT !.photos = new])
      BY <3>1, <3>2
    <3> QED
      BY <2>2, <3>3, <3>4
  <2> QED
    BY <1>2, <2>3, <2>4 DEF AttachPhoto
<1>3. CASE ExpirePhoto(p)
  <2>1. p \notin references /\ UNCHANGED shelf /\ \A q \in Photos : q # p => file'[q] = file[q]
    BY <1>3 DEF ExpirePhoto, Unused, TypeOK
  <2> QED
    BY <2>1 DEF ListingInv, Held, Reviewed, On, shelf, TypeOK
<1>4. CASE RemovePhoto(p)
  <2>1. UNCHANGED shelf /\ \A q \in Photos : file'[q] \in {file[q], "removed"}
    BY <1>4 DEF RemovePhoto, TypeOK
  <2> QED
    BY <2>1 DEF ListingInv, Held, Reviewed, On, shelf, TypeOK
<1> QED
  BY <1>2, <1>3, <1>4

(* Every step keeps the invariants: the account and the lines leave the    *)
(* listing alone.                                                          *)
LEMMA ListingStep == ASSUME TypeOK, ListingInv, [Next]_vars PROVE ListingInv'
<1>1. UNCHANGED <<shelf, file>> => ListingInv'
  BY DEF ListingInv, Held, Reviewed, On, shelf
<1>2. Cases => UNCHANGED <<shelf, file>>
  BY DEF Cases, Approve, Reject, Suspend, Restore, Reapply, DecideCase, SetVerification,
         LeaveRole, ReturnToRole
<1>3. \A l \in Lines : LineSteps(l) => UNCHANGED <<shelf, file>>
  BY DEF LineSteps, CreateLine, ExpandLine, SubmitLine, VerifyLine, SuspendLine,
         WithdrawLine, DeleteLine, SetLine
<1>4. UNCHANGED vars => UNCHANGED <<shelf, file>>
  BY DEF vars
<1> QED
  BY <1>1, <1>2, <1>3, <1>4, EditsKeep, DeskKeeps, PhotoKeeps DEF Next

(* Types and the invariants of the listing together are inductive.         *)
LEMMA ListingInvariant == Spec => [](TypeOK /\ ListingInv)
<1>1. Init => TypeOK /\ ListingInv
  BY TypeInit, ListingInit
<1>2. TypeOK /\ ListingInv /\ [Next]_vars => (TypeOK /\ ListingInv)'
  BY TypeStep, ListingStep DEF ListingInv
<1> QED
  BY <1>1, <1>2, PTL DEF Spec

-----------------------------------------------------------------------------
(* The theorems.                                                           *)

(* Every state has its declared types; a photo is never twice on a listing.*)
THEOREM TypeCorrect == Spec => []TypeOK
BY ListingInvariant, PTL

(* Whatever the shop edits and whoever decides what it has open, clients   *)
(* see and buy the content that was approved last.                         *)
THEOREM ReviewedSold == Spec => []OnlyReviewedIsSold
<1>1. TypeOK /\ ListingInv => OnlyReviewedIsSold
  BY DEF ListingInv, Reviewed, OnlyReviewedIsSold, Public, InReview, View
<1> QED
  BY <1>1, ListingInvariant, PTL

(* Retention takes no photo of the draft or of the version on sale.        *)
THEOREM PhotosKept == Spec => []ShownPhotosKeepTheirFiles
<1>1. TypeOK /\ ListingInv => ShownPhotosKeepTheirFiles
  BY DEF ListingInv, Held, ShownPhotosKeepTheirFiles, View
<1> QED
  BY <1>1, ListingInvariant, PTL

(* What the decisions on the account do to one line.                       *)
LEMMA LineUnderCase ==
    ASSUME TypeOK, Cases, NEW l \in Lines
    PROVE  \/ line'[l] = line[l] /\ down'[l] = down[l]
           \/ line[l].state = "live" /\ line'[l].state = "suspended" /\ down'[l] = "account"
           \/ line'[l].state = "live" /\ case' = "approved"
<1>1. line[l] \in Line
  BY DEF TypeOK
<1>2. CASE SuspendLines
  <2>1. line[l].state = "live" =>
          /\ line'[l] = [line[l] EXCEPT !.state = "suspended", !.tag = TRUE]
          /\ down'[l] = "account"
    BY <1>2 DEF SuspendLines
  <2>2. line[l].state # "live" => line'[l] = line[l] /\ down'[l] = down[l]
    BY <1>2 DEF SuspendLines
  <2> QED
    BY <1>1, <2>1, <2>2 DEF Line
<1>3. CASE Approve
  <2>1. PICK complete \in SUBSET Lines :
          /\ line' = [k \in Lines |-> IF k \in complete
                        THEN [line[k] EXCEPT !.state = "live", !.alike = FALSE] ELSE line[k]]
          /\ down' = [k \in Lines |-> IF k \in complete THEN "no" ELSE down[k]]
    BY <1>3 DEF Approve
  <2>2. CASE l \in complete
    BY <1>1, <1>3, <2>1, <2>2 DEF Approve, DecideCase, Line
  <2>3. CASE l \notin complete
    BY <2>1, <2>3
  <2> QED
    BY <2>2, <2>3
<1>4. CASE Restore
  BY <1>4 DEF Restore, DecideCase, Idle
<1>5. CASE UNCHANGED services
  BY <1>5 DEF services
<1> QED
  BY <1>2, <1>3, <1>4, <1>5 DEF Cases, Reject, Suspend, Reapply, SetVerification,
                                LeaveRole, ReturnToRole

(* What the routes of one line do to it, where no line goes down with an   *)
(* account suspension's reason.                                            *)
LEMMA LineUnderRoute ==
    ASSUME TypeOK, ~Lookalikes, NEW l \in Lines, LineSteps(l)
    PROVE  \E new \in Line, cause \in {"no", "account", "alone"} :
              /\ SetLine(l, new, cause)
              /\ new.state = "suspended" => ~new.tag /\ ~new.alike
<1>1. line[l] \in Line /\ down[l] \in {"no", "account", "alone"}
  BY DEF TypeOK
<1>2. CASE SuspendLine(l)
  <2>1. SetLine(l, Untagged(l, FALSE), "alone")
    BY <1>2, Lookalikes = FALSE DEF SuspendLine
  <2>2. /\ Untagged(l, FALSE) \in Line
        /\ ~Untagged(l, FALSE).tag /\ ~Untagged(l, FALSE).alike
    BY DEF Untagged, Line, LineStates
  <2> QED
    BY <2>1, <2>2
<1>3. CASE CreateLine(l) \/ DeleteLine(l) \/ VerifyLine(l)
  BY <1>3, LineTypes DEF CreateLine, DeleteLine, VerifyLine, Idle, LineStates
<1>4. CASE ExpandLine(l) \/ SubmitLine(l)
  <2> DEFINE expanded == [line[l] EXCEPT !.state = "pending_verification"]
             submitted == [line[l] EXCEPT !.state = "pending_verification",
                                          !.alike = @ /\ line[l].state # "suspended"]
  <2>1. \A new \in {expanded, submitted} : new \in Line /\ new.state = "pending_verification"
    BY <1>1 DEF Line, LineStates
  <2>2. SetLine(l, expanded, "no") \/ SetLine(l, submitted, "no")
    BY <1>4 DEF ExpandLine, SubmitLine
  <2> HIDE DEF expanded, submitted
  <2> QED
    BY <2>1, <2>2
<1>5. CASE WithdrawLine(l)
  <2>1. /\ [line[l] EXCEPT !.state = "withdrawn"] \in Line
        /\ [line[l] EXCEPT !.state = "withdrawn"].state = "withdrawn"
    BY <1>1 DEF Line, LineStates
  <2> QED
    BY <1>1, <1>5, <2>1 DEF WithdrawLine
<1> QED
  BY <1>2, <1>3, <1>4, <1>5 DEF LineSteps

(* No other step touches the account or a line.                            *)
LEMMA OthersLeaveTheLines ==
    ASSUME \/ Edits \/ \E r \in Reviewers : OpenReview(r) \/ DecideReview(r)
           \/ \E p \in Photos : AttachPhoto(p) \/ ExpirePhoto(p) \/ RemovePhoto(p)
           \/ UNCHANGED vars
    PROVE  UNCHANGED <<account, services>>
<1>1. Edits => UNCHANGED <<account, services>>
  BY DEF Edits, CreateListing, EditTerms, SetActive, Reorder, DeleteListing, TakeDown,
         PutBack, SubmitListing, Order, Edit, Write
<1>2. \A r \in Reviewers : OpenReview(r) \/ DecideReview(r) => UNCHANGED <<account, services>>
  BY DEF OpenReview, DecideReview
<1>3. \A p \in Photos :
        AttachPhoto(p) \/ ExpirePhoto(p) \/ RemovePhoto(p) => UNCHANGED <<account, services>>
  BY DEF AttachPhoto, ExpirePhoto, RemovePhoto, Edit, Write
<1> QED
  BY <1>1, <1>2, <1>3 DEF vars

(* What was suspended with the account is tagged with its case, and what   *)
(* Operations suspend on its own loses the tag: where no one gives an      *)
(* account suspension's reason for a line, only the former is restored.    *)
THEOREM RestoredExactly ==
    ~Lookalikes => (Spec => []RestorableLinesWentDownWithTheShop)
<1> SUFFICES ASSUME ~Lookalikes PROVE Spec => []RestorableLinesWentDownWithTheShop
  OBVIOUS
<1>1. Init => RestorableLinesWentDownWithTheShop
  BY DEF Init, JustEnrolled, OlderRelease, Idle, RestorableLinesWentDownWithTheShop,
         SuspendedWithAccount
<1>2. ASSUME TypeOK, RestorableLinesWentDownWithTheShop, [Next]_vars
      PROVE  RestorableLinesWentDownWithTheShop'
  <2>1. CASE Cases
    BY <1>2, <2>1, LineUnderCase DEF RestorableLinesWentDownWithTheShop, SuspendedWithAccount
  <2>2. CASE \E l \in Lines : LineSteps(l)
    <3>1. PICK l \in Lines, new \in Line, cause \in {"no", "account", "alone"} :
            /\ SetLine(l, new, cause)
            /\ new.state = "suspended" => ~new.tag /\ ~new.alike
      BY <1>2, <2>2, LineUnderRoute
    <3> QED
      BY <1>2, <3>1 DEF SetLine, TypeOK, RestorableLinesWentDownWithTheShop, SuspendedWithAccount
  <2>3. CASE UNCHANGED <<account, services>>
    BY <1>2, <2>3 DEF services, RestorableLinesWentDownWithTheShop, SuspendedWithAccount
  <2> QED
    BY <1>2, <2>1, <2>2, <2>3, OthersLeaveTheLines DEF Next
<1> QED
  BY <1>1, <1>2, TypeCorrect, PTL DEF Spec

(* No line of a suspended shop is live: a suspension takes every line down *)
(* and only an approved shop gets one back (approval-cases.js:283-298, the *)
(* guard of the verify route).                                             *)
SuspendedShopsHaveNoLiveLine ==
    case = "suspended" => \A l \in Lines : line[l].state # "live"

(* A suspended shop sells nothing until it is approved again.              *)
THEOREM NothingLiveWhileSuspended == Spec => []SuspendedShopsHaveNoLiveLine
<1>1. Init => SuspendedShopsHaveNoLiveLine
  BY DEF Init, JustEnrolled, OlderRelease, Idle, SuspendedShopsHaveNoLiveLine
<1>2. ASSUME TypeOK, SuspendedShopsHaveNoLiveLine, [Next]_vars
      PROVE  SuspendedShopsHaveNoLiveLine'
  <2>1. CASE Cases
    <3>1. CASE SuspendLines
      <4>1. \A l \in Lines : line[l] \in Line
        BY <1>2 DEF TypeOK
      <4>2. \A l \in Lines : line'[l] = IF line[l].state = "live"
                 THEN [line[l] EXCEPT !.state = "suspended", !.tag = TRUE] ELSE line[l]
        BY <3>1 DEF SuspendLines
      <4>3. \A l \in Lines : line'[l].state # "live"
        BY <4>1, <4>2 DEF Line
      <4> QED
        BY <4>3 DEF SuspendedShopsHaveNoLiveLine
    <3>2. CASE case' \in {"pending", "approved", "rejected"}
      BY <3>2 DEF SuspendedShopsHaveNoLiveLine
    <3>3. CASE UNCHANGED <<case, services>>
      BY <1>2, <3>3 DEF services, SuspendedShopsHaveNoLiveLine
    <3> QED
      BY <2>1, <3>1, <3>2, <3>3 DEF Cases, Approve, Reject, Suspend, Restore, Reapply,
             DecideCase, SetVerification, LeaveRole, ReturnToRole
  <2>2. ASSUME NEW l \in Lines, LineSteps(l)
        PROVE  SuspendedShopsHaveNoLiveLine'
    <3>1. line[l] \in Line
      BY <1>2 DEF TypeOK
    <3>2. PICK new, cause : /\ new \in Line
                            /\ SetLine(l, new, cause)
                            /\ case = "suspended" => new.state # "live"
      <4>1. CASE VerifyLine(l)
        BY <4>1, LineTypes DEF VerifyLine, MayVerify, LineStates
      <4>2. CASE CreateLine(l) \/ DeleteLine(l)
        BY <4>2, LineTypes DEF CreateLine, DeleteLine, Idle, LineStates
      <4>3. CASE ExpandLine(l) \/ SubmitLine(l) \/ WithdrawLine(l)
        <5> DEFINE expanded == [line[l] EXCEPT !.state = "pending_verification"]
                   submitted == [line[l] EXCEPT !.state = "pending_verification",
                                                !.alike = @ /\ line[l].state # "suspended"]
                   withdrawn == [line[l] EXCEPT !.state = "withdrawn"]
        <5>1. \A new \in {expanded, submitted, withdrawn} : new \in Line /\ new.state # "live"
          BY <3>1 DEF Line, LineStates
        <5>2. \E new \in {expanded, submitted, withdrawn} : \E cause : SetLine(l, new, cause)
          BY <4>3 DEF ExpandLine, SubmitLine, WithdrawLine
        <5> HIDE DEF expanded, submitted, withdrawn
        <5> QED
          BY <5>1, <5>2
      <4>4. CASE SuspendLine(l)
        <5>1. \A likely \in BOOLEAN : Untagged(l, likely) \in Line /\ Untagged(l, likely).state # "live"
          BY DEF Untagged, Line, LineStates
        <5> QED
          BY <4>4, <5>1 DEF SuspendLine
      <4> QED
        BY <2>2, <4>1, <4>2, <4>3, <4>4 DEF LineSteps
    <3> QED
      BY <1>2, <3>2 DEF SetLine, TypeOK, account, SuspendedShopsHaveNoLiveLine
  <2>3. CASE UNCHANGED <<account, services>>
    BY <1>2, <2>3 DEF account, services, SuspendedShopsHaveNoLiveLine
  <2> QED
    BY <1>2, <2>1, <2>2, <2>3, OthersLeaveTheLines DEF Next
<1> QED
  BY <1>1, <1>2, TypeCorrect, PTL DEF Spec
=============================================================================
