------------------------------- MODULE Files -------------------------------
(***************************************************************************)
(* Private files: src/src/file-retention.js, file-retention-policy.js,     *)
(* saved-files.js, artwork-preview.js, the file rows of attachments.js and *)
(* the upload, save, delete and account routes of server.js.               *)
(*                                                                         *)
(* A file is a row in PostgreSQL and bytes in the object store, with a     *)
(* rendition beside them once a preview was drawn.  Mutations of rows hold *)
(* the domain lock, so each is one step; the object store takes no part in *)
(* them: its calls fail, may have worked all the same, and stay when the   *)
(* transaction around them rolls back.  The files are one client's artwork *)
(* and one order is placed with them.  Clocks only show in flags: the      *)
(* upload grace of a file is over (stale), the thirty days its completed   *)
(* order keeps it are over (kept).                                         *)
(***************************************************************************)
EXTENDS Integers, FiniteSets

CONSTANTS
    Files,      \* the client's artwork
    Documents,  \* the files a preview is drawn of (isPreviewDocument)
    Ordered,    \* the files the client puts into carts and orders
    Enabled,    \* GRIDGO_FILE_RETENTION_DELETE_ENABLED
    Quota,      \* saved files the client has room for
    MaxFaults   \* bound: calls that fail and crashes

ASSUME FilesAssumption ==
    /\ IsFiniteSet(Files)
    /\ Documents \subseteq Files
    /\ Ordered \subseteq Files
    /\ Enabled \in BOOLEAN
    /\ Quota \in Nat
    /\ MaxFaults \in Nat

VARIABLES
    state,       \* of the row, "absent" before its commit
    source,      \* deletionSource
    saved,       \* rows with savedAt
    requested,   \* rows with saveToMyFilesRequestedAt
    closing,     \* rows with savedFileDeletionRequestedAt
    previewed,   \* rows whose preview.status is ready
    bytes,       \* files whose object is in the store
    renditions,  \* files whose preview object is in the store
    upload,      \* how far the request that uploads a file is
    drawing,     \* the file whose rendition is drawn, outside the domain lock
    starting,    \* storageInitializing
    account,     \* accountStatus of the client
    cart,        \* files on lines of the active cart
    order,       \* the one order, "none" before it is placed
    orderFiles,  \* the files the order contains
    caseOpen,    \* an issue, claim or refund request on the order is open
    stale,       \* files with a full day gone since they were created or ready
    kept,        \* the thirty days after the order completed are over
    unanswered,  \* history: files whose ready commit worked without an answer
    faults       \* history: calls that failed and crashes

row == <<state, source, saved, requested, closing, previewed>>
store == <<bytes, renditions>>
history == <<unanswered, faults>>
work == <<upload, drawing, starting, history>>
world == <<account, cart, order, orderFiles, caseOpen, stale, kept>>
vars == <<row, store, work, world>>

Live == {"pending_upload", "ready", "delete_pending"}
Sources == {"none", "early", "retention", "saved_file", "account_closed"}
Closed == {"completed", "cancelled"}

Init ==
    /\ state = [f \in Files |-> "absent"]
    /\ source = [f \in Files |-> "none"]
    /\ saved = {} /\ requested = {} /\ closing = {} /\ previewed = {}
    /\ bytes = {} /\ renditions = {}
    /\ upload = [f \in Files |-> "none"]
    /\ drawing = {}
    /\ starting = FALSE
    /\ account = "active"
    /\ cart = {}
    /\ order = "none"
    /\ orderFiles = {}
    /\ caseOpen = FALSE
    /\ stale = {}
    /\ kept = FALSE
    /\ unanswered = {}
    /\ faults = 0

Fault == faults < MaxFaults /\ faults' = faults + 1

-----------------------------------------------------------------------------
(* The policy.                                                             *)

Held(f) == caseOpen /\ f \in orderFiles

(* retentionDecision.  A cancelled order never lets go of its artwork.     *)
EligibleFromCart(f) ==
    /\ state[f] \in Live
    /\ f \notin saved
    /\ ~Held(f)
    /\ \/ state[f] = "delete_pending" /\ source[f] = "early"
       \/ IF f \in orderFiles THEN kept ELSE f \in stale
Eligible(f) ==
    /\ state[f] \in Live
    /\ f \notin saved
    /\ ~Held(f)
    /\ \/ state[f] = "delete_pending" /\ source[f] = "early"
       \/ /\ f \notin cart
          /\ IF f \in orderFiles THEN kept ELSE f \in stale

ClosureDeletable(f) ==
    /\ f \in closing
    /\ ~Held(f)
    /\ f \in orderFiles => order \in Closed

(* assertEarlyFileDeletion, with the account check of the route.           *)
EarlyDeletion(f, role) ==
    /\ ~Held(f)
    /\ CASE role = "super_admin" -> f \notin saved
         [] role = "client" ->
              /\ account = "active"
              /\ f \in orderFiles \cup saved
              /\ f \notin cart
              /\ f \in orderFiles => order = "completed"

(* What finishPending demands again under the domain lock.  The mutants    *)
(* leave out one demand each.                                              *)
Justified(f) ==
    /\ f \in saved => source[f] = "saved_file"
    /\ source[f] = "saved_file" =>
         f \notin cart /\ (f \in orderFiles => order = "completed")
    /\ source[f] = "account_closed" => ClosureDeletable(f)
    /\ source[f] = "retention" => Enabled /\ Eligible(f)
MayFinishReady(f) == Justified(f) /\ ~Held(f)
MayFinishHeld(f) == state[f] = "delete_pending" /\ Justified(f)
MayFinish(f) == state[f] = "delete_pending" /\ Justified(f) /\ ~Held(f)

(* savedFilesUsage: what is saved, and what an upload has reserved.        *)
Reserved == {f \in saved \cup requested : state[f] \in Live}
RoomBesideSaved == Cardinality({f \in saved : state[f] \in Live}) < Quota
Room == Cardinality(Reserved) < Quota

(* fileFor: what a cart line or an order may name.                         *)
Usable(f) == state[f] = "ready" /\ f \notin closing

-----------------------------------------------------------------------------
(* Uploads, POST /files.                                                   *)

StartUpload(f, save) ==
    /\ state[f] = "absent"
    /\ ~starting
    /\ account = "active"
    /\ save => Room
    /\ state' = [state EXCEPT ![f] = "pending_upload"]
    /\ requested' = IF save THEN requested \cup {f} ELSE requested
    /\ upload' = [upload EXCEPT ![f] = "putting"]
    /\ UNCHANGED <<source, saved, closing, previewed, store, drawing,
                   starting, history, world>>

(* A put that fails may have stored the bytes all the same.                *)
Put(f) ==
    /\ upload[f] = "putting"
    /\ \/ /\ bytes' = bytes \cup {f}
          /\ upload' = [upload EXCEPT ![f] = "stored"]
          /\ UNCHANGED faults
       \/ /\ Fault
          /\ bytes' \in {bytes, bytes \cup {f}}
          /\ upload' = [upload EXCEPT ![f] = "undoing"]
    /\ UNCHANGED <<row, renditions, drawing, starting, unanswered, world>>

(* The ready mutation, with markFileReady.                                 *)
MarkReady(f) ==
    /\ state[f] = "pending_upload"
    /\ account = "active"
    /\ state' = [state EXCEPT ![f] = "ready"]
    /\ saved' = saved \cup (requested \cap {f})
    /\ requested' = requested \ {f}
    /\ stale' = stale \ {f}
    /\ UNCHANGED <<source, closing, previewed, account, cart, order,
                   orderFiles, caseOpen, kept>>

(* It commits and is answered, or commits and the answer is lost, or is    *)
(* refused or rolled back; all but the first are errors to the request.    *)
Ready(f) ==
    /\ upload[f] = "stored"
    /\ \/ /\ MarkReady(f)
          /\ upload' = [upload EXCEPT ![f] = "none"]
          /\ UNCHANGED history
       \/ /\ Fault
          /\ MarkReady(f)
          /\ upload' = [upload EXCEPT ![f] = "undoing"]
          /\ unanswered' = unanswered \cup {f}
       \/ /\ Fault \/ (account # "active" /\ UNCHANGED faults)
          /\ upload' = [upload EXCEPT ![f] = "undoing"]
          /\ UNCHANGED <<row, world, unanswered>>
    /\ UNCHANGED <<store, drawing, starting>>

(* compensatePendingFile: the object first, then its row, unless a call    *)
(* fails; the error is swallowed.                                          *)
UndoPut(f) ==
    /\ upload[f] = "undoing"
    /\ \/ /\ bytes' = bytes \ {f}
          /\ upload' = [upload EXCEPT ![f] = "undone"]
          /\ UNCHANGED faults
       \/ /\ Fault
          /\ bytes' \in {bytes, bytes \ {f}}
          /\ upload' = [upload EXCEPT ![f] = "none"]
    /\ UNCHANGED <<row, renditions, drawing, starting, unanswered, world>>

(* markFileDeleted.  Nobody reads the other columns of a deleted row: the  *)
(* model forgets them, but for the reason of the deletion.                 *)
Tombstone(f) ==
    /\ state' = [state EXCEPT ![f] = "deleted"]
    /\ saved' = saved \ {f} /\ requested' = requested \ {f}
    /\ closing' = closing \ {f} /\ previewed' = previewed \ {f}
    /\ stale' = stale \ {f}

UndoRow(f) ==
    /\ upload[f] = "undone"
    /\ upload' = [upload EXCEPT ![f] = "none"]
    /\ \/ state[f] = "pending_upload" /\ Tombstone(f) /\ UNCHANGED faults
       \/ /\ Fault \/ (state[f] # "pending_upload" /\ UNCHANGED faults)
          /\ UNCHANGED <<state, saved, requested, closing, previewed, stale>>
    /\ UNCHANGED <<source, store, drawing, starting, unanswered, account, cart,
                   order, orderFiles, caseOpen, kept>>

-----------------------------------------------------------------------------
(* Previews: one is drawn at a time, from what was read before; the domain *)
(* lock is taken and the file authorized again before anything is written. *)

IsPreviewDocument(f) == f \in Documents
AuthorizedBefore(f) == TRUE
Authorized(f) == state[f] = "ready"

StartDrawing(f) ==
    /\ IsPreviewDocument(f)
    /\ state[f] = "ready"
    /\ drawing = {}
    /\ drawing' = {f}
    /\ UNCHANGED <<row, store, upload, starting, history, world>>

(* A retry that fails keeps the good rendition's status: it is still there.*)
Draw(f) ==
    /\ f \in drawing
    /\ drawing' = {}
    /\ \/ /\ Authorized(f)
          /\ renditions' = renditions \cup {f}
          /\ previewed' = previewed \cup {f}
          /\ UNCHANGED faults
       \/ /\ Authorized(f)
          /\ Fault
          /\ renditions' \in {renditions, renditions \cup {f}}
          /\ UNCHANGED previewed
       \/ /\ ~Authorized(f)
          /\ UNCHANGED <<renditions, previewed, faults>>
    /\ UNCHANGED <<state, source, saved, requested, closing, bytes, upload,
                   starting, unanswered, world>>

-----------------------------------------------------------------------------
(* The client's library, cart and account.                                 *)

SetFileSaved(f, save) ==
    /\ account = "active"
    /\ Usable(f)
    /\ save # (f \in saved)
    /\ save => Room
    /\ saved' = IF save THEN saved \cup {f} ELSE saved \ {f}
    /\ UNCHANGED <<state, source, requested, closing, previewed, store, work,
                   world>>

SetCart(f, put) ==
    /\ put # (f \in cart)
    /\ put => account = "active" /\ Usable(f)
    /\ cart' = IF put THEN cart \cup {f} ELSE cart \ {f}
    /\ UNCHANGED <<row, store, work, account, order, orderFiles, caseOpen,
                   stale, kept>>

(* requestAccountSavedFileDeletion.  save() calls it once the account is   *)
(* removed; a completed deletion request calls it and leaves the account.  *)
CloseLibrary(status) ==
    /\ account = "active"
    /\ account' = status
    /\ closing' = closing \cup Reserved
    /\ saved' = saved \ Reserved
    /\ requested' = requested \ Reserved
    /\ UNCHANGED <<state, source, previewed, store, work, cart, order,
                   orderFiles, caseOpen, stale, kept>>

RestoreAccount ==
    /\ account = "removed"
    /\ account' = "active"
    /\ UNCHANGED <<row, store, work, cart, order, orderFiles, caseOpen, stale,
                   kept>>

-----------------------------------------------------------------------------
(* The order, as far as files depend on it.                                *)

(* A line may name no file, only links to a design.                        *)
Checkout ==
    /\ order = "none"
    /\ account = "active"
    /\ \A f \in cart : Usable(f)
    /\ order' = "open"
    /\ orderFiles' = cart
    /\ cart' = {}
    /\ UNCHANGED <<row, store, work, account, caseOpen, stale, kept>>

(* POST /files/:id/attach, in any state of the order, while the object is  *)
(* there (statObject).                                                     *)
Attach(f) ==
    /\ ~starting
    /\ order # "none"
    /\ f \in bytes
    /\ f \notin orderFiles
    /\ account = "active"
    /\ Usable(f)
    /\ orderFiles' = orderFiles \cup {f}
    /\ UNCHANGED <<row, store, work, account, cart, order, caseOpen, stale,
                   kept>>

Close(final) ==
    /\ order = "open"
    /\ order' = final
    /\ UNCHANGED <<row, store, work, account, cart, orderFiles, caseOpen,
                   stale, kept>>

(* A case only matters once the order has files.                           *)
SetCase(open) ==
    /\ orderFiles # {}
    /\ caseOpen' = open
    /\ caseOpen # open
    /\ UNCHANGED <<row, store, work, account, cart, order, orderFiles, stale,
                   kept>>

(* A request ends within fifteen minutes: no day starts under an upload.   *)
DayPasses(f) ==
    /\ state[f] \in {"pending_upload", "ready"}
    /\ upload[f] = "none"
    /\ stale' = stale \cup {f}
    /\ stale' # stale
    /\ UNCHANGED <<row, store, work, account, cart, order, orderFiles,
                   caseOpen, kept>>

TimePasses ==
    /\ order = "completed"
    /\ ~kept
    /\ kept' = TRUE
    /\ UNCHANGED <<row, store, work, account, cart, order, orderFiles,
                   caseOpen, stale>>

-----------------------------------------------------------------------------
(* Deletion.                                                               *)

(* pending(): the intent, committed in a transaction of its own.           *)
Pending(f, why) ==
    /\ state' = [state EXCEPT ![f] = "delete_pending"]
    /\ source' = [source EXCEPT ![f] = why]
    /\ UNCHANGED <<saved, requested, closing, previewed, store, work, world>>

(* DELETE /files/:id and /me/files/:id.                                    *)
DeleteEarly(f, role) ==
    /\ ~starting
    /\ state[f] \in {"ready", "delete_pending"}
    /\ EarlyDeletion(f, role)
    /\ Pending(f, IF f \in saved /\ role = "client" THEN "saved_file"
                                                    ELSE "early")

(* run(): a pass takes the files it read as eligible one by one, and only  *)
(* what it decides again when it commits the intent has an effect.         *)
Expire(f) ==
    /\ Enabled
    /\ ~starting
    /\ Eligible(f)
    /\ source[f] \notin {"early", "retention"}
    /\ Pending(f, "retention")

(* reconcile(), at boot, daily and when a library closes: a ready file of  *)
(* a closed library gets its intent, and it and every intent are passed on *)
(* to finishPending.                                                       *)
ReconciledIntents(f) == state[f] = "delete_pending"
Reconciled(f) ==
    \/ state[f] = "delete_pending"
    \/ state[f] = "ready" /\ f \in closing

CloseFile(f) ==
    /\ Reconciled(f)
    /\ state[f] = "ready"
    /\ ClosureDeletable(f)
    /\ Pending(f, "account_closed")

(* finishPending(), also called right after an intent: the rendition, the  *)
(* object, then the row.  It ends at the first call that fails, and what   *)
(* was deleted stays deleted.                                              *)
FinishPending(f) ==
    /\ Reconciled(f)
    /\ MayFinish(f)
    /\ bytes' = bytes \ {f}
    /\ renditions' = renditions \ {f}
    /\ Tombstone(f)
    /\ UNCHANGED <<source, work, account, cart, order, orderFiles, caseOpen,
                   kept>>

FinishFails(f) ==
    /\ Reconciled(f)
    /\ MayFinish(f)
    /\ Fault
    /\ renditions' = renditions \ {f}
    /\ bytes' \in {bytes, bytes \ {f}}
    /\ UNCHANGED <<row, upload, drawing, starting, unanswered, world>>

(* A crash ends every request and pass.  The boot lets requests reach the  *)
(* files again once its own reconcile() is over, or the store is away.     *)
Crash ==
    /\ Fault
    /\ upload' = [f \in Files |-> "none"]
    /\ drawing' = {}
    /\ starting' = TRUE
    /\ UNCHANGED <<row, store, unanswered, world>>

Boot ==
    /\ starting
    /\ starting' = FALSE
    /\ UNCHANGED <<row, store, upload, drawing, history, world>>

-----------------------------------------------------------------------------
Next ==
    \/ \E f \in Ordered : (\E put \in BOOLEAN : SetCart(f, put)) \/ Attach(f)
    \/ \E f \in Files :
         \/ \E save \in BOOLEAN : StartUpload(f, save)
         \/ Put(f)
         \/ Ready(f)
         \/ UndoPut(f)
         \/ UndoRow(f)
         \/ StartDrawing(f)
         \/ Draw(f)
         \/ \E save \in BOOLEAN : SetFileSaved(f, save)
         \/ DayPasses(f)
         \/ \E role \in {"client", "super_admin"} : DeleteEarly(f, role)
         \/ Expire(f)
         \/ CloseFile(f)
         \/ FinishPending(f)
         \/ FinishFails(f)
    \/ \E status \in {"active", "removed"} : CloseLibrary(status)
    \/ RestoreAccount
    \/ Checkout
    \/ \E final \in Closed : Close(final)
    \/ \E open \in BOOLEAN : SetCase(open)
    \/ TimePasses
    \/ Crash
    \/ Boot

(* The daily timer keeps reconciling, and the object store does not fail   *)
(* every time it is asked.                                                 *)
Fairness ==
    \A f \in Files : WF_vars(CloseFile(f)) /\ WF_vars(FinishPending(f))

Spec == Init /\ [][Next]_vars /\ Fairness

-----------------------------------------------------------------------------
TypeOK ==
    /\ state \in [Files -> Live \cup {"absent", "deleted"}]
    /\ source \in [Files -> Sources]
    /\ saved \cup requested \cup closing \cup bytes \subseteq Files
    /\ previewed \cup renditions \cup drawing \subseteq Documents
    /\ upload \in [Files -> {"none", "putting", "stored", "undoing", "undone"}]
    /\ starting \in BOOLEAN
    /\ account \in {"active", "removed"}
    /\ order \in {"none", "open"} \cup Closed
    /\ cart \cup orderFiles \subseteq Ordered
    /\ stale \cup unanswered \subseteq Files
    /\ caseOpen \in BOOLEAN
    /\ kept \in BOOLEAN
    /\ faults \in 0 .. MaxFaults

(* Rows and the object store agree, though an upload, a drawing and a      *)
(* deletion may all be at work on a file and fail or crash at any call: a  *)
(* deleted row leaves nothing behind, a ready row has its bytes, and its   *)
(* rendition if it says so.  The one exception is a ready commit whose     *)
(* answer was lost: its upload is compensated although the file is ready   *)
(* (finishPending, compensatePendingFile, createArtworkPreviews).          *)
RowsMatchTheStore ==
    \A f \in Files :
        /\ state[f] = "deleted" => f \notin bytes \cup renditions
        /\ state[f] = "ready" => f \in bytes \cup unanswered
        /\ state[f] = "ready" /\ f \in previewed => f \in renditions

(* Work in hand keeps its files: what an active cart or an open order      *)
(* names keeps its bytes, whatever was queued for deletion before, unless  *)
(* a Super Admin deleted the file or the client's library was closed       *)
(* (retentionDecision, assertEarlyFileDeletion, finishPending).            *)
UsedFilesKeepBytes ==
    \A f \in Files \ unanswered :
        /\ f \in cart =>
              f \in bytes \/ source[f] \in {"early", "account_closed"}
        /\ f \in orderFiles /\ order = "open" =>
              f \in bytes \/ source[f] = "early"

(* No byte of a file goes while a case on its order is open, also when the *)
(* deletion was queued before the case was opened (links.held).            *)
HeldBytesStay ==
    [][\A f \in Files \ unanswered :
         Held(f) /\ f \in bytes => f \in bytes']_vars

(* Concurrent uploads and saves never overspend the client's room, counted *)
(* from the reservation of an upload to the deletion of its row            *)
(* (savedFilesUsage, setFileSaved, markFileReady).                         *)
SavedWithinQuota == Cardinality(Reserved) <= Quota

(* Every intent to delete, and every closed library, comes to its end      *)
(* through failures and crashes, unless an open case or an unfinished      *)
(* order still needs the file (reconcile, finishPending).                  *)
IntentsFinish ==
    \A f \in Files :
        (\/ state[f] = "delete_pending"
         \/ state[f] = "ready" /\ f \in closing)
        ~> (\/ state[f] = "deleted"
            \/ Held(f)
            \/ f \in orderFiles /\ order = "open")
=============================================================================
