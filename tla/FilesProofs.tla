----------------------------- MODULE FilesProofs -----------------------------
(***************************************************************************)
(* Theorems about Files.tla, for any artwork, room and number of faults.   *)
(*                                                                         *)
(* What keeps the rows and the object store together is how far a request  *)
(* that uploads may still go: as long as it can take the bytes back, its   *)
(* row is pending and too young to expire, or its ready commit was not     *)
(* answered (UploadInv).                                                   *)
(***************************************************************************)
EXTENDS Files, FiniteSetTheorems, TLAPS

USE FilesAssumption

-----------------------------------------------------------------------------
(* The inductive invariant.                                                *)

(* A row that was never ready is in no cart, order or library, and has no  *)
(* rendition; a row that is to be deleted says why.                        *)
NewInv ==
    \A f \in Files :
       /\ state[f] \in {"absent", "pending_upload"} =>
            /\ f \notin cart /\ f \notin orderFiles /\ f \notin saved
            /\ f \notin renditions /\ f \notin previewed
       /\ state[f] = "absent" =>
            upload[f] = "none" /\ f \notin requested /\ f \notin bytes /\ f \notin stale
       /\ state[f] = "delete_pending" => source[f] # "none"

(* How far the request that uploads a file is, and what it knows.          *)
UploadInv ==
    \A f \in Files :
       /\ upload[f] \in {"putting", "stored"} => state[f] = "pending_upload"
       /\ upload[f] = "stored" => f \in bytes
       /\ upload[f] = "undone" => f \notin bytes
       /\ upload[f] \in {"undoing", "undone"} =>
            state[f] = "pending_upload" \/ f \in unanswered
       /\ upload[f] # "none" /\ state[f] = "pending_upload" => f \notin stale

(* Only a completed order's thirty days are ever over.                     *)
KeptInv == kept => order = "completed"

IInv == TypeOK /\ NewInv /\ UploadInv /\ KeptInv /\ RowsMatchTheStore

-----------------------------------------------------------------------------
(* The invariant is inductive.                                             *)

(* Every step keeps it.                                                    *)
LEMMA Inductive == ASSUME IInv, [Next]_vars PROVE IInv'
<1> USE DEF IInv, TypeOK, NewInv, UploadInv, KeptInv, RowsMatchTheStore, Live, Sources, Closed,
            row, store, history, work, world
<1>0. CASE UNCHANGED vars
  BY <1>0 DEF vars
<1>1. ASSUME NEW f \in Files, NEW save \in BOOLEAN, StartUpload(f, save) PROVE IInv'
  BY <1>1 DEF StartUpload
<1>2. ASSUME NEW f \in Files, Put(f) PROVE IInv'
  BY <1>2 DEF Put, Fault
<1>3. ASSUME NEW f \in Files, Ready(f) PROVE IInv'
  BY <1>3 DEF Ready, MarkReady, Fault
<1>4. ASSUME NEW f \in Files, UndoPut(f) PROVE IInv'
  BY <1>4 DEF UndoPut, Fault
<1>5. ASSUME NEW f \in Files, UndoRow(f) PROVE IInv'
  BY <1>5 DEF UndoRow, Fault, Tombstone
<1>6. ASSUME NEW f \in Files, StartDrawing(f) PROVE IInv'
  BY <1>6 DEF StartDrawing, IsPreviewDocument
<1>7. ASSUME NEW f \in Files, Draw(f) PROVE IInv'
  BY <1>7 DEF Draw, Fault, Authorized
<1>8. ASSUME NEW f \in Files, NEW save \in BOOLEAN, SetFileSaved(f, save) PROVE IInv'
  BY <1>8 DEF SetFileSaved, Usable
<1>9. ASSUME NEW f \in Files, DayPasses(f) PROVE IInv'
  BY <1>9 DEF DayPasses
<1>10. ASSUME NEW f \in Files, NEW role \in {"client", "super_admin"},
              DeleteEarly(f, role)
       PROVE IInv'
  BY <1>10 DEF DeleteEarly, Pending, EarlyDeletion
<1>11. ASSUME NEW f \in Files, Expire(f) PROVE IInv'
  BY <1>11 DEF Expire, Pending, Eligible
<1>12. ASSUME NEW f \in Files, CloseFile(f) PROVE IInv'
  BY <1>12 DEF CloseFile, Pending, Reconciled
<1>13. ASSUME NEW f \in Files, FinishPending(f) PROVE IInv'
  BY <1>13 DEF FinishPending, Tombstone, MayFinish, Reconciled
<1>14. ASSUME NEW f \in Files, FinishFails(f) PROVE IInv'
  BY <1>14 DEF FinishFails, Fault, MayFinish, Reconciled
<1>15. ASSUME NEW f \in Ordered, NEW put \in BOOLEAN, SetCart(f, put) PROVE IInv'
  BY <1>15 DEF SetCart, Usable
<1>16. ASSUME NEW f \in Ordered, Attach(f) PROVE IInv'
  BY <1>16 DEF Attach, Usable
<1>17. ASSUME NEW status \in {"active", "removed"}, CloseLibrary(status) PROVE IInv'
  BY <1>17 DEF CloseLibrary, Reserved
<1>18. CASE RestoreAccount
  BY <1>18 DEF RestoreAccount
<1>19. CASE Checkout
  BY <1>19 DEF Checkout, Usable
<1>20. ASSUME NEW final \in Closed, Close(final) PROVE IInv'
  BY <1>20 DEF Close
<1>21. ASSUME NEW open \in BOOLEAN, SetCase(open) PROVE IInv'
  BY <1>21 DEF SetCase
<1>22. CASE TimePasses
  BY <1>22 DEF TimePasses
<1>23. CASE Crash
  BY <1>23 DEF Crash, Fault
<1>24. CASE Boot
  BY <1>24 DEF Boot
<1> QED
  BY <1>0, <1>1, <1>2, <1>3, <1>4, <1>5, <1>6, <1>7, <1>8, <1>9, <1>10, <1>11, <1>12,
     <1>13, <1>14, <1>15, <1>16, <1>17, <1>18, <1>19, <1>20, <1>21, <1>22, <1>23, <1>24
     DEF Next

(* It holds of every reachable state.                                      *)
LEMMA Invariant == Spec => []IInv
<1>1. ASSUME Init PROVE IInv
  <2>1. TypeOK
    <3>1. /\ state \in [Files -> Live \cup {"absent", "deleted"}]
          /\ source \in [Files -> Sources]
          /\ upload \in [Files -> {"none", "putting", "stored", "undoing", "undone"}]
      BY <1>1 DEF Init, Sources
    <3>2. starting \in BOOLEAN /\ caseOpen \in BOOLEAN /\ kept \in BOOLEAN
      BY <1>1 DEF Init
    <3>3. /\ saved \cup requested \cup closing \cup bytes \subseteq Files
          /\ previewed \cup renditions \cup drawing \subseteq Documents
          /\ cart \cup orderFiles \subseteq Ordered
          /\ stale \cup unanswered \subseteq Files
          /\ faults \in 0 .. MaxFaults
          /\ account \in {"active", "removed"} /\ order \in {"none", "open"} \cup Closed
      BY <1>1 DEF Init
    <3> QED
      BY <3>1, <3>2, <3>3 DEF TypeOK
  <2>2. NewInv /\ UploadInv /\ KeptInv /\ RowsMatchTheStore
    BY <1>1 DEF Init, NewInv, UploadInv, KeptInv, RowsMatchTheStore
  <2> QED
    BY <2>1, <2>2 DEF IInv
<1> QED
  BY <1>1, Inductive, PTL DEF Spec

(* The rows and the object store's contents have their declared types.     *)
THEOREM TypeCorrect == Spec => []TypeOK
<1>1. IInv => TypeOK
  BY DEF IInv
<1> QED
  BY <1>1, Invariant, PTL

(* Rows and the object store agree: a deleted row leaves nothing behind, a *)
(* ready one has its bytes and the rendition it says it has, wherever an   *)
(* upload, a drawing or a deletion failed or crashed.                      *)
THEOREM RowsAndStoreAgree == Spec => []RowsMatchTheStore
<1>1. IInv => RowsMatchTheStore
  BY DEF IInv
<1> QED
  BY <1>1, Invariant, PTL

-----------------------------------------------------------------------------
(* Bytes that are in use.                                                  *)

(* What a deletion was justified by under the domain lock.                 *)
LEMMA DeletedMeans ==
    ASSUME IInv, NEW f \in Files, MayFinish(f)
    PROVE  /\ state[f] = "delete_pending" /\ ~Held(f)
           /\ f \in cart => source[f] \in {"early", "account_closed"}
           /\ f \in orderFiles /\ order = "open" => source[f] = "early"
BY DEF IInv, TypeOK, KeptInv, NewInv, Sources, Closed,
       MayFinish, Justified, ClosureDeletable, Eligible

(* What a cart or an order names keeps its bytes, unless a Super Admin     *)
(* deleted it or the client's library was closed.                          *)
THEOREM UsedFilesKept == Spec => []UsedFilesKeepBytes
<1>1. Init => UsedFilesKeepBytes
  BY DEF Init, UsedFilesKeepBytes
<1>2. ASSUME IInv, UsedFilesKeepBytes, [Next]_vars PROVE UsedFilesKeepBytes'
  <2> USE <1>2 DEF IInv, TypeOK, RowsMatchTheStore, UsedFilesKeepBytes, row, store, history,
                   work, world
  <2>1. CASE UNCHANGED <<source, bytes, cart, order, orderFiles, unanswered>>
    BY <2>1
  <2>2. ASSUME NEW f \in Files, Put(f)
        PROVE  UsedFilesKeepBytes'
    BY <2>2 DEF Put
  <2>3. ASSUME NEW f \in Files, Ready(f)
        PROVE  UsedFilesKeepBytes'
    BY <2>3 DEF Ready, MarkReady
  <2>4. ASSUME NEW f \in Files, UndoPut(f)
        PROVE  UsedFilesKeepBytes'
    BY <2>4 DEF UndoPut, UploadInv, NewInv
  <2>5. ASSUME NEW f \in Files, NEW role \in {"client", "super_admin"}, DeleteEarly(f, role)
        PROVE  UsedFilesKeepBytes'
    BY <2>5 DEF DeleteEarly, Pending, EarlyDeletion
  <2>6. ASSUME NEW f \in Files, Expire(f)
        PROVE  UsedFilesKeepBytes'
    BY <2>6 DEF Expire, Pending, Eligible, KeptInv
  <2>7. ASSUME NEW f \in Files, CloseFile(f)
        PROVE  UsedFilesKeepBytes'
    BY <2>7 DEF CloseFile, Pending, ClosureDeletable
  <2>8. ASSUME NEW f \in Files, FinishPending(f) \/ FinishFails(f)
        PROVE  UsedFilesKeepBytes'
    BY <2>8, DeletedMeans DEF FinishPending, FinishFails
  <2>9. ASSUME NEW f \in Ordered, NEW put \in BOOLEAN, SetCart(f, put)
        PROVE  UsedFilesKeepBytes'
    BY <2>9 DEF SetCart, Usable
  <2>10. ASSUME NEW f \in Ordered, Attach(f)
        PROVE  UsedFilesKeepBytes'
    BY <2>10 DEF Attach
  <2>11. CASE Checkout
    BY <2>11 DEF Checkout, Usable
  <2>12. ASSUME NEW final \in Closed, Close(final)
        PROVE  UsedFilesKeepBytes'
    BY <2>12 DEF Close, Closed
  <2>13. ASSUME NEW f \in Files,
               \/ (\E save \in BOOLEAN : StartUpload(f, save) \/ SetFileSaved(f, save))
               \/ UndoRow(f) \/ StartDrawing(f) \/ Draw(f) \/ DayPasses(f)
         PROVE  UNCHANGED <<source, bytes, cart, order, orderFiles, unanswered>>
    BY <2>13 DEF StartUpload, SetFileSaved, UndoRow, StartDrawing, Draw, DayPasses
  <2>14. ASSUME \/ (\E status \in {"active", "removed"} : CloseLibrary(status))
                \/ RestoreAccount \/ (\E open \in BOOLEAN : SetCase(open))
                \/ TimePasses \/ Crash \/ Boot \/ UNCHANGED vars
         PROVE  UNCHANGED <<source, bytes, cart, order, orderFiles, unanswered>>
    BY <2>14 DEF CloseLibrary, RestoreAccount, SetCase, TimePasses, Crash, Boot, vars
  <2> QED
    BY <2>1, <2>2, <2>3, <2>4, <2>5, <2>6, <2>7, <2>8, <2>9, <2>10, <2>11, <2>12, <2>13, <2>14
       DEF Next
<1> QED
  BY <1>1, <1>2, Invariant, PTL DEF Spec

(* Only two kinds of steps take bytes away: the compensation of an upload, *)
(* and the end of a deletion.                                              *)
LEMMA BytesStay ==
    ASSUME IInv, [Next]_vars, NEW f \in bytes, f \notin bytes'
    PROVE  UndoPut(f) \/ MayFinish(f)
<1>1. ASSUME NEW g \in Files, Put(g) \/ UndoPut(g) \/ FinishPending(g) \/ FinishFails(g)
      PROVE  UndoPut(f) \/ MayFinish(f)
  BY <1>1 DEF Put, UndoPut, FinishPending, FinishFails
<1>2. ASSUME NEW g \in Files,
             \/ (\E save \in BOOLEAN : StartUpload(g, save) \/ SetFileSaved(g, save))
             \/ Ready(g) \/ UndoRow(g) \/ StartDrawing(g) \/ Draw(g) \/ DayPasses(g)
      PROVE  FALSE
  BY <1>2 DEF StartUpload, SetFileSaved, Ready, UndoRow, StartDrawing, Draw, DayPasses, store
<1>3. ASSUME NEW g \in Files,
             \/ (\E role \in {"client", "super_admin"} : DeleteEarly(g, role))
             \/ Expire(g) \/ CloseFile(g)
      PROVE  FALSE
  BY <1>3 DEF DeleteEarly, Expire, CloseFile, Pending, store
<1>4. ASSUME NEW g \in Ordered, (\E put \in BOOLEAN : SetCart(g, put)) \/ Attach(g)
      PROVE  FALSE
  BY <1>4 DEF SetCart, Attach, store
<1>5. ASSUME \/ (\E status \in {"active", "removed"} : CloseLibrary(status)) \/ RestoreAccount
             \/ Checkout \/ (\E final \in Closed : Close(final))
             \/ (\E open \in BOOLEAN : SetCase(open))
             \/ TimePasses \/ Crash \/ Boot \/ UNCHANGED vars
      PROVE  FALSE
  BY <1>5 DEF CloseLibrary, RestoreAccount, Checkout, Close, SetCase, TimePasses, Crash, Boot,
              vars, store
<1> QED
  BY <1>1, <1>2, <1>3, <1>4, <1>5 DEF Next

(* No byte goes while a case on its order is open: a deletion is not       *)
(* finished, and a file that an order contains was answered ready, so that *)
(* no upload compensates it.                                               *)
THEOREM HeldBytesKept == Spec => HeldBytesStay
<1>1. ASSUME IInv, [Next]_vars
      PROVE  [\A f \in Files \ unanswered : Held(f) /\ f \in bytes => f \in bytes']_vars
  <2>1. ASSUME NEW f \in Files \ unanswered, Held(f), f \in bytes, f \notin bytes'
        PROVE  FALSE
    <3>1. UndoPut(f) \/ MayFinish(f)
      BY <1>1, <2>1, BytesStay
    <3>2. ~MayFinish(f)
      BY <2>1 DEF MayFinish
    <3>3. ~UndoPut(f)
      BY <1>1, <2>1 DEF IInv, TypeOK, UploadInv, NewInv, UndoPut, Held
    <3> QED
      BY <3>1, <3>2, <3>3
  <2> QED
    BY <2>1
<1> QED
  BY <1>1, Invariant, PTL DEF Spec, HeldBytesStay

-----------------------------------------------------------------------------
(* The client's room.                                                      *)

(* A step reserves one more file only where there is room for it.          *)
LEMMA ReservedStep ==
    ASSUME IInv, [Next]_vars
    PROVE  \/ Reserved' \subseteq Reserved
           \/ Room /\ \E f \in Files : Reserved' = Reserved \cup {f}
<1> USE DEF IInv, TypeOK, Reserved, Live, row, world
<1>0. CASE UNCHANGED <<state, saved, requested>>
  BY <1>0
<1>1. ASSUME NEW f \in Files, NEW save \in BOOLEAN, StartUpload(f, save)
      PROVE  \/ Reserved' \subseteq Reserved
             \/ Room /\ \E g \in Files : Reserved' = Reserved \cup {g}
  BY <1>1 DEF StartUpload, NewInv
<1>2. ASSUME NEW f \in Files, NEW save \in BOOLEAN, SetFileSaved(f, save)
      PROVE  \/ Reserved' \subseteq Reserved
             \/ Room /\ \E g \in Files : Reserved' = Reserved \cup {g}
  BY <1>2 DEF SetFileSaved, Usable
<1>3. ASSUME NEW f \in Files, Ready(f)
      PROVE  \/ Reserved' \subseteq Reserved
             \/ Room /\ \E g \in Files : Reserved' = Reserved \cup {g}
  BY <1>3 DEF Ready, MarkReady
<1>4. ASSUME NEW f \in Files, UndoRow(f)
      PROVE  \/ Reserved' \subseteq Reserved
             \/ Room /\ \E g \in Files : Reserved' = Reserved \cup {g}
  BY <1>4 DEF UndoRow, Tombstone
<1>5. ASSUME NEW f \in Files,
             \/ \E role \in {"client", "super_admin"} : DeleteEarly(f, role)
             \/ Expire(f)
             \/ CloseFile(f)
      PROVE  \/ Reserved' \subseteq Reserved
             \/ Room /\ \E g \in Files : Reserved' = Reserved \cup {g}
  BY <1>5 DEF DeleteEarly, Expire, CloseFile, Eligible, Reconciled, Pending
<1>6. ASSUME NEW f \in Files, FinishPending(f)
      PROVE  \/ Reserved' \subseteq Reserved
             \/ Room /\ \E g \in Files : Reserved' = Reserved \cup {g}
  BY <1>6 DEF FinishPending, Tombstone
<1>7. ASSUME NEW status, CloseLibrary(status) PROVE Reserved' \subseteq Reserved
  BY <1>7 DEF CloseLibrary
<1>8. ASSUME NEW f \in Files,
             \/ Put(f) \/ UndoPut(f) \/ StartDrawing(f) \/ Draw(f) \/ DayPasses(f)
             \/ FinishFails(f)
      PROVE  UNCHANGED <<state, saved, requested>>
  BY <1>8 DEF Put, UndoPut, StartDrawing, Draw, DayPasses, FinishFails
<1>9. ASSUME NEW f \in Ordered, (\E put \in BOOLEAN : SetCart(f, put)) \/ Attach(f)
      PROVE  UNCHANGED <<state, saved, requested>>
  BY <1>9 DEF SetCart, Attach
<1>10. ASSUME \/ RestoreAccount \/ Checkout \/ (\E final \in Closed : Close(final))
              \/ (\E open \in BOOLEAN : SetCase(open))
              \/ TimePasses \/ Crash \/ Boot \/ UNCHANGED vars
       PROVE  UNCHANGED <<state, saved, requested>>
  BY <1>10 DEF RestoreAccount, Checkout, Close, SetCase, TimePasses, Crash, Boot, vars
<1> QED
  BY <1>0, <1>1, <1>2, <1>3, <1>4, <1>5, <1>6, <1>7, <1>8, <1>9, <1>10 DEF Next

(* Uploads and saves never overspend the client's room.                    *)
THEOREM QuotaKept == Spec => []SavedWithinQuota
<1>1. Init => SavedWithinQuota
  <2>1. Init => Reserved = {}
    BY DEF Init, Reserved
  <2> QED
    BY <2>1, FS_EmptySet DEF SavedWithinQuota
<1>2. ASSUME IInv, SavedWithinQuota, [Next]_vars PROVE SavedWithinQuota'
  <2>1. IsFiniteSet(Reserved)
    BY <1>2, FS_Subset DEF IInv, TypeOK, Reserved
  <2>2. Cardinality(Reserved) \in Nat
    BY <2>1, FS_CardinalityType
  <2>3. CASE Reserved' \subseteq Reserved
    <3>1. IsFiniteSet(Reserved') /\ Cardinality(Reserved') <= Cardinality(Reserved)
      BY <2>1, <2>3, FS_Subset
    <3>2. Cardinality(Reserved') \in Nat
      BY <3>1, FS_CardinalityType
    <3> QED
      BY <1>2, <2>2, <3>1, <3>2 DEF SavedWithinQuota
  <2>4. ASSUME Room, NEW f \in Files, Reserved' = Reserved \cup {f} PROVE SavedWithinQuota'
    <3>1. Cardinality(Reserved \cup {f}) \in {Cardinality(Reserved), Cardinality(Reserved) + 1}
      BY <2>1, FS_AddElement
    <3>2. Cardinality(Reserved \cup {f}) \in Nat
      BY <2>1, FS_AddElement, FS_CardinalityType
    <3> QED
      BY <2>2, <2>4, <3>1, <3>2 DEF Room, SavedWithinQuota
  <2> QED
    BY <1>2, <2>3, <2>4, ReservedStep
<1> QED
  BY <1>1, <1>2, Invariant, PTL DEF Spec

=============================================================================
