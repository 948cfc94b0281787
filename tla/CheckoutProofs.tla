--------------------------- MODULE CheckoutProofs ---------------------------
(***************************************************************************)
(* Theorems about Checkout.tla, for any carts, groups and vouchers.        *)
(*                                                                         *)
(* A voucher is in one place at a time because a reserved row keeps it     *)
(* "available", so that nothing may be spent on it, and a redemption keeps *)
(* it "used", so that no cart may choose it (WalletInv); that a new row    *)
(* never meets an older one rests on every reservation releasing the       *)
(* lapsed rows first.                                                      *)
(***************************************************************************)
EXTENDS Checkout, FiniteSetTheorems, TLAPS

USE CheckoutAssumption

-----------------------------------------------------------------------------
(* The inductive invariant.                                                *)

Row == [voucher : Vouchers \cup {Nothing}, bound : BOOLEAN,
        status : {"none", "reserved", "released", "consumed"}, lapsed : BOOLEAN]

(* A row that only a cart knows is deleted when it is let go; one that is  *)
(* bound to orders stays, and only a reserved one can be late.             *)
GoodRow ==
    {row \in Row :
        /\ row.status = "none" <=> row.voucher = Nothing
        /\ row.bound => row.status # "none"
        /\ row.status \in {"released", "consumed"} => row.bound
        /\ row.lapsed => row.status = "reserved"}

RowInv ==
    /\ reservation \in [Carts -> GoodRow]
    /\ \A c \in Carts : redemption[c] # "none" => reservation[c].status = "consumed"

(* What the wallet says of a voucher that is promised or spent.            *)
HeldInv ==
    \A c \in Carts :
       /\ reservation[c].status = "reserved" => voucher[reservation[c].voucher] = "available"
       /\ redemption[c] = "consumed" => voucher[reservation[c].voucher] = "used"

(* Two carts are neither promised the same voucher nor spend it.           *)
OnceInv ==
    \A c, d \in Carts : c # d /\ reservation[c].voucher = reservation[d].voucher =>
       /\ ~(reservation[c].status = "reserved" /\ reservation[d].status = "reserved")
       /\ ~(redemption[c] = "consumed" /\ redemption[d] = "consumed")

WalletInv == HeldInv /\ OnceInv

-----------------------------------------------------------------------------
(* Rows and groups.                                                        *)

(* A group belongs to the cart it is found in.                             *)
LEMMA CartOfGroup ==
    /\ \A g \in Groups : CartOf(g) \in Carts /\ g \in GroupsOf[CartOf(g)]
    /\ \A c \in Carts : \A g \in GroupsOf[c] : g \in Groups /\ CartOf(g) = c
<1>1. \A g \in Groups : \E c \in Carts : g \in GroupsOf[c]
  BY DEF Groups
<1>2. \A g \in Groups : CartOf(g) \in Carts /\ g \in GroupsOf[CartOf(g)]
  BY <1>1 DEF CartOf
<1>3. \A c \in Carts : \A g \in GroupsOf[c] : g \in Groups
  BY DEF Groups
<1> QED
  BY <1>2, <1>3

(* No row is a good row.                                                   *)
LEMMA NoRow == NoReservation \in GoodRow
BY DEF GoodRow, Row, NoReservation

(* What becomes of a reserved row that ends.                               *)
LEMMA EndedRow ==
    ASSUME NEW row \in GoodRow, row.status = "reserved",
           NEW status \in {"released", "consumed"}
    PROVE  /\ Ended(row, status) \in GoodRow
           /\ Ended(row, status).status # "reserved" /\ ~Ended(row, status).lapsed
           /\ Ended(row, status).bound = row.bound
           /\ row.bound => /\ Ended(row, status).status = status
                           /\ Ended(row, status).voucher = row.voucher
           /\ ~row.bound => Ended(row, status) = NoReservation
<1>1. CASE row.bound
  <2> DEFINE new == [row EXCEPT !.status = status, !.lapsed = FALSE]
  <2>1. /\ new \in Row /\ new.status = status /\ ~new.lapsed
        /\ new.bound = row.bound /\ new.voucher = row.voucher
    BY DEF Row, GoodRow
  <2>2. Ended(row, status) = new
    BY <1>1 DEF Ended
  <2> HIDE DEF new
  <2>3. new \in GoodRow
    BY <1>1, <2>1 DEF GoodRow
  <2> QED
    BY <1>1, <2>1, <2>2, <2>3
<1>2. CASE ~row.bound
  BY <1>2, NoRow DEF Ended, NoReservation, GoodRow, Row
<1> QED
  BY <1>1, <1>2

(* A row is let go of, or left alone.                                      *)
LetGo(row, new) ==
    \/ new = row
    \/ row.status = "reserved" /\ new = Ended(row, "released")

(* A row let go of is not reserved, and a spent one stays as it is.        *)
LEMMA LetGoRow ==
    ASSUME NEW row \in GoodRow, NEW new, LetGo(row, new)
    PROVE  /\ new \in GoodRow /\ new.bound = row.bound
           /\ new.status = "reserved" => new = row
           /\ row.status # "reserved" => new = row
BY EndedRow DEF LetGo

(* Release lets go of the reserved rows of the carts, and of no other.     *)
LEMMA ReleasedRows ==
    ASSUME NEW r \in [Carts -> GoodRow], NEW carts
    PROVE  /\ Release(r, carts) \in [Carts -> GoodRow]
           /\ \A c \in Carts :
                /\ LetGo(r[c], Release(r, carts)[c])
                /\ c \in carts => Release(r, carts)[c].status # "reserved"
                /\ c \notin carts => Release(r, carts)[c] = r[c]
<1>1. \A c \in Carts : r[c].status = "reserved" =>
        Ended(r[c], "released") \in GoodRow /\ Ended(r[c], "released").status # "reserved"
  BY EndedRow
<1> QED
  BY <1>1 DEF Release, LetGo

(* No other cart is promised v in time.                                    *)
NobodyElse(r, c, v) == \A d \in Carts \ {c} : ~Live(r, d, v)

(* In s the cart c is promised v and nobody else is; compared with r only  *)
(* lapsed rows were let go of.                                             *)
PromisedTo(c, v, r, s) ==
    /\ s \in [Carts -> GoodRow]
    /\ s[c].voucher = v /\ s[c].status = "reserved" /\ ~s[c].lapsed
    /\ \A d \in Carts \ {c} :
         /\ LetGo(r[d], s[d]) /\ ~Reserved(s, d, v)
         /\ s[d] = r[d] \/ r[d].lapsed

(* A reservation ends the lapsed ones, so that nobody else is promised the *)
(* voucher after it.                                                       *)
LEMMA ReservedRows ==
    ASSUME NEW r \in [Carts -> GoodRow], NEW c \in Carts, NEW v \in Vouchers,
           NEW bound \in BOOLEAN, NobodyElse(r, c, v),
           NEW s, s = ReservedFor(r, c, v, bound)
    PROVE  PromisedTo(c, v, r, s) /\ (s[c].bound <=> bound)
<1> DEFINE t == ReleaseLapsed(r)
<1>1. /\ t \in [Carts -> GoodRow]
      /\ \A d \in Carts : /\ LetGo(r[d], t[d]) /\ ~t[d].lapsed
                          /\ t[d] = r[d] \/ r[d].lapsed
  <2>1. /\ t \in [Carts -> GoodRow]
        /\ \A d \in Carts : /\ LetGo(r[d], t[d])
                            /\ r[d].lapsed => t[d].status # "reserved"
                            /\ ~r[d].lapsed => t[d] = r[d]
    BY ReleasedRows DEF ReleaseLapsed
  <2> QED
    BY <2>1, Zenon DEF GoodRow
<1>2. \E row \in GoodRow :
        /\ row.voucher = v /\ row.status = "reserved" /\ row.bound = bound /\ ~row.lapsed
        /\ s = [t EXCEPT ![c] = row]
  <2>1. CASE Reserved(t, c, v)
    <3> DEFINE row == [t[c] EXCEPT !.bound = bound]
    <3>1. t[c] \in GoodRow /\ t[c].voucher = v /\ t[c].status = "reserved" /\ ~t[c].lapsed
      BY <1>1, <2>1 DEF Reserved
    <3>2. row \in GoodRow /\ row.voucher = v /\ row.status = "reserved" /\ row.bound = bound /\ ~row.lapsed
      <4> DEFINE old == t[c]
      <4> HIDE DEF old, t
      <4>1. \A x \in GoodRow : x.voucher = v /\ x.status = "reserved" /\ ~x.lapsed =>
              LET y == [x EXCEPT !.bound = bound] IN
              y \in GoodRow /\ y.voucher = v /\ y.status = "reserved" /\ y.bound = bound /\ ~y.lapsed
        BY DEF GoodRow, Row
      <4> QED
        BY <3>1, <4>1
    <3>3. s = [t EXCEPT ![c] = row]
      BY <2>1 DEF ReservedFor
    <3> HIDE DEF row
    <3> QED
      BY <3>2, <3>3
  <2>2. CASE ~Reserved(t, c, v)
    <3> DEFINE row == [voucher |-> v, status |-> "reserved", bound |-> bound, lapsed |-> FALSE]
    <3>1. row \in GoodRow /\ row.voucher = v /\ row.status = "reserved" /\ row.bound = bound /\ ~row.lapsed
      BY DEF GoodRow, Row
    <3>2. s = [t EXCEPT ![c] = row]
      BY <2>2 DEF ReservedFor
    <3> HIDE DEF row
    <3> QED
      BY <3>1, <3>2
  <2> QED
    BY <2>1, <2>2
<1> HIDE DEF t
<1>4. \A d \in Carts \ {c} : ~Reserved(t, d, v)
  <2> SUFFICES ASSUME NEW d \in Carts \ {c}, Reserved(t, d, v) PROVE FALSE
    OBVIOUS
  <2>1. t[d] = r[d]
    BY <1>1, LetGoRow DEF Reserved
  <2> QED
    BY <1>1, <2>1 DEF Reserved, Live, NobodyElse
<1>5. /\ s \in [Carts -> GoodRow]
      /\ s[c].voucher = v /\ s[c].status = "reserved" /\ (s[c].bound <=> bound) /\ ~s[c].lapsed
      /\ \A d \in Carts \ {c} : s[d] = t[d]
  BY <1>1, <1>2
<1> QED
  BY <1>1, <1>4, <1>5 DEF Reserved, PromisedTo

-----------------------------------------------------------------------------
(* What the steps do to the rows and the wallet.                           *)

(* The wallet and the rows of the checkouts are in order, and nothing was  *)
(* promised to the orders of a draft.                                      *)
RowsInv ==
    /\ voucher \in [Vouchers -> {"available", "used", "void"}]
    /\ redemption \in [Carts -> {"none", "consumed", "restored"}]
    /\ RowInv /\ WalletInv
    /\ \A c \in Carts : cart[c] = "draft" => ~reservation[c].bound /\ redemption[c] = "none"

(* No draft gets a checkout's row.                                         *)
DraftsKept ==
    \A c \in Carts : cart'[c] = "draft" =>
        cart[c] = "draft" /\ redemption'[c] = redemption[c]

Late(row) == [row EXCEPT !.lapsed = TRUE]

(* A row that is late is the same reservation.                             *)
LEMMA LateRow ==
    ASSUME NEW row \in GoodRow, row.status = "reserved"
    PROVE  /\ Late(row) \in GoodRow /\ Late(row).bound = row.bound /\ Late(row).lapsed
           /\ Late(row).voucher = row.voucher /\ Late(row).status = "reserved"
BY DEF Late, GoodRow, Row

Slack(row, new) == LetGo(row, new) \/ (row.status = "reserved" /\ new = Late(row))

(* A row let go of or late is still a good row, and holds nothing new.     *)
LEMMA SlackRow ==
    ASSUME NEW row \in GoodRow, NEW new, Slack(row, new)
    PROVE  /\ new \in GoodRow /\ new.bound = row.bound
           /\ new.status = "reserved" => row.status = "reserved" /\ new.voucher = row.voucher
           /\ row.status # "reserved" => new = row
BY LetGoRow, LateRow DEF Slack

(* Rows are let go of, and a voucher nobody holds leaves the wallet, or    *)
(* comes back from the void.                                               *)
Loosened ==
    /\ reservation' \in [Carts -> GoodRow] /\ redemption' = redemption
    /\ voucher' \in [Vouchers -> {"available", "used", "void"}]
    /\ \A c \in Carts : Slack(reservation[c], reservation'[c])
    /\ \A v \in Vouchers :
         \/ voucher'[v] = voucher[v]
         \/ voucher[v] = "available" /\ \A c \in Carts : ~Reserved(reservation', c, v)
         \/ voucher[v] = "void" /\ voucher'[v] = "available"

(* Such a step keeps the rows and the wallet in order.                     *)
LEMMA LoosenedKeeps == ASSUME RowsInv, DraftsKept, Loosened PROVE RowsInv'
<1> USE DEF RowsInv, Loosened
<1>1. \A c \in Carts :
        /\ reservation[c] \in GoodRow /\ reservation'[c] \in GoodRow
        /\ reservation'[c].bound = reservation[c].bound
        /\ reservation'[c].status = "reserved" =>
             reservation[c].status = "reserved" /\ reservation'[c].voucher = reservation[c].voucher
        /\ redemption[c] # "none" => reservation'[c] = reservation[c] /\ reservation[c].status = "consumed"
  BY SlackRow DEF RowInv
<1>2. RowInv'
  BY <1>1 DEF RowInv
<1>3. OnceInv'
  BY <1>1 DEF WalletInv, OnceInv
<1>4. HeldInv'
  <2> SUFFICES ASSUME NEW c \in Carts
               PROVE  /\ reservation'[c].status = "reserved" =>
                             voucher'[reservation'[c].voucher] = "available"
                      /\ redemption'[c] = "consumed" => voucher'[reservation'[c].voucher] = "used"
    BY DEF HeldInv
  <2>1. ASSUME reservation'[c].status = "reserved" PROVE voucher'[reservation'[c].voucher] = "available"
    <3>1. /\ reservation'[c].voucher \in Vouchers /\ voucher[reservation'[c].voucher] = "available"
          /\ Reserved(reservation', c, reservation'[c].voucher)
      BY <1>1, <2>1 DEF WalletInv, HeldInv, Reserved, GoodRow, Row
    <3> QED
      BY <3>1
  <2>2. ASSUME redemption[c] = "consumed" PROVE voucher'[reservation'[c].voucher] = "used"
    <3>1. /\ reservation'[c].voucher \in Vouchers /\ voucher[reservation'[c].voucher] = "used"
      BY <1>1, <2>2 DEF WalletInv, HeldInv, GoodRow, Row
    <3> QED
      BY <3>1
  <2> QED
    BY <2>1, <2>2
<1>5. \A c \in Carts : cart'[c] = "draft" => ~reservation'[c].bound /\ redemption'[c] = "none"
  BY <1>1 DEF DraftsKept
<1> QED
  BY <1>2, <1>3, <1>4, <1>5 DEF WalletInv

(* The row of c becomes one about the available voucher v, and nobody else *)
(* is promised it.                                                         *)
Moved(c, v) ==
    /\ voucher[v] = "available"
    /\ reservation' \in [Carts -> GoodRow]
    /\ reservation'[c].voucher = v
    /\ \A d \in Carts \ {c} :
         LetGo(reservation[d], reservation'[d]) /\ ~Reserved(reservation', d, v)

(* What the other carts hold is theirs, and is another voucher.            *)
LEMMA OthersKeep ==
    ASSUME RowsInv, NEW c \in Carts, NEW v \in Vouchers, Moved(c, v)
    PROVE  \A d \in Carts \ {c} :
             /\ reservation[d] \in GoodRow
             /\ reservation'[d].bound = reservation[d].bound
             /\ reservation'[d].status = "reserved" =>
                  reservation'[d] = reservation[d] /\ reservation[d].voucher # v
             /\ redemption[d] # "none" =>
                  reservation'[d] = reservation[d] /\ reservation[d].status = "consumed"
             /\ redemption[d] = "consumed" => reservation[d].voucher # v
<1> SUFFICES ASSUME NEW d \in Carts \ {c}
             PROVE  /\ reservation[d] \in GoodRow
                    /\ reservation'[d].bound = reservation[d].bound
                    /\ reservation'[d].status = "reserved" =>
                         reservation'[d] = reservation[d] /\ reservation[d].voucher # v
                    /\ redemption[d] # "none" =>
                         reservation'[d] = reservation[d] /\ reservation[d].status = "consumed"
                    /\ redemption[d] = "consumed" => reservation[d].voucher # v
  OBVIOUS
<1>1. reservation[d] \in GoodRow /\ LetGo(reservation[d], reservation'[d])
      /\ ~Reserved(reservation', d, v)
  BY DEF RowsInv, RowInv, Moved
<1>2. /\ reservation'[d].bound = reservation[d].bound
      /\ reservation'[d].status = "reserved" => reservation'[d] = reservation[d]
      /\ reservation[d].status # "reserved" => reservation'[d] = reservation[d]
  BY <1>1, LetGoRow
<1>3. redemption[d] = "consumed" => reservation[d].voucher # v
  BY DEF RowsInv, WalletInv, HeldInv, Moved
<1>4. redemption[d] # "none" => reservation[d].status = "consumed"
  BY DEF RowsInv, RowInv
<1> QED
  BY <1>1, <1>2, <1>3, <1>4 DEF Reserved

(* A cart is promised an available voucher.                                *)
LEMMA PromisedKeeps ==
    ASSUME RowsInv, DraftsKept, NEW c \in Carts, NEW v \in Vouchers, Moved(c, v),
           reservation'[c].status = "reserved", redemption[c] = "none",
           cart'[c] = "draft" => ~reservation'[c].bound,
           voucher' = voucher, redemption' = redemption
    PROVE  RowsInv'
<1>1. \A d \in Carts : redemption[d] # "none" =>
        d # c /\ reservation'[d] = reservation[d] /\ reservation[d].status = "consumed"
  BY OthersKeep
<1>2. RowInv'
  BY <1>1 DEF RowInv, Moved
<1>3. OnceInv'
  BY <1>1, OthersKeep DEF RowsInv, WalletInv, OnceInv, Moved
<1>4. HeldInv'
  BY <1>1, OthersKeep DEF RowsInv, WalletInv, HeldInv, Moved
<1>5. \A d \in Carts : cart'[d] = "draft" => ~reservation'[d].bound /\ redemption'[d] = "none"
  BY OthersKeep DEF RowsInv, DraftsKept, Moved
<1> QED
  BY <1>2, <1>3, <1>4, <1>5 DEF RowsInv, WalletInv

(* A checkout spends an available voucher.                                 *)
LEMMA SpentKeeps ==
    ASSUME RowsInv, NEW c \in Carts, NEW v \in Vouchers, Moved(c, v),
           reservation'[c].status = "consumed", cart'[c] # "draft",
           \A d \in Carts \ {c} : cart'[d] = "draft" => cart[d] = "draft",
           voucher' = [voucher EXCEPT ![v] = "used"],
           redemption' = [redemption EXCEPT ![c] = "consumed"]
    PROVE  RowsInv'
<1>1. \A d \in Carts \ {c} : redemption'[d] = redemption[d]
  BY DEF RowsInv
<1>2. /\ voucher' \in [Vouchers -> {"available", "used", "void"}]
      /\ redemption' \in [Carts -> {"none", "consumed", "restored"}]
  BY DEF RowsInv
<1>3. redemption'[c] = "consumed" /\ voucher'[v] = "used"
      /\ \A w \in Vouchers \ {v} : voucher'[w] = voucher[w]
  BY DEF RowsInv
<1>4. RowInv'
  BY <1>1, <1>3, OthersKeep DEF RowInv, Moved
<1>5. OnceInv'
  BY <1>1, <1>3, OthersKeep DEF RowsInv, WalletInv, OnceInv, Moved
<1>6. HeldInv'
  <2> SUFFICES ASSUME NEW d \in Carts
               PROVE  /\ reservation'[d].status = "reserved" => voucher'[reservation'[d].voucher] = "available"
                      /\ redemption'[d] = "consumed" => voucher'[reservation'[d].voucher] = "used"
    BY DEF HeldInv
  <2>1. CASE d = c
    BY <1>3, <2>1 DEF Moved
  <2>2. CASE d # c
    <3>1. reservation'[d].status = "reserved" \/ redemption[d] = "consumed" =>
            reservation'[d] = reservation[d] /\ reservation[d].voucher \in Vouchers \ {v}
      BY <2>2, OthersKeep DEF GoodRow, Row
    <3> QED
      BY <1>1, <1>3, <2>2, <3>1 DEF RowsInv, WalletInv, HeldInv
  <2> QED
    BY <2>1, <2>2
<1>7. \A d \in Carts : cart'[d] = "draft" => ~reservation'[d].bound /\ redemption'[d] = "none"
  BY <1>1, OthersKeep DEF RowsInv
<1> QED
  BY <1>2, <1>4, <1>5, <1>6, <1>7 DEF RowsInv, WalletInv

(* The voucher of a remedied checkout goes back into the wallet.           *)
LEMMA RestoredKeeps ==
    ASSUME RowsInv, NEW g \in Groups, NEW fault, RestoreVoucher(g, fault),
           reservation' = reservation, cart' = cart
    PROVE  RowsInv'
<1> DEFINE c == CartOf(g)
           v == reservation[c].voucher
<1>1. CASE UNCHANGED <<voucher, redemption>>
  BY <1>1 DEF RowsInv, RowInv, WalletInv, HeldInv, OnceInv
<1>2. CASE /\ redemption[c] = "consumed" /\ voucher[v] = "used"
           /\ voucher' = [voucher EXCEPT ![v] = "available"]
           /\ redemption' = [redemption EXCEPT ![c] = "restored"]
  <2>1. c \in Carts /\ reservation[c] \in GoodRow /\ reservation[c].status = "consumed"
    BY <1>2, CartOfGroup DEF RowsInv, RowInv
  <2>2. v \in Vouchers
    BY <2>1 DEF GoodRow, Row
  <2> HIDE DEF c
  <2>3. redemption'[c] = "restored" /\ \A d \in Carts \ {c} : redemption'[d] = redemption[d]
    BY <1>2, <2>1 DEF RowsInv
  <2>4. /\ voucher' \in [Vouchers -> {"available", "used", "void"}]
        /\ redemption' \in [Carts -> {"none", "consumed", "restored"}]
        /\ voucher'[v] = "available" /\ \A w \in Vouchers \ {v} : voucher'[w] = voucher[w]
    BY <1>2, <2>1, <2>2 DEF RowsInv
  <2>5. RowInv' /\ OnceInv'
    BY <1>2, <2>1, <2>3 DEF RowsInv, RowInv, WalletInv, OnceInv
  <2>6. HeldInv'
    <3> SUFFICES ASSUME NEW d \in Carts
                 PROVE  /\ reservation'[d].status = "reserved" => voucher'[reservation'[d].voucher] = "available"
                        /\ redemption'[d] = "consumed" => voucher'[reservation'[d].voucher] = "used"
      BY DEF HeldInv
    <3>1. ASSUME reservation[d].status = "reserved" PROVE voucher'[reservation[d].voucher] = "available"
      <4>1. reservation[d].voucher \in Vouchers /\ voucher[reservation[d].voucher] = "available"
        BY <3>1 DEF RowsInv, RowInv, WalletInv, HeldInv, GoodRow, Row
      <4> QED
        BY <2>4, <4>1
    <3>2. ASSUME redemption'[d] = "consumed" PROVE voucher'[reservation[d].voucher] = "used"
      <4>1. d # c /\ redemption[d] = "consumed" /\ reservation[d].status = "consumed"
        BY <2>3, <3>2 DEF RowsInv, RowInv
      <4>2. reservation[d].voucher \in Vouchers /\ voucher[reservation[d].voucher] = "used"
        BY <4>1 DEF RowsInv, RowInv, WalletInv, HeldInv, GoodRow, Row
      <4>3. reservation[d].voucher # v
        BY <1>2, <2>1, <4>1 DEF RowsInv, WalletInv, OnceInv
      <4> QED
        BY <2>4, <4>2, <4>3
    <3> QED
      BY <3>1, <3>2
  <2>7. \A d \in Carts : cart'[d] = "draft" => ~reservation'[d].bound /\ redemption'[d] = "none"
    BY <1>2, <2>1, <2>3 DEF RowsInv
  <2> QED
    BY <2>4, <2>5, <2>6, <2>7 DEF RowsInv, WalletInv
<1> QED
  BY <1>1, <1>2 DEF RestoreVoucher

(* Steps that touch neither a row nor a voucher.                           *)
LEMMA UntouchedKeeps ==
    ASSUME RowsInv, DraftsKept, UNCHANGED <<voucher, reservation, redemption>>
    PROVE  RowsInv'
BY DEF RowsInv, DraftsKept, RowInv, WalletInv, HeldInv, OnceInv

(* A cart that releases some rows and promises nothing.                    *)
LEMMA ReleaseKeeps ==
    ASSUME RowsInv, DraftsKept, NEW carts, reservation' = Release(reservation, carts),
           UNCHANGED <<voucher, redemption>>
    PROVE  RowsInv'
<1>1. reservation \in [Carts -> GoodRow]
  BY DEF RowsInv, RowInv
<1>2. Loosened
  BY <1>1, ReleasedRows DEF Loosened, Slack, RowsInv
<1> QED
  BY <1>2, LoosenedKeeps

(* POST /me/carts/:id/voucher                                              *)
LEMMA ChooseKeeps ==
    ASSUME RowsInv, NEW c \in Carts, NEW v \in Vouchers, ChooseVoucher(c, v)
    PROVE  RowsInv'
<1> DEFINE released == Release(reservation, {c})
<1>1. /\ released \in [Carts -> GoodRow]
      /\ \A d \in Carts \ {c} : released[d] = reservation[d]
  BY ReleasedRows DEF RowsInv, RowInv
<1>2. voucher[v] = "available" /\ NobodyElse(released, c, v)
  BY DEF ChooseVoucher, Available, NobodyElse
<1>3. reservation' = ReservedFor(released, c, v, FALSE) /\ cart[c] = "draft"
  BY DEF ChooseVoucher
<1> HIDE DEF released
<1>4. PromisedTo(c, v, released, reservation') /\ ~reservation'[c].bound
  BY <1>1, <1>2, <1>3, ReservedRows
<1>7. reservation'[c].status = "reserved"
  BY <1>4 DEF PromisedTo
<1>5. Moved(c, v)
  BY <1>1, <1>2, <1>4 DEF Moved, PromisedTo
<1>6. /\ redemption[c] = "none" /\ DraftsKept
      /\ UNCHANGED <<voucher, redemption>>
  BY <1>3 DEF RowsInv, ChooseVoucher, wallet, DraftsKept
<1> QED
  BY <1>4, <1>5, <1>6, <1>7, PromisedKeeps

(* What a checkout makes of the rows: it lets go of its cart's, or gets    *)
(* one for an available voucher.                                           *)
LEMMA CheckoutRows ==
    ASSUME RowsInv, NEW c \in Carts, NEW v \in Vouchers \cup {Nothing}, Checkout(c, v)
    PROVE  /\ cart[c] = "draft" /\ ~reservation[c].bound /\ redemption[c] = "none"
           /\ cart' = [cart EXCEPT ![c] = "checked_out"]
           /\ v = Nothing =>
                /\ reservation' = Release(reservation, {c})
                /\ UNCHANGED <<voucher, redemption>>
           /\ v # Nothing =>
                /\ Moved(c, v) /\ reservation'[c].bound
                /\ \A d \in Carts \ {c} : reservation'[d] = reservation[d] \/ reservation[d].lapsed
                /\ v \in Covering => /\ reservation'[c].status = "consumed"
                                     /\ voucher' = [voucher EXCEPT ![v] = "used"]
                                     /\ redemption' = [redemption EXCEPT ![c] = "consumed"]
                /\ v \notin Covering => /\ reservation'[c].status = "reserved"
                                        /\ UNCHANGED <<voucher, redemption>>
<1>1. /\ cart[c] = "draft" /\ ~reservation[c].bound /\ redemption[c] = "none"
      /\ cart' = [cart EXCEPT ![c] = "checked_out"]
  BY DEF Checkout, RowsInv
<1>2. CASE v = Nothing
  BY <1>1, <1>2 DEF Checkout
<1>3. CASE v \in Vouchers
  <2> DEFINE promised == ReservedFor(reservation, c, v, TRUE)
             spent == [promised[c] EXCEPT !.status = "consumed"]
  <2>1. v \in Available(reservation, c)
    BY <1>3 DEF Checkout, Candidates
  <2>2. voucher[v] = "available" /\ NobodyElse(reservation, c, v)
    BY <2>1 DEF Available, NobodyElse
  <2> HIDE DEF promised
  <2>9. promised = ReservedFor(reservation, c, v, TRUE) /\ reservation \in [Carts -> GoodRow]
    BY DEF promised, RowsInv, RowInv
  <2>3. PromisedTo(c, v, reservation, promised) /\ promised[c].bound
    BY <1>3, <2>2, <2>9, ReservedRows
  <2>8. promised[c] \in GoodRow /\ promised[c].voucher = v /\ ~promised[c].lapsed
    BY <2>3 DEF PromisedTo
  <2>4. /\ v \in Covering => /\ reservation' = [promised EXCEPT ![c] = spent]
                             /\ voucher' = [voucher EXCEPT ![v] = "used"]
                             /\ redemption' = [redemption EXCEPT ![c] = "consumed"]
        /\ v \notin Covering => reservation' = promised /\ UNCHANGED <<voucher, redemption>>
    BY <1>3 DEF Checkout, promised
  <2>5. spent \in GoodRow /\ spent.voucher = v /\ spent.status = "consumed" /\ spent.bound
    <3>1. \A x \in GoodRow : x.voucher = v /\ x.bound /\ ~x.lapsed =>
            LET y == [x EXCEPT !.status = "consumed"] IN
            y \in GoodRow /\ y.voucher = v /\ y.status = "consumed" /\ y.bound
      BY <1>3 DEF GoodRow, Row
    <3> QED
      BY <2>3, <2>8, <3>1
  <2> HIDE DEF spent
  <2>6. CASE v \in Covering
    <3>1. /\ reservation' \in [Carts -> GoodRow] /\ reservation'[c] = spent
          /\ \A d \in Carts \ {c} : reservation'[d] = promised[d]
      BY <2>3, <2>4, <2>5, <2>6 DEF PromisedTo
    <3> QED
      BY <1>1, <1>3, <2>2, <2>3, <2>4, <2>5, <2>6, <3>1 DEF PromisedTo, Moved, Reserved
  <2>7. CASE v \notin Covering
    BY <1>1, <1>3, <2>2, <2>3, <2>4, <2>7 DEF PromisedTo, Moved
  <2> QED
    BY <2>6, <2>7
<1> QED
  BY <1>2, <1>3

(* POST /me/carts/:id/checkout                                             *)
LEMMA CheckoutKeeps ==
    ASSUME RowsInv, NEW c \in Carts, NEW v \in Vouchers \cup {Nothing}, Checkout(c, v),
           cart \in [Carts -> {"draft", "checked_out"}]
    PROVE  RowsInv'
<1>1. cart' = [cart EXCEPT ![c] = "checked_out"] /\ redemption[c] = "none"
  BY CheckoutRows
<1>2. cart'[c] = "checked_out" /\ \A d \in Carts \ {c} : cart'[d] = cart[d]
  BY <1>1
<1>3. CASE v = Nothing
  <2>1. reservation' = Release(reservation, {c}) /\ UNCHANGED <<voucher, redemption>>
    BY <1>3, CheckoutRows
  <2>2. DraftsKept
    BY <1>2, <2>1 DEF DraftsKept
  <2> QED
    BY <2>1, <2>2, ReleaseKeeps
<1>4. CASE v \in Vouchers
  <2>1. /\ v # Nothing /\ Moved(c, v)
        /\ v \in Covering => /\ reservation'[c].status = "consumed"
                             /\ voucher' = [voucher EXCEPT ![v] = "used"]
                             /\ redemption' = [redemption EXCEPT ![c] = "consumed"]
        /\ v \notin Covering => /\ reservation'[c].status = "reserved"
                                /\ UNCHANGED <<voucher, redemption>>
    BY <1>4, CheckoutRows
  <2>2. CASE v \in Covering
    BY <1>2, <1>4, <2>1, <2>2, SpentKeeps
  <2>3. CASE v \notin Covering
    <3>1. DraftsKept
      BY <1>2, <2>1, <2>3 DEF DraftsKept
    <3> QED
      BY <1>1, <1>2, <1>4, <2>1, <2>3, <3>1, PromisedKeeps
  <2> QED
    BY <2>2, <2>3
<1> QED
  BY <1>3, <1>4

(* The confirmation of a payment.                                          *)
LEMMA RedeemKeeps ==
    ASSUME RowsInv, NEW c \in Carts, NEW paid, RedeemVoucher(c, paid), cart' = cart
    PROVE  RowsInv'
<1>1. CASE reservation[c].bound
  <2> DEFINE v == reservation[c].voucher
             new == Ended(reservation[c], "consumed")
  <2>1. /\ reservation[c] \in GoodRow /\ reservation[c].status = "reserved"
        /\ voucher[v] = "available"
        /\ reservation' = [reservation EXCEPT ![c] = new]
        /\ voucher' = [voucher EXCEPT ![v] = "used"]
        /\ redemption' = [redemption EXCEPT ![c] = "consumed"]
    BY <1>1 DEF RowsInv, RowInv, RedeemVoucher, PromiseStands
  <2>2. v \in Vouchers
    BY <2>1 DEF GoodRow, Row
  <2>3. new \in GoodRow /\ new.status = "consumed" /\ new.voucher = v
    BY <1>1, <2>1, EndedRow
  <2> HIDE DEF new
  <2>4. /\ reservation' \in [Carts -> GoodRow] /\ reservation'[c] = new
        /\ \A d \in Carts \ {c} : reservation'[d] = reservation[d]
    BY <2>1, <2>3 DEF RowsInv, RowInv
  <2>5. Moved(c, v)
    BY <2>1, <2>3, <2>4 DEF Moved, LetGo, Reserved, RowsInv, WalletInv, OnceInv
  <2>6. cart[c] # "draft"
    BY <1>1 DEF RowsInv
  <2> HIDE DEF v
  <2> QED
    BY <2>1, <2>2, <2>3, <2>4, <2>5, <2>6, SpentKeeps
<1>2. CASE ~reservation[c].bound
  BY <1>2, UntouchedKeeps DEF RedeemVoucher, DraftsKept
<1> QED
  BY <1>1, <1>2

(* POST /orders/:id/transition to cancelled                                *)
LEMMA CancelKeeps ==
    ASSUME RowsInv, NEW g \in Groups, NEW by, CancelOrder(g, by)
    PROVE  RowsInv'
<1> DEFINE c == CartOf(g)
           r == reservation[c]
<1>1. c \in Carts /\ DraftsKept /\ redemption' = redemption
  BY CartOfGroup DEF CancelOrder, DraftsKept
<1>2. CASE r.bound /\ r.status = "reserved"
  <2>1. /\ reservation' = Release(reservation, {c})
        /\ \/ voucher' = voucher
           \/ voucher' = [voucher EXCEPT ![r.voucher] = "used"]
    BY <1>2 DEF CancelOrder
  <2>2. /\ reservation \in [Carts -> GoodRow] /\ reservation' \in [Carts -> GoodRow]
        /\ reservation'[c].status # "reserved"
        /\ \A d \in Carts \ {c} : reservation'[d] = reservation[d]
        /\ \A d \in Carts : LetGo(reservation[d], reservation'[d])
    BY <1>1, <2>1, ReleasedRows DEF RowsInv, RowInv
  <2> HIDE DEF c
  <2>3. r.voucher \in Vouchers /\ voucher[r.voucher] = "available"
    BY <1>1, <1>2, <2>2 DEF GoodRow, Row, RowsInv, WalletInv, HeldInv
  <2>4. \A d \in Carts : ~Reserved(reservation', d, r.voucher)
    BY <1>1, <1>2, <2>2 DEF Reserved, RowsInv, WalletInv, OnceInv
  <2> HIDE DEF r
  <2>5. Loosened
    BY <1>1, <2>1, <2>2, <2>3, <2>4 DEF Loosened, Slack, RowsInv
  <2> QED
    BY <1>1, <2>5, LoosenedKeeps
<1>3. CASE ~(r.bound /\ r.status = "reserved")
  BY <1>1, <1>3, UntouchedKeeps DEF CancelOrder
<1> QED
  BY <1>2, <1>3

(* POST /admin/vouchers/:id/void                                           *)
LEMMA VoidKeeps == ASSUME RowsInv, NEW v \in Vouchers, VoidVoucher(v) PROVE RowsInv'
<1>1. DraftsKept /\ redemption' = redemption
  BY DEF VoidVoucher, DraftsKept
<1>2. CASE voucher[v] = "available"
  <2> DEFINE carts == {c \in Carts : reservation[c].voucher = v}
  <2>1. reservation' = Release(reservation, carts) /\ voucher' = [voucher EXCEPT ![v] = "void"]
    BY <1>2 DEF VoidVoucher
  <2>2. /\ reservation \in [Carts -> GoodRow] /\ reservation' \in [Carts -> GoodRow]
        /\ \A c \in Carts : /\ LetGo(reservation[c], reservation'[c])
                            /\ c \in carts => reservation'[c].status # "reserved"
                            /\ c \notin carts => reservation'[c] = reservation[c]
    BY <2>1, ReleasedRows DEF RowsInv, RowInv
  <2>3. \A c \in Carts : ~Reserved(reservation', c, v)
    BY <2>2 DEF Reserved
  <2> HIDE DEF carts
  <2>4. Loosened
    BY <1>1, <1>2, <2>1, <2>2, <2>3 DEF Loosened, Slack, RowsInv
  <2> QED
    BY <1>1, <2>4, LoosenedKeeps
<1>3. CASE voucher[v] # "available"
  BY <1>1, <1>3, UntouchedKeeps DEF VoidVoucher
<1> QED
  BY <1>2, <1>3

(* POST /admin/vouchers/:id/reissue                                        *)
LEMMA ReissueKeeps == ASSUME RowsInv, NEW v \in Vouchers, ReissueVoucher(v) PROVE RowsInv'
<1>1. DraftsKept /\ UNCHANGED <<reservation, redemption>>
      /\ voucher[v] = "void" /\ voucher' = [voucher EXCEPT ![v] = "available"]
  BY DEF ReissueVoucher, DraftsKept
<1>2. Loosened
  BY <1>1 DEF Loosened, Slack, LetGo, RowsInv, RowInv
<1> QED
  BY <1>1, <1>2, LoosenedKeeps

(* The thirty minutes of a reservation, or the validity of a voucher, end. *)
LEMMA LateKeeps ==
    ASSUME RowsInv, (\E c \in Carts : Lapse(c)) \/ (\E v \in Vouchers : Elapse(v))
    PROVE  RowsInv'
<1>1. reservation \in [Carts -> GoodRow]
  BY DEF RowsInv, RowInv
<1>2. \A c \in Carts : reservation[c].status = "reserved" => Late(reservation[c]) \in GoodRow
  BY <1>1, LateRow
<1>3. DraftsKept /\ UNCHANGED <<voucher, redemption>>
  BY DEF Lapse, Elapse, DraftsKept, wallet
<1>4. /\ reservation' \in [Carts -> GoodRow]
      /\ \A c \in Carts : Slack(reservation[c], reservation'[c])
  <2>1. CASE \E c \in Carts : Lapse(c)
    BY <1>1, <1>2, <2>1 DEF Lapse, Slack, LetGo, Late
  <2>2. CASE \E v \in Vouchers : Elapse(v)
    BY <1>1, <1>2, <2>2 DEF Elapse, Slack, LetGo, Late, Reserved
  <2> QED
    BY <2>1, <2>2
<1>5. Loosened
  BY <1>3, <1>4 DEF Loosened, RowsInv
<1> QED
  BY <1>3, <1>5, LoosenedKeeps

(* Every step keeps the rows and the wallet in order.                      *)
LEMMA RowsStep ==
    ASSUME RowsInv, cart \in [Carts -> {"draft", "checked_out"}], [Next]_vars
    PROVE  RowsInv'
<1>1. CASE UNCHANGED vars
  BY <1>1, UntouchedKeeps DEF vars, wallet, DraftsKept
<1>2. ASSUME NEW c \in Carts, NEW v \in Vouchers, ChooseVoucher(c, v) PROVE RowsInv'
  BY <1>2, ChooseKeeps
<1>3. ASSUME NEW c \in Carts, RemoveVoucher(c) PROVE RowsInv'
  BY <1>3, ReleaseKeeps DEF RemoveVoucher, wallet, DraftsKept
<1>4. ASSUME NEW c \in Carts, NEW v \in Vouchers \cup {Nothing}, Checkout(c, v) PROVE RowsInv'
  BY <1>4, CheckoutKeeps
<1>5. ASSUME NEW c \in Carts, SubmitBasket(c) \/ RejectBasket(c) PROVE RowsInv'
  BY <1>5, UntouchedKeeps DEF SubmitBasket, RejectBasket, wallet, DraftsKept
<1>6. ASSUME NEW c \in Carts, ConfirmBasket(c) PROVE RowsInv'
  BY <1>6, RedeemKeeps DEF ConfirmBasket
<1>7. ASSUME NEW g \in Groups, SubmitOrder(g) \/ RejectOrder(g) PROVE RowsInv'
  BY <1>7, UntouchedKeeps DEF SubmitOrder, RejectOrder, wallet, DraftsKept
<1>8. ASSUME NEW g \in Groups, ConfirmOrder(g) PROVE RowsInv'
  BY <1>8, RedeemKeeps, CartOfGroup DEF ConfirmOrder
<1>9. ASSUME NEW g \in Groups, NEW by, CancelOrder(g, by) PROVE RowsInv'
  BY <1>9, CancelKeeps
<1>10. ASSUME NEW g \in Groups, NEW fault \in Faults, SettleRefund(g, fault) PROVE RowsInv'
  <2>1. reservation' = reservation /\ cart' = cart
    BY <1>10 DEF SettleRefund
  <2>2. RestoreVoucher(g, fault) \/ UNCHANGED <<voucher, redemption>>
    BY <1>10 DEF SettleRefund
  <2> QED
    BY <2>1, <2>2, RestoredKeeps, UntouchedKeeps DEF DraftsKept
<1>11. ASSUME NEW g \in Groups, RecordTransfer(g) PROVE RowsInv'
  BY <1>11, RestoredKeeps DEF RecordTransfer
<1>12. ASSUME NEW v \in Vouchers, VoidVoucher(v) PROVE RowsInv'
  BY <1>12, VoidKeeps
<1>13. ASSUME NEW v \in Vouchers, ReissueVoucher(v) PROVE RowsInv'
  BY <1>13, ReissueKeeps
<1>14. ASSUME (\E c \in Carts : Lapse(c)) \/ (\E v \in Vouchers : Elapse(v)) PROVE RowsInv'
  BY <1>14, LateKeeps
<1>15. ASSUME NEW next, SetCampaign(next) PROVE RowsInv'
  BY <1>15, UntouchedKeeps DEF SetCampaign, DraftsKept
<1>16. CASE Sweep
  BY <1>16, ReleaseKeeps DEF Sweep, wallet, DraftsKept
<1> QED
  BY <1>1, <1>2, <1>3, <1>4, <1>5, <1>6, <1>7, <1>8, <1>9, <1>10, <1>11, <1>12, <1>13,
     <1>14, <1>15, <1>16 DEF Next

-----------------------------------------------------------------------------
(* What the steps do to the orders and their payments.                     *)

OrdersInv ==
    /\ cart \in [Carts -> {"draft", "checked_out"}]
    /\ basket \in [Carts -> PaymentStatuses]
    /\ payment \in [Groups -> PaymentStatuses]
    /\ state \in [Groups -> {"none", "initial_payment_review", "needs_qa",
                             "awaiting_initial_payment", "cancelled"}]
    /\ cancelled \subseteq Groups
    /\ \A c \in Carts :
         /\ ~IsBasket(c) => basket[c] = "none"
         /\ cart[c] = "draft" => \A g \in GroupsOf[c] : payment[g] = "none" /\ g \notin cancelled
    /\ GroupsMoveTogether

(* An order that is not of a basket is the only one of its checkout.       *)
LEMMA AloneInItsCheckout ==
    ASSUME NEW g \in Groups, ~IsBasket(CartOf(g))
    PROVE  GroupsOf[CartOf(g)] = {g}
<1> DEFINE all == GroupsOf[CartOf(g)]
<1>1. g \in all /\ IsFiniteSet(all)
  BY CartOfGroup
<1>2. Cardinality(all) \in Nat /\ (Cardinality(all) = 0 <=> all = {})
  BY <1>1, FS_CardinalityType, FS_EmptySet
<1>3. Cardinality(all) = 1
  BY <1>1, <1>2 DEF IsBasket
<1>4. \E x : all = {x}
  BY <1>1, <1>3, FS_Singleton
<1> QED
  BY <1>1, <1>4

(* An order with a payment, and a basket with one, were checked out.       *)
LEMMA CheckedOut ==
    ASSUME OrdersInv
    PROVE  /\ \A g \in Groups : payment[g] # "none" => cart[CartOf(g)] = "checked_out"
           /\ \A c \in Carts : basket[c] # "none" => cart[c] = "checked_out" /\ IsBasket(c)
<1>1. \A g \in Groups : payment[g] # "none" => cart[CartOf(g)] = "checked_out"
  BY CartOfGroup DEF OrdersInv
<1>2. ASSUME NEW c \in Carts, basket[c] # "none"
      PROVE  cart[c] = "checked_out" /\ IsBasket(c)
  <2>1. IsBasket(c)
    BY <1>2 DEF OrdersInv
  <2>2. PICK g \in GroupsOf[c] : TRUE
    BY CheckoutAssumption
  <2>3. g \in Groups /\ CartOf(g) = c /\ payment[g] = basket[c]
    BY <2>1, CartOfGroup DEF OrdersInv, GroupsMoveTogether
  <2> QED
    BY <1>1, <1>2, <2>1, <2>3
<1> QED
  BY <1>1, <1>2

(* A step that pays nothing and cancels nothing.                           *)
LEMMA OrdersUntouched == ASSUME OrdersInv, UNCHANGED <<cart, orders>> PROVE OrdersInv'
BY DEF OrdersInv, orders, GroupsMoveTogether

(* The payment of all orders of a checkout moves.                          *)
LEMMA PaymentMoves ==
    ASSUME OrdersInv, NEW c \in Carts,
           NEW status \in {"not_submitted", "pending_confirmation", "confirmed"},
           MovePayment(GroupsOf[c], status, StepOf(status)),
           basket' = IF IsBasket(c) THEN [basket EXCEPT ![c] = status] ELSE basket,
           cart' \in [Carts -> {"draft", "checked_out"}], cart'[c] = "checked_out",
           \A d \in Carts \ {c} : cart'[d] = cart[d],
           cancelled' = cancelled
    PROVE  OrdersInv'
<1>1. /\ \A g \in GroupsOf[c] :
           /\ payment'[g] = status
           /\ state'[g] = IF state[g] = "cancelled" THEN "cancelled" ELSE StepOf(status)
      /\ \A d \in Carts \ {c} : \A g \in GroupsOf[d] :
           payment'[g] = payment[g] /\ state'[g] = state[g]
  BY CartOfGroup DEF MovePayment
<1>2. StepOf(status) \in {"needs_qa", "initial_payment_review", "awaiting_initial_payment"}
  BY DEF StepOf
<1>3. /\ payment' \in [Groups -> PaymentStatuses]
      /\ state' \in [Groups -> {"none", "initial_payment_review", "needs_qa",
                                "awaiting_initial_payment", "cancelled"}]
      /\ cancelled' \subseteq Groups
  BY <1>2 DEF MovePayment, OrdersInv, PaymentStatuses
<1>4. /\ basket' \in [Carts -> PaymentStatuses]
      /\ IsBasket(c) => basket'[c] = status
      /\ ~IsBasket(c) => basket'[c] = "none"
      /\ \A d \in Carts \ {c} : basket'[d] = basket[d]
  BY DEF OrdersInv, PaymentStatuses
<1>5. \A g \in Groups : state[g] = "cancelled" <=> g \in cancelled
  BY CartOfGroup DEF OrdersInv, GroupsMoveTogether, StepOf
<1>6. GroupsMoveTogether'
  <2> SUFFICES ASSUME NEW d \in Carts, NEW g \in GroupsOf[d]
               PROVE  /\ IsBasket(d) => payment'[g] = basket'[d]
                      /\ state'[g] = IF g \in cancelled' THEN "cancelled" ELSE StepOf(payment'[g])
    BY DEF GroupsMoveTogether
  <2>1. CASE d = c
    BY <1>1, <1>4, <1>5, <2>1, CartOfGroup
  <2>2. CASE d # c
    BY <1>1, <1>4, <2>2 DEF OrdersInv, GroupsMoveTogether
  <2> QED
    BY <2>1, <2>2
<1>7. \A d \in Carts :
        /\ ~IsBasket(d) => basket'[d] = "none"
        /\ cart'[d] = "draft" => \A g \in GroupsOf[d] : payment'[g] = "none" /\ g \notin cancelled'
  BY <1>1, <1>4 DEF OrdersInv
<1> QED
  BY <1>3, <1>4, <1>6, <1>7 DEF OrdersInv

(* An order with a payment is cancelled.                                   *)
LEMMA OrderStops ==
    ASSUME OrdersInv, NEW g \in Groups, payment[g] # "none",
           state' = [state EXCEPT ![g] = "cancelled"], cancelled' = cancelled \cup {g},
           UNCHANGED <<cart, basket, payment>>
    PROVE  OrdersInv'
<1>1. cart[CartOf(g)] = "checked_out"
  BY CheckedOut
<1>2. \A c \in Carts : cart[c] = "draft" => \A h \in GroupsOf[c] : h \notin cancelled'
  BY <1>1, CartOfGroup DEF OrdersInv
<1>3. GroupsMoveTogether'
  <2>1. \A h \in Groups : h # g =>
          state'[h] = state[h] /\ (h \in cancelled' <=> h \in cancelled)
    BY DEF OrdersInv
  <2>2. state'[g] = "cancelled" /\ g \in cancelled'
    BY DEF OrdersInv
  <2> QED
    BY <2>1, <2>2, CartOfGroup DEF OrdersInv, GroupsMoveTogether
<1> QED
  BY <1>2, <1>3 DEF OrdersInv

(* Every step keeps the orders in order.                                   *)
LEMMA OrdersStep ==
    ASSUME OrdersInv, RowsInv, [Next]_vars
    PROVE  OrdersInv'
<1>1. CASE UNCHANGED vars
  BY <1>1, OrdersUntouched DEF vars
<1>2. ASSUME NEW c \in Carts, NEW v \in Vouchers \cup {Nothing}, Checkout(c, v) PROVE OrdersInv'
  <2> DEFINE paid == IF v \in Covering THEN "confirmed" ELSE "pending_confirmation"
             step == IF v \in Covering THEN "needs_qa" ELSE "initial_payment_review"
  <2>1. /\ cart[c] = "draft" /\ cart' = [cart EXCEPT ![c] = "checked_out"]
        /\ basket' = IF IsBasket(c) THEN [basket EXCEPT ![c] = paid] ELSE basket
        /\ payment' = [g \in Groups |-> IF g \in GroupsOf[c] THEN paid ELSE payment[g]]
        /\ state' = [g \in Groups |-> IF g \in GroupsOf[c] THEN step ELSE state[g]]
        /\ cancelled' = cancelled
    BY <1>2 DEF Checkout
  <2>2. step = StepOf(paid) /\ paid \in {"not_submitted", "pending_confirmation", "confirmed"}
    BY DEF StepOf
  <2> HIDE DEF paid, step
  <2>3. \A g \in GroupsOf[c] : state[g] # "cancelled"
    BY <2>1 DEF OrdersInv, GroupsMoveTogether, StepOf
  <2>4. MovePayment(GroupsOf[c], paid, step)
    BY <2>1, <2>3 DEF MovePayment
  <2>5. /\ cart' \in [Carts -> {"draft", "checked_out"}] /\ cart'[c] = "checked_out"
        /\ \A d \in Carts \ {c} : cart'[d] = cart[d]
    BY <2>1 DEF OrdersInv
  <2> QED
    BY <2>1, <2>2, <2>4, <2>5, PaymentMoves
<1>3. ASSUME NEW c \in Carts, SubmitBasket(c) \/ ConfirmBasket(c) \/ RejectBasket(c)
      PROVE  OrdersInv'
  <2>1. PICK status \in {"not_submitted", "pending_confirmation", "confirmed"} :
          /\ MovePayment(GroupsOf[c], status, StepOf(status))
          /\ basket' = [basket EXCEPT ![c] = status]
    BY <1>3 DEF SubmitBasket, ConfirmBasket, RejectBasket, StepOf
  <2>2. basket[c] # "none" /\ UNCHANGED <<cart, cancelled>>
    BY <1>3 DEF SubmitBasket, ConfirmBasket, RejectBasket
  <2>3. cart[c] = "checked_out" /\ IsBasket(c)
    BY <2>2, CheckedOut
  <2>4. cart \in [Carts -> {"draft", "checked_out"}]
    BY DEF OrdersInv
  <2> QED
    BY <2>1, <2>2, <2>3, <2>4, PaymentMoves
<1>4. ASSUME NEW g \in Groups, SubmitOrder(g) \/ ConfirmOrder(g) \/ RejectOrder(g)
      PROVE  OrdersInv'
  <2>1. PICK status \in {"not_submitted", "pending_confirmation", "confirmed"} :
          MovePayment({g}, status, StepOf(status))
    BY <1>4 DEF SubmitOrder, ConfirmOrder, RejectOrder, StepOf
  <2>2. ~IsBasket(CartOf(g)) /\ UNCHANGED <<cart, cancelled, basket>>
    BY <1>4 DEF SubmitOrder, ConfirmOrder, RejectOrder, OrderPaidAlone
  <2>3. payment[g] # "none"
    <3>1. (state[g] # "none" /\ state[g] # "cancelled") \/ payment[g] # "none"
      BY <1>4 DEF SubmitOrder, ConfirmOrder, RejectOrder
    <3> QED
      BY <3>1, CartOfGroup DEF OrdersInv, GroupsMoveTogether, StepOf
  <2>4. CartOf(g) \in Carts /\ GroupsOf[CartOf(g)] = {g} /\ cart[CartOf(g)] = "checked_out"
    BY <2>2, <2>3, CartOfGroup, AloneInItsCheckout, CheckedOut
  <2>5. cart \in [Carts -> {"draft", "checked_out"}]
    BY DEF OrdersInv
  <2> QED
    BY <2>1, <2>2, <2>4, <2>5, PaymentMoves
<1>5. ASSUME NEW g \in Groups, NEW by, CancelOrder(g, by) PROVE OrdersInv'
  <2>1. state[g] \in {"initial_payment_review", "needs_qa"}
    BY <1>5 DEF CancelOrder
  <2>2. payment[g] # "none"
    BY <2>1, CartOfGroup DEF OrdersInv, GroupsMoveTogether, StepOf
  <2> QED
    BY <1>5, <2>2, OrderStops DEF CancelOrder
<1>6. ASSUME NEW g \in Groups, NEW fault, SettleRefund(g, fault) PROVE OrdersInv'
  BY <1>6, OrderStops DEF SettleRefund
<1>7. ASSUME NEW c \in Carts,
             (\E v \in Vouchers : ChooseVoucher(c, v)) \/ RemoveVoucher(c) \/ Lapse(c)
      PROVE  OrdersInv'
  BY <1>7, OrdersUntouched DEF ChooseVoucher, RemoveVoucher, Lapse
<1>8. ASSUME NEW v \in Vouchers, VoidVoucher(v) \/ ReissueVoucher(v) \/ Elapse(v)
      PROVE  OrdersInv'
  BY <1>8, OrdersUntouched DEF VoidVoucher, ReissueVoucher, Elapse
<1>9. ASSUME NEW next, SetCampaign(next) PROVE OrdersInv'
  BY <1>9, OrdersUntouched DEF SetCampaign
<1>10. CASE Sweep
  BY <1>10, OrdersUntouched DEF Sweep
<1>11. ASSUME NEW g \in Groups, RecordTransfer(g) PROVE OrdersInv'
  BY <1>11, OrdersUntouched DEF RecordTransfer
<1> QED
  BY <1>1, <1>2, <1>3, <1>4, <1>5, <1>6, <1>7, <1>8, <1>9, <1>10, <1>11 DEF Next

-----------------------------------------------------------------------------
(* The theorems.                                                           *)

(* The variables only the administration and the client's choices change,  *)
(* and the settlements.                                                    *)
RestOK ==
    /\ campaign \in {"active", "paused", "ended"}
    /\ elapsed \subseteq Vouchers /\ voided \subseteq Rewards
    /\ choice \in [Carts -> {"auto", "removed"} \cup Vouchers]
    /\ refund \in [Groups -> [status : {"none", "settled", "paid"},
                              fault : Faults \cup {"none"}]]

(* They keep their types.                                                  *)
LEMMA RestStep == ASSUME RestOK, [Next]_vars PROVE RestOK'
<1> USE DEF RestOK
<1>1. CASE UNCHANGED <<campaign, elapsed, voided, choice, refund>>
  BY <1>1
<1>2. ASSUME NEW c \in Carts,
             (\E v \in Vouchers : ChooseVoucher(c, v)) \/ RemoveVoucher(c)
      PROVE  RestOK'
  BY <1>2 DEF ChooseVoucher, RemoveVoucher, wallet
<1>3. ASSUME NEW g \in Groups, NEW fault \in Faults, SettleRefund(g, fault) PROVE RestOK'
  <2>1. PICK status \in {"settled", "paid"} :
          refund' = [refund EXCEPT ![g] = [status |-> status, fault |-> fault]]
    BY <1>3 DEF SettleRefund
  <2> QED
    BY <1>3, <2>1 DEF SettleRefund
<1>4. ASSUME NEW g \in Groups, RecordTransfer(g) PROVE RestOK'
  BY <1>4 DEF RecordTransfer
<1>5. ASSUME NEW v \in Vouchers, VoidVoucher(v) PROVE RestOK'
  BY <1>5 DEF VoidVoucher
<1>6. ASSUME NEW v \in Vouchers, Elapse(v) PROVE RestOK'
  BY <1>6 DEF Elapse
<1>7. ASSUME NEW next \in {"active", "paused", "ended"}, SetCampaign(next) PROVE RestOK'
  BY <1>7 DEF SetCampaign
<1>8. ASSUME NEW c \in Carts, NEW v \in Vouchers \cup {Nothing}, Checkout(c, v) PROVE RestOK'
  BY <1>1, <1>8 DEF Checkout
<1>9. ASSUME NEW c \in Carts,
             SubmitBasket(c) \/ ConfirmBasket(c) \/ RejectBasket(c) \/ Lapse(c)
      PROVE  RestOK'
  BY <1>1, <1>9 DEF SubmitBasket, ConfirmBasket, RejectBasket, Lapse, wallet
<1>10. ASSUME NEW g \in Groups,
              \/ SubmitOrder(g) \/ ConfirmOrder(g) \/ RejectOrder(g)
              \/ \E by \in {"client", "staff"} : CancelOrder(g, by)
       PROVE  RestOK'
  BY <1>1, <1>10 DEF SubmitOrder, ConfirmOrder, RejectOrder, CancelOrder, wallet
<1>11. ASSUME NEW v \in Vouchers, ReissueVoucher(v) PROVE RestOK'
  BY <1>1, <1>11 DEF ReissueVoucher
<1>12. CASE Sweep
  BY <1>1, <1>12 DEF Sweep, wallet
<1> QED
  BY <1>1, <1>2, <1>3, <1>4, <1>5, <1>6, <1>7, <1>8, <1>9, <1>10, <1>11, <1>12
     DEF Next, vars, wallet

IInv == RestOK /\ RowsInv /\ OrdersInv

(* The inductive invariant holds of every reachable state.                 *)
LEMMA Invariant == Spec => []IInv
<1>1. Init => IInv
  <2> SUFFICES ASSUME Init PROVE IInv
    OBVIOUS
  <2> USE DEF Init
  <2>1. RestOK
    BY DEF RestOK, NoRefund, Faults
  <2>2. RowsInv
    BY NoRow DEF RowsInv, RowInv, WalletInv, HeldInv, OnceInv, NoReservation
  <2>3. OrdersInv
    BY DEF OrdersInv, PaymentStatuses, GroupsMoveTogether, StepOf, Groups
  <2> QED
    BY <2>1, <2>2, <2>3 DEF IInv
<1>2. IInv /\ [Next]_vars => IInv'
  BY RestStep, RowsStep, OrdersStep DEF IInv, OrdersInv
<1> QED
  BY <1>1, <1>2, PTL DEF Spec

(* The stored records keep their shape.                                    *)
THEOREM TypeCorrect == Spec => []TypeOK
<1>1. IInv => TypeOK
  <2> SUFFICES ASSUME IInv PROVE TypeOK
    OBVIOUS
  <2>1. reservation \in [Carts -> Row]
    BY DEF IInv, RowsInv, RowInv, GoodRow
  <2> QED
    BY <2>1 DEF IInv, RestOK, RowsInv, OrdersInv, TypeOK, Row
<1> QED
  BY <1>1, Invariant, PTL

(* The groups of a basket are paid as one, and a cancelled one is never    *)
(* restarted, whichever groups were cancelled or refunded in between.      *)
THEOREM BasketsMoveTogether == Spec => []GroupsMoveTogether
<1>1. IInv => GroupsMoveTogether
  BY DEF IInv, OrdersInv
<1> QED
  BY <1>1, Invariant, PTL

(* Two of the carts that are promised or spend a voucher are the same, and *)
(* none is promised what another one spends.                               *)
THEOREM VouchersOnce == Spec => []VouchersFundOnce
<1>1. ASSUME IInv PROVE VouchersFundOnce
  <2> SUFFICES ASSUME NEW v \in Vouchers
               PROVE  LET promised == {c \in Carts : Reserved(reservation, c, v)}
                          spent == {c \in Carts : /\ reservation[c].voucher = v
                                                  /\ redemption[c] = "consumed"}
                      IN Cardinality(promised) + Cardinality(spent) <= 1
    BY DEF VouchersFundOnce
  <2> DEFINE promised == {c \in Carts : Reserved(reservation, c, v)}
             spent == {c \in Carts : /\ reservation[c].voucher = v
                                     /\ redemption[c] = "consumed"}
  <2>1. promised = {} \/ \E c \in Carts : promised = {c}
    BY <1>1 DEF IInv, RowsInv, WalletInv, OnceInv, Reserved
  <2>2. spent = {} \/ \E c \in Carts : spent = {c}
    BY <1>1 DEF IInv, RowsInv, WalletInv, OnceInv
  <2>3. promised = {} \/ spent = {}
    BY <1>1 DEF IInv, RowsInv, WalletInv, HeldInv, Reserved
  <2> HIDE DEF promised, spent
  <2>4. Cardinality({}) = 0 /\ \A c : Cardinality({c}) = 1
    BY FS_EmptySet, FS_Singleton
  <2>5. Cardinality(promised) + Cardinality(spent) <= 1
    <3>1. promised = {} => Cardinality(promised) = 0
      BY <2>4
    <3>2. spent = {} => Cardinality(spent) = 0
      BY <2>4
    <3>3. Cardinality(promised) \in {0, 1} /\ Cardinality(spent) \in {0, 1}
      BY <2>1, <2>2, <2>4
    <3> QED
      BY <2>3, <3>1, <3>2, <3>3
  <2> QED
    BY <2>5 DEF promised, spent
<1> QED
  BY <1>1, Invariant, PTL

-----------------------------------------------------------------------------
(* What becomes of the row of one cart.                                    *)

(* It stays, gets late, is released or spent, or its cart is a draft that  *)
(* had bound nothing.                                                      *)
RowChange(c) ==
    \/ reservation'[c] = reservation[c]
    \/ reservation[c].status = "reserved" /\ reservation'[c] = Late(reservation[c])
    \/ /\ reservation[c].status = "reserved"
       /\ reservation'[c] = Ended(reservation[c], "released")
       /\ \/ ~reservation[c].bound \/ reservation[c].lapsed
          \/ \E g \in GroupsOf[c] : state'[g] = "cancelled"
    \/ /\ reservation[c].status = "reserved" /\ reservation[c].bound
       /\ reservation'[c] = Ended(reservation[c], "consumed")
       /\ redemption'[c] = "consumed"
    \/ cart[c] = "draft" /\ ~reservation[c].bound

(* Releasing the rows of some carts, where that is allowed.                *)
LEMMA ReleaseChanges ==
    ASSUME RowsInv, NEW carts, reservation' = Release(reservation, carts),
           \A c \in Carts \cap carts : reservation[c].status = "reserved" =>
              \/ ~reservation[c].bound \/ reservation[c].lapsed
              \/ \E g \in GroupsOf[c] : state'[g] = "cancelled"
    PROVE  \A c \in Carts : RowChange(c)
<1>1. reservation \in [Carts -> GoodRow]
  BY DEF RowsInv, RowInv
<1>2. \A c \in Carts : /\ LetGo(reservation[c], reservation'[c])
                       /\ c \notin carts => reservation'[c] = reservation[c]
  BY <1>1, ReleasedRows
<1> QED
  BY <1>2 DEF RowChange, LetGo

(* A confirmed payment spends the voucher of its checkout.                 *)
LEMMA RedeemChanges ==
    ASSUME RowsInv, NEW c \in Carts, NEW paid, RedeemVoucher(c, paid)
    PROVE  \A d \in Carts : RowChange(d)
BY DEF RedeemVoucher, PromiseStands, RowChange, RowsInv, RowInv

(* A draft's row and the lapsed ones change.                               *)
LEMMA DraftChanges ==
    ASSUME RowsInv, NEW c \in Carts, cart[c] = "draft",
           \A d \in Carts \ {c} :
              /\ LetGo(reservation[d], reservation'[d])
              /\ reservation'[d] = reservation[d] \/ reservation[d].lapsed
    PROVE  \A d \in Carts : RowChange(d)
BY DEF RowChange, LetGo, RowsInv

(* Every step changes every row in one of these ways.                      *)
LEMMA RowChanges ==
    ASSUME RowsInv, OrdersInv, [Next]_vars PROVE \A c \in Carts : RowChange(c)
<1>1. CASE reservation' = reservation
  BY <1>1 DEF RowChange
<1>2. ASSUME NEW c \in Carts, NEW v \in Vouchers, ChooseVoucher(c, v)
      PROVE  \A d \in Carts : RowChange(d)
  <2> DEFINE released == Release(reservation, {c})
  <2>1. /\ released \in [Carts -> GoodRow]
        /\ \A d \in Carts \ {c} : released[d] = reservation[d]
    BY ReleasedRows DEF RowsInv, RowInv
  <2>2. NobodyElse(released, c, v)
    BY <1>2 DEF ChooseVoucher, Available, NobodyElse
  <2>3. reservation' = ReservedFor(released, c, v, FALSE) /\ cart[c] = "draft"
    BY <1>2 DEF ChooseVoucher
  <2> HIDE DEF released
  <2>4. PromisedTo(c, v, released, reservation')
    BY <2>1, <2>2, <2>3, ReservedRows
  <2> QED
    BY <2>1, <2>3, <2>4, DraftChanges DEF PromisedTo
<1>3. ASSUME NEW c \in Carts, RemoveVoucher(c) PROVE \A d \in Carts : RowChange(d)
  <2>1. reservation' = Release(reservation, {c}) /\ ~reservation[c].bound
    BY <1>3 DEF RemoveVoucher, RowsInv
  <2> QED
    BY <2>1, ReleaseChanges
<1>4. ASSUME NEW c \in Carts, NEW v \in Vouchers \cup {Nothing}, Checkout(c, v)
      PROVE  \A d \in Carts : RowChange(d)
  <2>1. cart[c] = "draft" /\ ~reservation[c].bound
    BY <1>4, CheckoutRows
  <2>2. CASE v = Nothing
    <3>1. reservation' = Release(reservation, {c})
      BY <1>4, <2>2, CheckoutRows
    <3> QED
      BY <2>1, <3>1, ReleaseChanges
  <2>3. CASE v # Nothing
    <3>1. Moved(c, v)
      BY <1>4, <2>3, CheckoutRows
    <3>2. \A d \in Carts \ {c} : reservation'[d] = reservation[d] \/ reservation[d].lapsed
      BY <1>4, <2>3, CheckoutRows
    <3> QED
      BY <2>1, <3>1, <3>2, DraftChanges DEF Moved
  <2> QED
    BY <2>2, <2>3
<1>5. ASSUME NEW c \in Carts, ConfirmBasket(c) PROVE \A d \in Carts : RowChange(d)
  BY <1>5, RedeemChanges DEF ConfirmBasket
<1>6. ASSUME NEW g \in Groups, ConfirmOrder(g) PROVE \A d \in Carts : RowChange(d)
  BY <1>6, RedeemChanges, CartOfGroup DEF ConfirmOrder
<1>7. ASSUME NEW g \in Groups, NEW by, CancelOrder(g, by), reservation' # reservation
      PROVE  \A d \in Carts : RowChange(d)
  <2>1. reservation' = Release(reservation, {CartOf(g)})
    BY <1>7 DEF CancelOrder
  <2>2. CartOf(g) \in Carts /\ g \in GroupsOf[CartOf(g)] /\ state'[g] = "cancelled"
    BY <1>7, CartOfGroup DEF CancelOrder, OrdersInv
  <2> QED
    BY <2>1, <2>2, ReleaseChanges
<1>8. ASSUME NEW v \in Vouchers, VoidVoucher(v), reservation' # reservation
      PROVE  \A d \in Carts : RowChange(d)
  <2> DEFINE carts == {c \in Carts : reservation[c].voucher = v}
  <2>1. reservation' = Release(reservation, carts) /\ Voidable(v)
    BY <1>8 DEF VoidVoucher
  <2>2. \A c \in Carts \cap carts : reservation[c].status = "reserved" => ~reservation[c].bound
    BY <2>1 DEF Voidable, Reserved
  <2> HIDE DEF carts
  <2> QED
    BY <2>1, <2>2, ReleaseChanges
<1>9. ASSUME (\E c \in Carts : Lapse(c)) \/ (\E v \in Vouchers : Elapse(v))
      PROVE  \A d \in Carts : RowChange(d)
  <2>1. reservation \in [Carts -> GoodRow]
    BY DEF RowsInv, RowInv
  <2>2. \A d \in Carts : \/ reservation'[d] = reservation[d]
                         \/ reservation[d].status = "reserved" /\ reservation'[d] = Late(reservation[d])
    <3>1. CASE \E c \in Carts : Lapse(c)
      BY <2>1, <3>1 DEF Lapse, Late
    <3>2. CASE \E v \in Vouchers : Elapse(v)
      BY <2>1, <3>2 DEF Elapse, Late, Reserved
    <3> QED
      BY <1>9, <3>1, <3>2
  <2> QED
    BY <2>2 DEF RowChange
<1>10. ASSUME Sweep PROVE \A d \in Carts : RowChange(d)
  BY <1>10, ReleaseChanges DEF Sweep, Due
<1> QED
  <2>1. CASE UNCHANGED vars
    BY <1>1, <2>1 DEF vars
  <2>2. ASSUME NEW c \in Carts, SubmitBasket(c) \/ RejectBasket(c) PROVE reservation' = reservation
    BY <2>2 DEF SubmitBasket, RejectBasket
  <2>3. ASSUME NEW g \in Groups,
               SubmitOrder(g) \/ RejectOrder(g) \/ (\E fault \in Faults : SettleRefund(g, fault))
                 \/ RecordTransfer(g)
        PROVE  reservation' = reservation
    BY <2>3 DEF SubmitOrder, RejectOrder, SettleRefund, RecordTransfer
  <2>4. ASSUME NEW v \in Vouchers, ReissueVoucher(v) PROVE reservation' = reservation
    BY <2>4 DEF ReissueVoucher
  <2>5. ASSUME NEW next, SetCampaign(next) PROVE reservation' = reservation
    BY <2>5 DEF SetCampaign
  <2> QED
    BY <1>1, <1>2, <1>3, <1>4, <1>5, <1>6, <1>7, <1>8, <1>9, <1>10, <2>1, <2>2, <2>3, <2>4,
       <2>5 DEF Next

(* No other cart, administration or campaign takes a submitted checkout's  *)
(* voucher from it: only its time, or a cancelled order.                   *)
THEOREM PromisesHold == Spec => SubmittedPromisesHold
<1>1. ASSUME IInv, [Next]_vars
      PROVE  [\A c \in Carts :
                reservation[c].bound /\ reservation[c].status = "reserved" =>
                  \/ reservation'[c].status \in {"reserved", "consumed"}
                  \/ reservation[c].lapsed
                  \/ \E g \in GroupsOf[c] : state'[g] = "cancelled"]_vars
  <2>1. \A c \in Carts : RowChange(c) /\ reservation[c] \in GoodRow
    BY <1>1, RowChanges DEF IInv, RowsInv, RowInv
  <2> QED
    BY <2>1, EndedRow, LateRow DEF RowChange
<1> QED
  BY <1>1, Invariant, PTL DEF Spec, SubmittedPromisesHold

-----------------------------------------------------------------------------
(* The voucher of a paid checkout is spent on it, until all of it is       *)
(* remedied.                                                               *)

Settled(g) == refund[g] = [status |-> "paid", fault |-> "other"]

FundInv ==
    \A c \in Carts :
       /\ reservation[c].bound /\ (\E g \in GroupsOf[c] : payment[g] = "confirmed")
             => redemption[c] # "none"
       /\ redemption[c] = "restored" => \A g \in GroupsOf[c] : Settled(g)

(* A final remedy stays, a redemption is only undone by all of them.       *)
RemedyStep ==
    /\ \A g \in Groups : Settled(g) => Settled(g)'
    /\ \A c \in Carts :
         /\ redemption[c] # "none" => redemption'[c] # "none"
         /\ redemption'[c] = "restored" =>
              redemption[c] = "restored" \/ \A g \in GroupsOf[c] : Settled(g)'

(* A voucher is restored with the last remedy of its checkout.             *)
LEMMA RestoreStep ==
    ASSUME RowsInv, NEW g \in Groups, NEW fault, RestoreVoucher(g, fault),
           fault = "other" => Settled(g)', \A h \in Groups : Settled(h) => Settled(h)'
    PROVE  RemedyStep
<1> DEFINE c == CartOf(g)
<1>1. CASE UNCHANGED redemption
  BY <1>1 DEF RemedyStep
<1>2. CASE /\ Remedied(c, g, fault) /\ redemption' = [redemption EXCEPT ![c] = "restored"]
  <2>1. c \in Carts /\ g \in GroupsOf[c] /\ \A h \in GroupsOf[c] : h \in Groups
    BY CartOfGroup
  <2>2. \A h \in GroupsOf[c] : Settled(h)'
    BY <1>2, <2>1 DEF Remedied, Settled
  <2> HIDE DEF c
  <2>3. redemption'[c] = "restored" /\ \A d \in Carts \ {c} : redemption'[d] = redemption[d]
    BY <1>2, <2>1 DEF RowsInv
  <2> QED
    BY <2>2, <2>3 DEF RemedyStep
<1> QED
  BY <1>1, <1>2 DEF RestoreVoucher

(* Redeeming restores nothing.                                             *)
LEMMA RedeemStep ==
    ASSUME RowsInv, NEW c \in Carts, NEW paid, RedeemVoucher(c, paid), UNCHANGED refund
    PROVE  RemedyStep
<1>1. UNCHANGED redemption \/ redemption' = [redemption EXCEPT ![c] = "consumed"]
  BY DEF RedeemVoucher
<1> QED
  BY <1>1 DEF RemedyStep, RowsInv, Settled

(* Every step treats remedies and redemptions so.                          *)
LEMMA RemedySteps == ASSUME RowsInv, RestOK, [Next]_vars PROVE RemedyStep
<1>1. CASE UNCHANGED <<redemption, refund>>
  BY <1>1 DEF RemedyStep, Settled
<1>2. ASSUME NEW c \in Carts, NEW v \in Vouchers \cup {Nothing}, Checkout(c, v)
      PROVE  RemedyStep
  <2>1. UNCHANGED redemption \/ redemption' = [redemption EXCEPT ![c] = "consumed"]
    BY <1>2 DEF Checkout
  <2> QED
    BY <1>2, <2>1 DEF Checkout, RemedyStep, RowsInv, Settled
<1>3. ASSUME NEW c \in Carts, ConfirmBasket(c) PROVE RemedyStep
  BY <1>3, RedeemStep DEF ConfirmBasket
<1>4. ASSUME NEW g \in Groups, ConfirmOrder(g) PROVE RemedyStep
  BY <1>4, RedeemStep, CartOfGroup DEF ConfirmOrder
<1>5. ASSUME NEW g \in Groups, NEW fault \in Faults, SettleRefund(g, fault) PROVE RemedyStep
  <2> DEFINE noCash == /\ redemption[CartOf(g)] = "consumed"
                       /\ reservation[CartOf(g)].voucher \in Covering
  <2>1. /\ refund[g] = NoRefund
        /\ refund' = [refund EXCEPT ![g] = [status |-> IF noCash THEN "paid" ELSE "settled",
                                            fault |-> fault]]
        /\ IF noCash THEN RestoreVoucher(g, fault) ELSE UNCHANGED <<voucher, redemption>>
    BY <1>5 DEF SettleRefund
  <2> HIDE DEF noCash
  <2>2. \A h \in Groups : Settled(h) => Settled(h)'
    BY <2>1 DEF Settled, NoRefund, RestOK
  <2>3. CASE noCash
    <3>1. fault = "other" => Settled(g)'
      BY <2>1, <2>3 DEF Settled, RestOK
    <3> QED
      BY <2>1, <2>2, <2>3, <3>1, RestoreStep
  <2>4. CASE ~noCash
    BY <2>1, <2>2, <2>4 DEF RemedyStep
  <2> QED
    BY <2>3, <2>4
<1>6. ASSUME NEW g \in Groups, RecordTransfer(g) PROVE RemedyStep
  <2>1. /\ refund[g].status = "settled" /\ refund' = [refund EXCEPT ![g].status = "paid"]
        /\ RestoreVoucher(g, refund[g].fault)
    BY <1>6 DEF RecordTransfer
  <2>2. \A h \in Groups : Settled(h) => Settled(h)'
    BY <2>1 DEF Settled, RestOK
  <2>3. refund[g].fault = "other" => Settled(g)'
    <3>1. refund[g] = [status |-> refund[g].status, fault |-> refund[g].fault]
      BY DEF RestOK
    <3>2. refund'[g] = [status |-> "paid", fault |-> refund[g].fault]
      BY <2>1, <3>1 DEF RestOK
    <3> QED
      BY <3>2 DEF Settled
  <2> QED
    BY <2>1, <2>2, <2>3, RestoreStep
<1> QED
  <2>1. ASSUME NEW c \in Carts,
               \/ (\E v \in Vouchers : ChooseVoucher(c, v)) \/ RemoveVoucher(c)
               \/ SubmitBasket(c) \/ RejectBasket(c) \/ Lapse(c)
        PROVE  UNCHANGED <<redemption, refund>>
    BY <2>1 DEF ChooseVoucher, RemoveVoucher, SubmitBasket, RejectBasket, Lapse
  <2>2. ASSUME NEW g \in Groups,
               SubmitOrder(g) \/ RejectOrder(g) \/ \E by \in {"client", "staff"} : CancelOrder(g, by)
        PROVE  UNCHANGED <<redemption, refund>>
    BY <2>2 DEF SubmitOrder, RejectOrder, CancelOrder
  <2>3. ASSUME NEW v \in Vouchers, VoidVoucher(v) \/ ReissueVoucher(v) \/ Elapse(v)
        PROVE  UNCHANGED <<redemption, refund>>
    BY <2>3 DEF VoidVoucher, ReissueVoucher, Elapse
  <2>4. ASSUME NEW next, SetCampaign(next) PROVE UNCHANGED <<redemption, refund>>
    BY <2>4 DEF SetCampaign
  <2>5. ASSUME Sweep \/ UNCHANGED vars PROVE UNCHANGED <<redemption, refund>>
    BY <2>5 DEF Sweep, vars
  <2> QED
    BY <1>1, <1>2, <1>3, <1>4, <1>5, <1>6, <2>1, <2>2, <2>3, <2>4, <2>5 DEF Next

(* A payment that gets confirmed is a new checkout that has spent its      *)
(* voucher, or one that redeems what is bound to it.                       *)
LEMMA PaymentSteps ==
    ASSUME OrdersInv, RowsInv, [Next]_vars, NEW c \in Carts, NEW g \in GroupsOf[c],
           payment'[g] = "confirmed", reservation'[c].bound
    PROVE  \/ payment[g] = "confirmed" /\ reservation[c].bound
           \/ redemption'[c] = "consumed"
<1>1. g \in Groups /\ CartOf(g) = c
  BY CartOfGroup
<1>2. ASSUME NEW d \in Carts, NEW v \in Vouchers \cup {Nothing}, Checkout(d, v), d = c
      PROVE  redemption'[c] = "consumed"
  <2>1. v \in Covering
    BY <1>1, <1>2 DEF Checkout
  <2>2. redemption' = [redemption EXCEPT ![d] = "consumed"]
    BY <1>2, <2>1 DEF Checkout
  <2> QED
    BY <1>2, <2>2 DEF RowsInv
<1>3. ASSUME NEW paid, RedeemVoucher(c, paid)
      PROVE  redemption'[c] = "consumed" \/ ~reservation'[c].bound
  BY <1>3 DEF RedeemVoucher, RowsInv
<1>4. ASSUME NEW d \in Carts, ConfirmBasket(d), payment'[g] # payment[g]
      PROVE  redemption'[c] = "consumed"
  <2>1. d = c
    BY <1>1, <1>4, CartOfGroup DEF ConfirmBasket, MovePayment
  <2> QED
    BY <1>3, <1>4, <2>1 DEF ConfirmBasket
<1>5. ASSUME NEW h \in Groups, ConfirmOrder(h), payment'[g] # payment[g]
      PROVE  redemption'[c] = "consumed"
  <2>1. h = g
    BY <1>1, <1>5 DEF ConfirmOrder, MovePayment
  <2> QED
    BY <1>1, <1>3, <1>5, <2>1 DEF ConfirmOrder
<1>6. CASE payment[g] = "confirmed"
  <2>1. cart[c] # "draft"
    BY <1>6 DEF OrdersInv
  <2>2. RowChange(c) /\ reservation[c] \in GoodRow
    BY RowChanges DEF RowsInv, RowInv
  <2> QED
    BY <1>6, <2>1, <2>2, EndedRow, LateRow DEF RowChange
<1>7. CASE payment[g] # "confirmed"
  <2>1. ASSUME NEW d \in Carts, NEW v \in Vouchers \cup {Nothing}, Checkout(d, v)
        PROVE  d = c
    BY <1>1, <1>7, <2>1, CartOfGroup DEF Checkout
  <2>2. ASSUME NEW d \in Carts,
               (\E v \in Vouchers : ChooseVoucher(d, v)) \/ RemoveVoucher(d) \/ Lapse(d)
        PROVE  FALSE
    BY <1>7, <2>2 DEF ChooseVoucher, RemoveVoucher, Lapse, orders
  <2>8. ASSUME NEW d \in Carts, SubmitBasket(d) \/ RejectBasket(d) PROVE FALSE
    BY <1>1, <1>7, <2>8 DEF SubmitBasket, RejectBasket, MovePayment
  <2>3. ASSUME NEW h \in Groups,
               \/ (\E by \in {"client", "staff"} : CancelOrder(h, by))
               \/ (\E fault \in Faults : SettleRefund(h, fault)) \/ RecordTransfer(h)
        PROVE  FALSE
    BY <1>7, <2>3 DEF CancelOrder, SettleRefund, RecordTransfer, orders
  <2>7. ASSUME NEW h \in Groups, SubmitOrder(h) \/ RejectOrder(h) PROVE FALSE
    BY <1>1, <1>7, <2>7 DEF SubmitOrder, RejectOrder, MovePayment
  <2>4. ASSUME NEW v \in Vouchers, VoidVoucher(v) \/ ReissueVoucher(v) \/ Elapse(v)
        PROVE  FALSE
    BY <1>7, <2>4 DEF VoidVoucher, ReissueVoucher, Elapse, orders
  <2>5. ASSUME NEW next, SetCampaign(next) PROVE FALSE
    BY <1>7, <2>5 DEF SetCampaign, orders
  <2>6. ASSUME Sweep \/ UNCHANGED vars PROVE FALSE
    BY <1>7, <2>6 DEF Sweep, vars, orders
  <2> QED
    BY <1>2, <1>4, <1>5, <1>7, <2>1, <2>2, <2>3, <2>4, <2>5, <2>6, <2>7, <2>8 DEF Next
<1> QED
  BY <1>6, <1>7

(* No order is accepted at a discount nobody funds, and a voucher comes    *)
(* back only when the whole checkout was refunded without the client's     *)
(* fault.                                                                  *)
THEOREM Funded == Spec => []DiscountsAreFunded
<1>1. Init => FundInv
  BY DEF Init, FundInv, NoReservation
<1>2. ASSUME IInv, FundInv, [Next]_vars PROVE FundInv'
  <2>1. RemedyStep
    BY <1>2, RemedySteps DEF IInv
  <2>2. ASSUME NEW c \in Carts, reservation'[c].bound,
               NEW g \in GroupsOf[c], payment'[g] = "confirmed"
        PROVE  redemption'[c] # "none"
    <3>1. \/ payment[g] = "confirmed" /\ reservation[c].bound
          \/ redemption'[c] = "consumed"
      BY <1>2, <2>2, PaymentSteps DEF IInv
    <3> QED
      BY <1>2, <2>1, <3>1 DEF FundInv, RemedyStep
  <2>3. ASSUME NEW c \in Carts, redemption'[c] = "restored", NEW g \in GroupsOf[c]
        PROVE  Settled(g)'
    BY <1>2, <2>1, <2>3, CartOfGroup DEF FundInv, RemedyStep
  <2> QED
    BY <2>2, <2>3 DEF FundInv
<1>3. IInv /\ FundInv => DiscountsAreFunded
  BY DEF IInv, RowsInv, WalletInv, HeldInv, FundInv, Settled, DiscountsAreFunded
<1> QED
  BY <1>1, <1>2, <1>3, Invariant, PTL DEF Spec

=============================================================================
