--------------------------- MODULE OffersProofs ----------------------------
(***************************************************************************)
(* Theorems about Offers.tla, for any shops, prices, carts, days and       *)
(* settings: what a client orders is what it was promised.                 *)
(***************************************************************************)
EXTENDS Offers, TLAPS

USE OffersAssumption

-----------------------------------------------------------------------------
(* Types of what TypeOK leaves open: lines, orders, listings and samples.  *)

Items == (1..MaxPublications) \X Shops

QuoteLine == [of : {"quote"}, item : Items]
SampleLine == [of : {"sample"}, replaces : Nat]
BatchLine == [of : {"batch"}, draft : Nat \ {0}, pricing : {"held", "current"}]

QuoteOrder == [of : {"quote"}, item : Items, price : Nat, at : Nat]
BatchOrder == [of : {"batch"}, draft : Nat \ {0}, held : BOOLEAN,
               price : Nat, at : Nat]

Listing == [item : Items, price : Nat]
Draft == [status : {"awaiting_sample", "approved", "rejected", "cancelled",
                    "ordered"},
          decision : {"none", "approved", "rejected"},
          previous : Nat, rate : Prices, holdDays : HoldDays,
          heldUntil : Nat]
Sample == [at : Nat, moved : BOOLEAN]

Typed ==
    /\ TypeOK
    /\ cart \in [CartIds -> {Empty} \cup QuoteLine \cup SampleLine
                                    \cup BatchLine]
    /\ orders \in Seq(QuoteOrder \cup BatchOrder)
    /\ listings \in SUBSET Listing
    /\ drafts \in Seq(Draft) /\ samples \in Seq(Sample)

(* Lines and successors name samples that were ordered.                    *)
NamesExist ==
    /\ \A c \in CartIds :
         /\ cart[c].of = "sample" => cart[c].replaces \in {0} \cup Drafts
         /\ cart[c].of = "batch" => cart[c].draft \in Drafts
    /\ \A d \in Drafts : drafts[d].previous \in {0} \cup Drafts

(* A listing stands for one option of one publication, at one price.       *)
ListingsInv ==
    /\ \A l \in listings : l.item[1] <= publications
    /\ \A l, m \in listings : l.item = m.item => l = m

(* The accepted option is one of the last publication.                     *)
AcceptedIsListed ==
    request.status \in {"accepted", "ordered"} \/ request.expiredFrom = "accepted"
        => \E l \in Options : l.item = Item(request.accepted)

(* What was decided about a sample x by its draft r, and when.             *)
Decided(r, x) ==
    /\ r.status = "awaiting_sample" => r.decision = "none" /\ r.heldUntil = Never
    /\ r.status \in {"approved", "rejected"} => r.decision = r.status
    /\ r.decision # "none" => x.at # Never
    /\ r.heldUntil # Never => /\ x.at # Never
                              /\ r.heldUntil = x.at + r.holdDays

DecisionsInv == \A d \in Drafts : Decided(drafts[d], samples[d])

(* A sample whose batch was ordered is used up.                            *)
BatchesInv ==
    \A i \in BatchOrders :
        /\ orders[i].draft \in Drafts
        /\ drafts[orders[i].draft].status = "ordered"

-----------------------------------------------------------------------------
(* Sequences that grow.                                                    *)

(* Appending keeps what is there and adds one element at the end.          *)
LEMMA Appended ==
    ASSUME NEW S, NEW s \in Seq(S), NEW e \in S
    PROVE  /\ Append(s, e) \in Seq(S)
           /\ Len(s) \in Nat
           /\ Len(Append(s, e)) = Len(s) + 1
           /\ DOMAIN s = 1..Len(s)
           /\ DOMAIN Append(s, e) = 1..(Len(s) + 1)
           /\ \A i \in 1..Len(s) : Append(s, e)[i] = s[i]
           /\ Append(s, e)[Len(s) + 1] = e
OBVIOUS

(* Replacing an element keeps the length and the other elements.           *)
LEMMA Replaced ==
    ASSUME NEW S, NEW s \in Seq(S), NEW t, NEW i \in 1..Len(s), NEW e \in S,
           t = [s EXCEPT ![i] = e]
    PROVE  /\ t \in Seq(S)
           /\ Len(t) = Len(s) /\ DOMAIN t = DOMAIN s
           /\ \A j \in DOMAIN s : t[j] = IF j = i THEN e ELSE s[j]
OBVIOUS

(* Drafts and their samples have the same names, from 1.                   *)
LEMMA Names ==
    ASSUME Typed
    PROVE  /\ Drafts = 1..Len(drafts) /\ DOMAIN samples = Drafts
           /\ Len(drafts) \in Nat
           /\ \A d \in Drafts : drafts[d] \in Draft /\ samples[d] \in Sample
           /\ DOMAIN orders = 1..Len(orders) /\ Len(orders) \in Nat
           /\ \A i \in DOMAIN orders : orders[i] \in QuoteOrder \cup BatchOrder
           /\ \A i \in BatchOrders : orders[i] \in BatchOrder
           /\ \A i \in QuoteOrders : orders[i] \in QuoteOrder
<1>1. /\ drafts \in Seq(Draft) /\ samples \in Seq(Sample)
      /\ orders \in Seq(QuoteOrder \cup BatchOrder)
      /\ Len(samples) = Len(drafts)
  BY DEF Typed, TypeOK
<1>2. /\ Drafts = 1..Len(drafts) /\ DOMAIN samples = Drafts
      /\ Len(drafts) \in Nat
      /\ \A d \in Drafts : drafts[d] \in Draft /\ samples[d] \in Sample
  BY <1>1 DEF Drafts
<1>3. /\ DOMAIN orders = 1..Len(orders) /\ Len(orders) \in Nat
      /\ \A i \in DOMAIN orders : orders[i] \in QuoteOrder \cup BatchOrder
  BY <1>1
<1>4. /\ \A i \in BatchOrders : orders[i] \in BatchOrder
      /\ \A i \in QuoteOrders : orders[i] \in QuoteOrder
  BY <1>3 DEF BatchOrders, QuoteOrders, BatchOrder, QuoteOrder
<1> QED
  BY <1>2, <1>3, <1>4

-----------------------------------------------------------------------------
(* Type correctness.                                                       *)

(* The first state has the types.                                          *)
LEMMA TypedInit == Init => Typed
<1> SUFFICES ASSUME Init PROVE Typed
  OBVIOUS
<1>1. rate \in Prices /\ holdDays \in HoldDays
  BY DEF Init
<1>2. TypeOK
  BY <1>1 DEF Init, TypeOK, Statuses, NoReply, Never
<1>3. /\ cart \in [CartIds -> {Empty} \cup QuoteLine \cup SampleLine
                                      \cup BatchLine]
      /\ listings \in SUBSET Listing
  BY DEF Init
<1>4. /\ orders \in Seq(QuoteOrder \cup BatchOrder)
      /\ drafts \in Seq(Draft) /\ samples \in Seq(Sample)
  BY DEF Init
<1> QED
  BY <1>2, <1>3, <1>4 DEF Typed

(* What is listed has its item among the items.                            *)
LEMMA ItemListed ==
    ASSUME NEW L, NEW l \in L
    PROVE  l.item \in {m.item : m \in L}
OBVIOUS

(* The steps of a quote keep the types.                                    *)
LEMMA TypedQuoteStep ==
    ASSUME Typed, AcceptedIsListed, QuoteStep
    PROVE  Typed'
<1> USE DEF Typed, TypeOK
<1>1. CASE CreateRequest
  BY <1>1 DEF CreateRequest, sampling, shelf, Statuses
<1>2. CASE Expire
  <2>1. request' \in [status : Statuses, validUntil : 0..(MaxTime + Validity),
                      expiredFrom : {"none"} \cup Listed,
                      accepted : Shops \cup {NoShop},
                      cart : CartIds \cup {NoCart}]
    BY <1>2 DEF Expire, Lapsed, Statuses
  <2> QED
    BY <1>2, <2>1 DEF Expire, sampling, shelf
<1>3. CASE CancelRequest
  BY <1>3 DEF CancelRequest, sampling, shelf, Statuses
<1>4. ASSUME NEW s \in Shops, NEW price \in Prices, AddReply(s, price)
      PROVE  Typed'
  BY <1>4 DEF AddReply, sampling, shelf, Statuses
<1>5. ASSUME NEW s \in Shops, NEW t \in {"active", "withdrawn"},
             NEW price \in Prices, EditReply(s, t, price)
      PROVE  Typed'
  BY <1>5 DEF EditReply, sampling, shelf
<1>6. ASSUME NEW chosen \in SUBSET ActiveReplies, Publish(chosen)
      PROVE  Typed'
  <2>1. publications' \in 1..MaxPublications
    BY <1>6 DEF Publish
  <2>2. \A s \in chosen : s \in Shops /\ replies[s].price \in Nat
    <3>1. ASSUME NEW s \in Shops PROVE replies[s].price \in Nat
      <4>1. replies[s] \in [status : {"none", "active", "withdrawn"},
                           price : Prices \cup {0}]
        OBVIOUS
      <4>2. replies[s].price \in Prices \cup {0}
        BY <4>1
      <4>3. Prices \cup {0} \subseteq Nat
        OBVIOUS
      <4> QED
        BY <4>2, <4>3
    <3> QED
      BY <3>1 DEF ActiveReplies
  <2>3. \A s \in chosen :
          [item |-> <<publications', s>>, price |-> replies[s].price] \in Listing
    BY <2>1, <2>2 DEF Listing, Items
  <2>4. listings' \subseteq Listing
    BY <1>6, <2>3 DEF Publish
  <2>5. active' \subseteq {l.item : l \in listings'}
    <3> SUFFICES ASSUME NEW a \in active'
                 PROVE  a \in {l.item : l \in listings'}
      OBVIOUS
    <3>0. PICK s \in chosen : a = <<publications', s>>
      BY <1>6 DEF Publish
    <3>1. [item |-> <<publications', s>>, price |-> replies[s].price] \in listings'
      BY <1>6 DEF Publish
    <3>2. [item |-> <<publications', s>>, price |-> replies[s].price].item
            \in {l.item : l \in listings'}
      BY <3>1, ItemListed
    <3> QED
      BY <3>0, <3>2
  <2>6. request' \in [status : Statuses, validUntil : 0..(MaxTime + Validity),
                      expiredFrom : {"none"} \cup Listed,
                      accepted : Shops \cup {NoShop},
                      cart : CartIds \cup {NoCart}]
    BY <1>6 DEF Publish, Statuses
  <2> QED
    BY <1>6, <2>1, <2>4, <2>5, <2>6 DEF Publish, sampling, shelf
<1>7. ASSUME NEW s \in Shops, NEW c \in CartIds, AcceptOption(s, c)
      PROVE  Typed'
  <2>1. PICK l \in Options : l.item = Item(s)
    BY <1>7 DEF AcceptOption
  <2>2. Item(s) \in Items /\ Item(s) \in {m.item : m \in listings}
    BY <2>1 DEF Options, Listing
  <2>3. [of |-> "quote", item |-> Item(s)] \in QuoteLine
    BY <2>2 DEF QuoteLine
  <2>4. cart' \in [CartIds -> {Empty} \cup QuoteLine \cup SampleLine
                                      \cup BatchLine]
    BY <1>7, <2>3 DEF AcceptOption
  <2>5. request' \in [status : Statuses, validUntil : 0..(MaxTime + Validity),
                      expiredFrom : {"none"} \cup Listed,
                      accepted : Shops \cup {NoShop},
                      cart : CartIds \cup {NoCart}]
    BY <1>7 DEF AcceptOption, Statuses
  <2> QED
    BY <1>7, <2>2, <2>4, <2>5 DEF AcceptOption, sampling, shelf
<1>8. ASSUME NEW until \in 1..(MaxTime + 1), SetValidity(until)
      PROVE  Typed'
  <2>1. active' \subseteq {l.item : l \in listings}
    <3>1. {l.item : l \in Options} \subseteq {l.item : l \in listings}
      BY DEF Options
    <3>2. request.status = "expired" /\ request.expiredFrom = "accepted" =>
            Item(request.accepted) \in {l.item : l \in listings}
      BY <3>1, ItemListed DEF AcceptedIsListed
    <3>3. /\ request.status # "expired" => active' = active
          /\ request.status = "expired" /\ request.expiredFrom = "accepted" =>
                active' = {Item(request.accepted)}
          /\ request.status = "expired" /\ request.expiredFrom # "accepted" =>
                active' = {l.item : l \in Options}
      BY <1>8 DEF SetValidity, BroughtBack
    <3> QED
      BY <3>1, <3>2, <3>3
  <2>2. request' \in [status : Statuses, validUntil : 0..(MaxTime + Validity),
                      expiredFrom : {"none"} \cup Listed,
                      accepted : Shops \cup {NoShop},
                      cart : CartIds \cup {NoCart}]
    <3>1. until \in 0..(MaxTime + Validity)
      OBVIOUS
    <3>2. \E status \in Statuses :
            request' = [request EXCEPT !.status = status, !.validUntil = until]
      BY <1>8 DEF SetValidity, Statuses
    <3> QED
      BY <3>1, <3>2
  <2> QED
    BY <1>8, <2>1, <2>2 DEF SetValidity, sampling, shelf
<1>9. ASSUME NEW c \in CartIds, CheckoutQuote(c)
      PROVE  Typed'
  <2>1. PICK l \in listings :
          orders' = Append(orders, [of |-> "quote", item |-> l.item,
                                    price |-> l.price, at |-> now])
    BY <1>9 DEF CheckoutQuote
  <2>2. [of |-> "quote", item |-> l.item, price |-> l.price, at |-> now]
          \in QuoteOrder \cup BatchOrder
    BY DEF Listing, QuoteOrder
  <2>3. orders' \in Seq(QuoteOrder \cup BatchOrder)
    BY <2>1, <2>2, Appended
  <2>4. request' \in [status : Statuses, validUntil : 0..(MaxTime + Validity),
                      expiredFrom : {"none"} \cup Listed,
                      accepted : Shops \cup {NoShop},
                      cart : CartIds \cup {NoCart}]
    BY <1>9 DEF CheckoutQuote, Statuses
  <2>5. cart' \in [CartIds -> {Empty} \cup QuoteLine \cup SampleLine
                                      \cup BatchLine]
    BY <1>9 DEF CheckoutQuote
  <2> QED
    BY <1>9, <2>3, <2>4, <2>5 DEF CheckoutQuote, sampling, shelf
<1> QED
  BY <1>1, <1>2, <1>3, <1>4, <1>5, <1>6, <1>7, <1>8, <1>9 DEF QuoteStep

(* A line is what its tag says.                                            *)
LEMMA Lines ==
    ASSUME Typed
    PROVE  \A c \in CartIds :
             /\ cart[c].of = "quote" => cart[c] \in QuoteLine
             /\ cart[c].of = "sample" => cart[c] \in SampleLine
             /\ cart[c].of = "batch" => cart[c] \in BatchLine
<1> SUFFICES ASSUME NEW c \in CartIds
             PROVE  /\ cart[c].of = "quote" => cart[c] \in QuoteLine
                    /\ cart[c].of = "sample" => cart[c] \in SampleLine
                    /\ cart[c].of = "batch" => cart[c] \in BatchLine
  OBVIOUS
<1>1. cart[c] \in {Empty} \cup QuoteLine \cup SampleLine \cup BatchLine
  BY DEF Typed
<1> QED
  BY <1>1 DEF Empty, QuoteLine, SampleLine, BatchLine

(* What a draft keeps of its day are numbers.                              *)
LEMMA DraftAmounts ==
    ASSUME Typed
    PROVE  /\ rate \in Nat /\ now \in Nat
           /\ \A d \in Drafts :
                /\ drafts[d].heldUntil \in Nat /\ drafts[d].rate \in Nat
                /\ drafts[d].holdDays \in Nat
                /\ samples[d].at \in Nat /\ samples[d].moved \in BOOLEAN
<1>1. Prices \subseteq Nat /\ HoldDays \subseteq Nat
  OBVIOUS
<1>2. rate \in Nat /\ now \in Nat
  BY <1>1 DEF Typed, TypeOK
<1>3. ASSUME NEW d \in Drafts
      PROVE  /\ drafts[d].heldUntil \in Nat /\ drafts[d].rate \in Prices
             /\ drafts[d].holdDays \in HoldDays
             /\ samples[d].at \in Nat /\ samples[d].moved \in BOOLEAN
  <2>1. drafts[d] \in Draft /\ samples[d] \in Sample
    BY Names
  <2> QED
    BY <2>1, Zenon DEF Draft, Sample
<1> QED
  BY <1>1, <1>2, <1>3

(* The steps of the samples keep the types.                                *)
LEMMA TypedSampleStep ==
    ASSUME Typed, NamesExist, SampleStep
    PROVE  Typed'
<1> USE DEF Typed, TypeOK
<1>0. /\ Drafts = 1..Len(drafts) /\ DOMAIN samples = 1..Len(samples)
      /\ Len(drafts) \in Nat
      /\ \A d \in Drafts : drafts[d] \in Draft /\ samples[d] \in Sample
  BY Names
<1>1. ASSUME NEW price \in Prices, EditListing(price)
      PROVE  Typed'
  BY <1>1 DEF EditListing, quoting
<1>2. ASSUME NEW days \in HoldDays, ChangeHoldDays(days)
      PROVE  Typed'
  BY <1>2 DEF ChangeHoldDays, quoting
<1>3. ASSUME NEW c \in CartIds, NEW d \in {0} \cup Drafts, AddSample(c, d)
      PROVE  Typed'
  <2>1. [of |-> "sample", replaces |-> d] \in SampleLine
    BY <1>0 DEF SampleLine
  <2>2. cart' \in [CartIds -> {Empty} \cup QuoteLine \cup SampleLine
                                      \cup BatchLine]
    BY <1>3, <2>1 DEF AddSample
  <2> QED
    BY <1>3, <2>2 DEF AddSample, quoting, sampling, shelf
<1>4. ASSUME NEW c \in CartIds, CheckoutSample(c)
      PROVE  Typed'
  <2> DEFINE d == [status |-> "awaiting_sample", decision |-> "none",
                   previous |-> cart[c].replaces, rate |-> rate,
                   holdDays |-> holdDays, heldUntil |-> Never]
  <2>1. cart[c] \in SampleLine
    BY <1>4, Lines DEF CheckoutSample, SampleChecksOut
  <2>2. d \in Draft
    BY <2>1 DEF Draft, SampleLine, Never
  <2>3. drafts' = Append(drafts, d)
        /\ samples' = Append(samples, [at |-> Never, moved |-> FALSE])
    BY <1>4 DEF CheckoutSample
  <2>4. [at |-> Never, moved |-> FALSE] \in Sample
    BY DEF Sample, Never
  <2>5. /\ drafts' \in Seq(Draft) /\ samples' \in Seq(Sample)
        /\ Len(samples') = Len(drafts')
    <3> HIDE DEF d
    <3>1. drafts' \in Seq(Draft) /\ Len(drafts') = Len(drafts) + 1
      BY <2>2, <2>3, Appended
    <3>2. samples' \in Seq(Sample) /\ Len(samples') = Len(samples) + 1
      BY <2>3, <2>4, Appended
    <3> QED
      BY <3>1, <3>2
  <2>6. cart' \in [CartIds -> {Empty} \cup QuoteLine \cup SampleLine
                                      \cup BatchLine]
    BY <1>4 DEF CheckoutSample
  <2> QED
    BY <1>4, <2>5, <2>6 DEF CheckoutSample, quoting, shelf
<1>5. ASSUME NEW c \in CartIds, CheckoutBatch(c)
      PROVE  Typed'
  <2> DEFINE d == cart[c].draft
             o == [of |-> "batch", draft |-> d, held |-> cart[c].pricing = "held",
                   price |-> IF cart[c].pricing = "held" THEN drafts[d].rate
                                                         ELSE rate,
                   at |-> now]
  <2>1. cart[c] \in BatchLine
    BY <1>5, Lines DEF CheckoutBatch, BatchChecksOut
  <2>2. d \in Nat \ {0}
    BY <2>1 DEF BatchLine
  <2>3. /\ orders' = Append(orders, o)
        /\ drafts' = [drafts EXCEPT ![d].status = "ordered"]
    BY <1>5 DEF CheckoutBatch
  <2>4. d \in Drafts
    BY <2>1, <2>2 DEF NamesExist, BatchLine
  <2>5. drafts' \in Seq(Draft) /\ Len(drafts') = Len(drafts)
    <3>1. drafts[d] \in Draft
      BY <1>0, <2>4
    <3>2. [drafts[d] EXCEPT !.status = "ordered"] \in Draft
      BY <3>1, Zenon DEF Draft
    <3> HIDE DEF d
    <3> QED
      BY <1>0, <2>3, <2>4, <3>2, Replaced
  <2>8. o \in QuoteOrder \cup BatchOrder
    <3>1. /\ (cart[c].pricing = "held") \in BOOLEAN /\ now \in Nat
          /\ (IF cart[c].pricing = "held" THEN drafts[d].rate ELSE rate) \in Nat
      BY <2>4, DraftAmounts
    <3> HIDE DEF d
    <3> QED
      BY <2>2, <3>1, Zenon DEF BatchOrder
  <2>6. orders' \in Seq(QuoteOrder \cup BatchOrder)
    <3> HIDE DEF o
    <3> QED
      BY <2>3, <2>8, Appended
  <2>7. cart' \in [CartIds -> {Empty} \cup QuoteLine \cup SampleLine
                                      \cup BatchLine]
    BY <1>5 DEF CheckoutBatch
  <2> QED
    BY <1>5, <2>5, <2>6, <2>7 DEF CheckoutBatch, quoting, shelf
<1>6. ASSUME NEW d \in Drafts, MoveSample(d)
      PROVE  Typed'
  <2>1. [samples[d] EXCEPT !.moved = TRUE] \in Sample
    BY <1>0 DEF Sample
  <2>2. samples' \in Seq(Sample) /\ Len(samples') = Len(samples)
    BY <1>0, <1>6, <2>1, Replaced DEF MoveSample
  <2> QED
    BY <1>6, <2>2 DEF MoveSample, quoting, shelf
<1>7. ASSUME NEW d \in Drafts, DeliverSample(d)
      PROVE  Typed'
  <2>0. samples[d] \in Sample /\ now \in Nat
    BY <1>0
  <2>1. [samples[d] EXCEPT !.at = now] \in Sample
    BY <2>0, Zenon DEF Sample
  <2>2. samples' \in Seq(Sample) /\ Len(samples') = Len(samples)
    BY <1>0, <1>7, <2>1, Replaced DEF DeliverSample
  <2> QED
    BY <1>7, <2>2 DEF DeliverSample, quoting, shelf
<1>8. ASSUME NEW d \in Drafts, CancelDraft(d)
      PROVE  Typed'
  <2>0. drafts[d] \in Draft
    BY <1>0
  <2>1. [drafts[d] EXCEPT !.status = "cancelled"] \in Draft
    BY <2>0, Zenon DEF Draft
  <2>2. drafts' \in Seq(Draft) /\ Len(drafts') = Len(drafts)
    BY <1>0, <1>8, <2>1, Replaced DEF CancelDraft
  <2> QED
    BY <1>8, <2>2 DEF CancelDraft, quoting, shelf
<1>9. ASSUME NEW d \in Drafts, NEW decision \in {"approved", "rejected"},
             NEW status \in {"approved", "rejected", "cancelled"},
             Decide(d, decision, status)
      PROVE  Typed'
  <2>0. drafts[d] \in Draft /\ samples[d] \in Sample
    BY <1>0
  <2>1. HeldUntil(d) \in Nat
    BY DraftAmounts DEF HeldUntil, Never
  <2>2. [drafts[d] EXCEPT !.status = status, !.decision = decision,
                          !.heldUntil = HeldUntil(d)] \in Draft
    BY <2>0, <2>1, Zenon DEF Draft
  <2>3. drafts' = [drafts EXCEPT ![d] =
                     [drafts[d] EXCEPT !.status = status, !.decision = decision,
                                       !.heldUntil = HeldUntil(d)]]
    BY <1>0, <1>9 DEF Decide
  <2>4. drafts' \in Seq(Draft) /\ Len(drafts') = Len(drafts)
    BY <1>0, <2>2, <2>3, Replaced
  <2> QED
    BY <1>9, <2>4 DEF Decide, quoting, shelf
<1>10. ASSUME NEW c \in CartIds, NEW d \in Drafts, NEW p \in {"held", "current"},
              OpenBatchCart(c, d, p)
       PROVE  Typed'
  <2>1. [of |-> "batch", draft |-> d, pricing |-> p] \in BatchLine
    BY <1>0 DEF BatchLine
  <2>2. cart' \in [CartIds -> {Empty} \cup QuoteLine \cup SampleLine
                                      \cup BatchLine]
    BY <1>10, <2>1 DEF OpenBatchCart
  <2> QED
    BY <1>10, <2>2 DEF OpenBatchCart, quoting, sampling, shelf
<1> HIDE DEF Typed, TypeOK
<1>11. ASSUME NEW d \in Drafts,
              \/ Decide(d, "approved", "approved")
              \/ Decide(d, "rejected", "rejected")
              \/ Decide(d, "rejected", "cancelled")
       PROVE  Typed'
  BY <1>9, <1>11
<1>12. ASSUME NEW c \in CartIds, NEW d \in Drafts,
              \E p \in {"held", "current"} : OpenBatchCart(c, d, p)
       PROVE  Typed'
  BY <1>10, <1>12
<1> QED
  BY <1>1, <1>2, <1>3, <1>4, <1>5, <1>6, <1>7, <1>8, <1>11, <1>12 DEF SampleStep

(* Every step keeps the types.                                             *)
LEMMA TypedStep ==
    ASSUME Typed, AcceptedIsListed, NamesExist, [Next]_vars
    PROVE  Typed'
<1>1. ASSUME NEW c \in CartIds, RemoveLine(c)
      PROVE  Typed'
  BY <1>1 DEF RemoveLine, quoting, sampling, shelf, Typed, TypeOK
<1>2. CASE Tick
  BY <1>2 DEF Tick, quoting, sampling, shelf, Typed, TypeOK
<1>3. CASE UNCHANGED vars
  BY <1>3 DEF vars, quoting, sampling, shelf, Typed, TypeOK
<1> QED
  BY <1>1, <1>2, <1>3, TypedQuoteStep, TypedSampleStep DEF Next

-----------------------------------------------------------------------------
(* The quote: what is listed, accepted and ordered.                        *)

QuoteInv == AcceptedIsListed /\ ListingsInv /\ QuoteOrdersKeepTheOffer

(* Nothing of the quote is disturbed by a step that leaves it alone and    *)
(* places no order of it.                                                  *)
LEMMA QuoteKept ==
    ASSUME Typed, Typed', QuoteInv, UNCHANGED <<request, publications, listings>>,
           orders' = orders \/ \E o \in BatchOrder : orders' = Append(orders, o)
    PROVE  QuoteInv'
<1>1. AcceptedIsListed' /\ ListingsInv'
  BY DEF QuoteInv, AcceptedIsListed, ListingsInv, Options, Item
<1>2. /\ QuoteOrders' = QuoteOrders
      /\ \A i \in QuoteOrders : orders'[i] = orders[i]
  <2>1. CASE orders' = orders
    BY <2>1 DEF QuoteOrders
  <2>2. ASSUME NEW o \in BatchOrder, orders' = Append(orders, o)
        PROVE  /\ QuoteOrders' = QuoteOrders
               /\ \A i \in QuoteOrders : orders'[i] = orders[i]
    <3>1. /\ DOMAIN orders = 1..Len(orders) /\ Len(orders) \in Nat
          /\ DOMAIN orders' = 1..(Len(orders) + 1)
          /\ \A i \in 1..Len(orders) : orders'[i] = orders[i]
          /\ orders'[Len(orders) + 1] = o
      BY <2>2, Appended DEF Typed
    <3>2. o.of # "quote"
      BY DEF BatchOrder
    <3> QED
      BY <3>1, <3>2 DEF QuoteOrders
  <2> QED
    BY <2>1, <2>2
<1>3. QuoteOrdersKeepTheOffer'
  BY <1>2 DEF QuoteInv, QuoteOrdersKeepTheOffer, Options, Item
<1> QED
  BY <1>1, <1>3 DEF QuoteInv

(* Once an order was placed the quote is closed; before, there is nothing  *)
(* to keep.                                                                *)
LEMMA NothingOrdered ==
    ASSUME QuoteOrders = {}, orders' = orders
    PROVE  QuoteOrdersKeepTheOffer'
BY DEF QuoteOrdersKeepTheOffer, QuoteOrders

(* The steps of a quote keep what was promised.                            *)
LEMMA QuoteStepKeeps ==
    ASSUME Typed, Typed', QuoteInv, QuoteStep
    PROVE  QuoteInv'
<1>0. QuoteOrders # {} => request.status = "ordered"
  BY DEF QuoteInv, QuoteOrdersKeepTheOffer
<1>1. CASE CreateRequest
  <2>1. QuoteOrdersKeepTheOffer'
    BY <1>0, <1>1, NothingOrdered DEF CreateRequest
  <2> QED
    BY <1>1, <2>1 DEF CreateRequest, QuoteInv, AcceptedIsListed, ListingsInv,
                      Options, Item, Typed, TypeOK
<1>2. CASE Expire
  <2>1. QuoteOrdersKeepTheOffer'
    BY <1>0, <1>2, NothingOrdered DEF Expire, Lapsed, Listed
  <2> QED
    BY <1>2, <2>1 DEF Expire, QuoteInv, AcceptedIsListed, ListingsInv,
                      Options, Item, Typed, TypeOK
<1>3. CASE CancelRequest
  <2>1. QuoteOrdersKeepTheOffer'
    BY <1>0, <1>3, NothingOrdered DEF CancelRequest, EffectiveStatus, Lapsed, Listed
  <2> QED
    BY <1>3, <2>1 DEF CancelRequest, QuoteInv, AcceptedIsListed, ListingsInv,
                      Options, Item, Typed, TypeOK
<1>4. ASSUME NEW s \in Shops, NEW price \in Prices, AddReply(s, price)
      PROVE  QuoteInv'
  <2>1. QuoteOrdersKeepTheOffer'
    BY <1>0, <1>4, NothingOrdered DEF AddReply, Quoting, EffectiveStatus, Lapsed, Listed
  <2> QED
    BY <1>4, <2>1 DEF AddReply, QuoteInv, AcceptedIsListed, ListingsInv,
                      Options, Item, Typed, TypeOK
<1>5. ASSUME NEW s \in Shops, NEW t \in {"active", "withdrawn"},
             NEW price \in Prices, EditReply(s, t, price)
      PROVE  QuoteInv'
  BY <1>5, QuoteKept DEF EditReply
<1>6. ASSUME NEW chosen \in SUBSET ActiveReplies, Publish(chosen)
      PROVE  QuoteInv'
  <2>1. QuoteOrdersKeepTheOffer'
    BY <1>0, <1>6, NothingOrdered DEF Publish, EffectiveStatus, Lapsed, Listed
  <2>2. AcceptedIsListed'
    BY <1>6 DEF Publish, AcceptedIsListed
  <2> DEFINE new == {[item |-> <<publications + 1, s>>, price |-> replies[s].price] :
                       s \in chosen}
  <2>3. publications' = publications + 1 /\ listings' = listings \cup new
    BY <1>6 DEF Publish
  <2>4. publications \in Nat
    BY DEF Typed, TypeOK
  <2>5. \A l \in listings : l.item[1] \in Nat /\ l.item[1] <= publications
    BY DEF QuoteInv, ListingsInv, Typed, Listing, Items
  <2>6. \A l \in new : l.item[1] = publications + 1
    OBVIOUS
  <2>7. \A l, m \in new : l.item = m.item => l = m
    OBVIOUS
  <2>8. \A l, m \in listings : l.item = m.item => l = m
    BY DEF QuoteInv, ListingsInv
  <2>9. ListingsInv'
    <3> HIDE DEF new
    <3>1. \A l \in listings' : l.item[1] <= publications'
      BY <2>3, <2>4, <2>5, <2>6
    <3>2. \A l \in listings, m \in new : l.item # m.item
      BY <2>4, <2>5, <2>6
    <3>3. \A l, m \in listings' : l.item = m.item => l = m
      BY <2>3, <2>7, <2>8, <3>2
    <3> QED
      BY <3>1, <3>3 DEF ListingsInv
  <2> QED
    BY <2>1, <2>2, <2>9 DEF QuoteInv
<1>7. ASSUME NEW s \in Shops, NEW c \in CartIds, AcceptOption(s, c)
      PROVE  QuoteInv'
  <2>1. QuoteOrdersKeepTheOffer'
    BY <1>0, <1>7, NothingOrdered DEF AcceptOption
  <2>2. request' = [request EXCEPT !.status = "accepted", !.accepted = s, !.cart = c]
        /\ UNCHANGED <<publications, listings>>
        /\ \E l \in Options : l.item = Item(s)
    BY <1>7 DEF AcceptOption
  <2>3. request'.accepted = s
    BY <2>2 DEF Typed, TypeOK
  <2> QED
    BY <2>1, <2>2, <2>3 DEF QuoteInv, AcceptedIsListed, ListingsInv, Options, Item
<1>8. ASSUME NEW until \in 1..(MaxTime + 1), SetValidity(until)
      PROVE  QuoteInv'
  <2>1. QuoteOrdersKeepTheOffer'
    BY <1>0, <1>8, NothingOrdered DEF SetValidity, EffectiveStatus, Lapsed, Listed
  <2>2. /\ UNCHANGED <<publications, listings>>
        /\ request'.accepted = request.accepted
        /\ request'.expiredFrom = request.expiredFrom
        /\ request'.status \in {"accepted", "ordered"} =>
             request.status \in {"accepted", "ordered"}
               \/ request.expiredFrom = "accepted"
    BY <1>8 DEF SetValidity, Typed, TypeOK
  <2> QED
    BY <2>1, <2>2 DEF QuoteInv, AcceptedIsListed, ListingsInv, Options, Item
<1>9. ASSUME NEW c \in CartIds, CheckoutQuote(c)
      PROVE  QuoteInv'
  <2>1. /\ request.status = "accepted" /\ now < request.validUntil
        /\ cart[c].item = Item(request.accepted)
    BY <1>9 DEF CheckoutQuote, QuoteChecksOut, EffectiveStatus, Lapsed, Listed,
                Typed, TypeOK
  <2>2. PICK l \in listings :
          /\ l.item = cart[c].item
          /\ orders' = Append(orders, [of |-> "quote", item |-> l.item,
                                       price |-> l.price, at |-> now])
    BY <1>9 DEF CheckoutQuote
  <2> DEFINE o == [of |-> "quote", item |-> l.item, price |-> l.price, at |-> now]
  <2>3. /\ UNCHANGED <<publications, listings>>
        /\ request'.status = "ordered"
        /\ request'.accepted = request.accepted
        /\ request'.expiredFrom = request.expiredFrom
        /\ request'.validUntil = request.validUntil
    BY <1>9 DEF CheckoutQuote, Typed, TypeOK
  <2>4. QuoteOrders = {}
    BY <1>0, <2>1
  <2>5. o \in QuoteOrder \cup BatchOrder
    BY DEF QuoteOrder, Listing, Typed, TypeOK
  <2>6. QuoteOrders' = {Len(orders) + 1} /\ orders'[Len(orders) + 1] = o
    <3>1. /\ DOMAIN orders = 1..Len(orders) /\ Len(orders) \in Nat
          /\ DOMAIN orders' = 1..(Len(orders) + 1)
          /\ \A i \in 1..Len(orders) : orders'[i] = orders[i]
          /\ orders'[Len(orders) + 1] = o
      <4> HIDE DEF o
      <4> QED
        BY <2>2, <2>5, Appended DEF Typed, o
    <3> QED
      BY <2>4, <3>1 DEF QuoteOrders
  <2>7. o.item = Item(request.accepted) /\ o.price = l.price /\ o.at = now
    BY <2>1, <2>2
  <2>8. \A m \in Options : m.item = o.item => m.price = o.price
    BY DEF Options, QuoteInv, ListingsInv
  <2>9. Options' = Options /\ Item(request.accepted)' = Item(request.accepted)
    BY <2>3 DEF Options, Item
  <2>10. QuoteOrdersKeepTheOffer'
    <3> HIDE DEF o
    <3> QED
      BY <2>1, <2>3, <2>6, <2>7, <2>8, <2>9 DEF QuoteOrdersKeepTheOffer
  <2>11. AcceptedIsListed' /\ ListingsInv'
    BY <2>1, <2>3 DEF QuoteInv, AcceptedIsListed, ListingsInv, Options, Item
  <2> QED
    BY <2>10, <2>11 DEF QuoteInv
<1> QED
  BY <1>1, <1>2, <1>3, <1>4, <1>5, <1>6, <1>7, <1>8, <1>9 DEF QuoteStep

-----------------------------------------------------------------------------
(* The samples: what was decided, held and ordered.                        *)

SampleInv ==
    /\ DecisionsInv
    /\ BatchesInv
    /\ HeldPricesAreEarned
    /\ SamplesAreUsedOnce

(* Lines keep their names where drafts stay and no new line has one.       *)
LEMMA NamesKept ==
    ASSUME NamesExist, UNCHANGED drafts,
           \A c \in CartIds : \/ cart'[c] = cart[c]
                              \/ cart'[c].of \notin {"sample", "batch"}
    PROVE  NamesExist'
BY DEF NamesExist, Drafts

(* Nothing of the samples is disturbed by a step that leaves them alone    *)
(* and orders no batch.                                                    *)
LEMMA SamplesKept ==
    ASSUME Typed, Typed', SampleInv, UNCHANGED <<drafts, samples>>,
           orders' = orders \/ \E o \in QuoteOrder : orders' = Append(orders, o)
    PROVE  SampleInv'
<1>1. DecisionsInv'
  BY DEF SampleInv, DecisionsInv, Drafts, Delivered
<1>2. /\ BatchOrders' = BatchOrders
      /\ \A i \in BatchOrders : orders'[i] = orders[i]
  <2>1. CASE orders' = orders
    BY <2>1 DEF BatchOrders
  <2>2. ASSUME NEW o \in QuoteOrder, orders' = Append(orders, o)
        PROVE  /\ BatchOrders' = BatchOrders
               /\ \A i \in BatchOrders : orders'[i] = orders[i]
    <3>1. /\ DOMAIN orders = 1..Len(orders) /\ Len(orders) \in Nat
          /\ DOMAIN orders' = 1..(Len(orders) + 1)
          /\ \A i \in 1..Len(orders) : orders'[i] = orders[i]
          /\ orders'[Len(orders) + 1] = o
      BY <2>2, Appended DEF Typed
    <3>2. o.of # "batch"
      BY DEF QuoteOrder
    <3> QED
      BY <3>1, <3>2 DEF BatchOrders
  <2> QED
    BY <2>1, <2>2
<1>3. BatchesInv'
  BY <1>2 DEF SampleInv, BatchesInv, Drafts
<1>4. HeldPricesAreEarned'
  BY <1>2 DEF SampleInv, HeldPricesAreEarned, Delivered
<1>5. SamplesAreUsedOnce'
  BY <1>2 DEF SampleInv, SamplesAreUsedOnce, Drafts
<1> QED
  BY <1>1, <1>3, <1>4, <1>5 DEF SampleInv

(* The steps of a quote keep what the samples promised.                    *)
LEMMA QuoteStepKeepsSamples ==
    ASSUME Typed, Typed', NamesExist, SampleInv, QuoteStep
    PROVE  NamesExist' /\ SampleInv'
<1>1. CASE \/ CreateRequest \/ Expire \/ CancelRequest
           \/ \E s \in Shops, p \in Prices : AddReply(s, p)
           \/ \E s \in Shops, t \in {"active", "withdrawn"}, p \in Prices :
                EditReply(s, t, p)
           \/ \E chosen \in SUBSET ActiveReplies : Publish(chosen)
           \/ \E until \in 1..(MaxTime + 1) : SetValidity(until)
  <2>1. UNCHANGED <<cart, orders, drafts, samples>>
    BY <1>1 DEF CreateRequest, Expire, CancelRequest, AddReply, EditReply,
                Publish, SetValidity, sampling, shelf
  <2> QED
    BY <2>1, NamesKept, SamplesKept
<1>2. ASSUME NEW s \in Shops, NEW c \in CartIds, AcceptOption(s, c)
      PROVE  NamesExist' /\ SampleInv'
  <2>1. /\ cart' = [cart EXCEPT ![c] = [of |-> "quote", item |-> Item(s)]]
        /\ UNCHANGED <<orders, drafts, samples>>
    BY <1>2 DEF AcceptOption, sampling, shelf
  <2>2. \A d \in CartIds : \/ cart'[d] = cart[d]
                           \/ cart'[d].of \notin {"sample", "batch"}
    BY <2>1 DEF Typed
  <2> QED
    BY <2>1, <2>2, NamesKept, SamplesKept
<1>3. ASSUME NEW c \in CartIds, CheckoutQuote(c)
      PROVE  NamesExist' /\ SampleInv'
  <2>1. PICK l \in listings :
          orders' = Append(orders, [of |-> "quote", item |-> l.item,
                                    price |-> l.price, at |-> now])
    BY <1>3 DEF CheckoutQuote
  <2>2. [of |-> "quote", item |-> l.item, price |-> l.price, at |-> now]
          \in QuoteOrder
    BY DEF QuoteOrder, Listing, Typed, TypeOK
  <2>3. /\ cart' = [cart EXCEPT ![c] = Empty]
        /\ UNCHANGED <<drafts, samples>>
    BY <1>3 DEF CheckoutQuote, sampling, shelf
  <2>4. \A d \in CartIds : \/ cart'[d] = cart[d]
                           \/ cart'[d].of \notin {"sample", "batch"}
    BY <2>3 DEF Typed, Empty
  <2> QED
    BY <2>1, <2>2, <2>3, <2>4, NamesKept, SamplesKept
<1> QED
  BY <1>1, <1>2, <1>3 DEF QuoteStep

(* What happens to one sample leaves the batches alone: if a decision on d *)
(* is not taken back, its delivery not moved, a batch still ordered, all   *)
(* that was promised stands.                                               *)
LEMMA OneSample ==
    ASSUME Typed, Typed', NamesExist, SampleInv, NEW d \in Drafts,
           UNCHANGED <<orders, cart>>,
           Drafts' = Drafts,
           \A e \in Drafts : e # d => drafts'[e] = drafts[e]
                                      /\ samples'[e] = samples[e],
           drafts'[d].previous = drafts[d].previous,
           drafts'[d].rate = drafts[d].rate,
           drafts'[d].holdDays = drafts[d].holdDays,
           drafts[d].status = "ordered" => drafts'[d].status = "ordered",
           drafts[d].decision # "none" =>
             /\ drafts'[d].decision = drafts[d].decision
             /\ samples'[d] = samples[d],
           DecisionsInv'
    PROVE  NamesExist' /\ SampleInv'
<1>1. NamesExist'
  BY DEF NamesExist
<1>2. BatchOrders' = BatchOrders
  BY DEF BatchOrders
<1>3. BatchesInv'
  BY <1>2 DEF SampleInv, BatchesInv
<1>4. HeldPricesAreEarned'
  <2> SUFFICES ASSUME NEW i \in BatchOrders, orders[i].held
               PROVE  LET e == orders[i].draft IN
                      /\ drafts'[e].decision = "approved"
                      /\ orders[i].price = drafts'[e].rate
                      /\ samples'[e].at # Never /\ ~samples'[e].moved
                      /\ orders[i].at < samples'[e].at + drafts'[e].holdDays
    BY <1>2 DEF HeldPricesAreEarned, Delivered
  <2>1. orders[i].draft \in Drafts
    BY DEF SampleInv, BatchesInv
  <2>2. LET e == orders[i].draft IN
          /\ drafts[e].decision = "approved"
          /\ orders[i].price = drafts[e].rate
          /\ samples[e].at # Never /\ ~samples[e].moved
          /\ orders[i].at < samples[e].at + drafts[e].holdDays
    BY DEF SampleInv, HeldPricesAreEarned, Delivered
  <2> QED
    BY <2>1, <2>2
<1>5. SamplesAreUsedOnce'
  <2>1. /\ \A i, j \in BatchOrders : orders[i].draft = orders[j].draft => i = j
        /\ \A e, f \in Drafts : drafts[e].previous = drafts[f].previous
                                  => e = f \/ drafts[e].previous = 0
        /\ \A e \in Drafts : drafts[e].previous # 0 =>
             drafts[drafts[e].previous].decision = "rejected"
    BY DEF SampleInv, SamplesAreUsedOnce
  <2>2. \A e \in Drafts : drafts'[e].previous = drafts[e].previous
    OBVIOUS
  <2>3. \A e \in Drafts : drafts[e].previous # 0 => drafts[e].previous \in Drafts
    BY DEF NamesExist
  <2>4. \A e \in Drafts : drafts[e].decision = "rejected" =>
          drafts'[e].decision = "rejected"
    OBVIOUS
  <2> QED
    BY <1>2, <2>1, <2>2, <2>3, <2>4 DEF SamplesAreUsedOnce
<1> QED
  BY <1>1, <1>3, <1>4, <1>5 DEF SampleInv

(* A sample that is moved or delivered was not decided on.                 *)
LEMMA UndecidedSample ==
    ASSUME Typed, Typed', NamesExist, SampleInv, NEW d \in Drafts,
           MoveSample(d) \/ DeliverSample(d)
    PROVE  NamesExist' /\ SampleInv'
<1>1. /\ samples \in Seq(Sample) /\ Drafts = DOMAIN samples
      /\ samples[d] \in Sample /\ now \in Nat /\ now # Never
  BY Names DEF Typed, TypeOK, Never
<1>2. UNCHANGED <<orders, cart, drafts>> /\ samples[d].at = Never
  BY DEF MoveSample, DeliverSample, Delivered
<1>3. /\ \A e \in Drafts : e # d => samples'[e] = samples[e]
      /\ \/ samples'[d].at = Never
         \/ samples'[d].at = now
  <2>1. CASE MoveSample(d)
    <3>1. samples' = [samples EXCEPT ![d].moved = TRUE]
      BY <2>1 DEF MoveSample
    <3>2. samples'[d] = [samples[d] EXCEPT !.moved = TRUE]
      BY <1>1, <3>1
    <3>3. samples'[d].at = samples[d].at
      BY <1>1, <3>2 DEF Sample
    <3> QED
      BY <1>1, <1>2, <3>1, <3>3
  <2>2. CASE DeliverSample(d)
    <3>1. samples' = [samples EXCEPT ![d].at = now]
      BY <2>2 DEF DeliverSample
    <3>2. samples'[d] = [samples[d] EXCEPT !.at = now]
      BY <1>1, <3>1
    <3>3. samples'[d].at = now
      BY <1>1, <3>2 DEF Sample
    <3> QED
      BY <1>1, <3>1, <3>3
  <2> QED
    BY <2>1, <2>2
<1>4. drafts[d].decision = "none" /\ drafts[d].heldUntil = Never
  BY <1>2 DEF SampleInv, DecisionsInv, Decided
<1>5. DecisionsInv'
  <2>1. Decided(drafts'[d], samples'[d])
    BY <1>2, <1>4 DEF SampleInv, DecisionsInv, Decided
  <2> QED
    BY <1>2, <1>3, <2>1 DEF SampleInv, DecisionsInv, Drafts
<1> QED
  BY <1>2, <1>3, <1>4, <1>5, OneSample DEF Drafts

(* A draft that is cancelled keeps its decision.                           *)
LEMMA CancelledDraft ==
    ASSUME Typed, Typed', NamesExist, SampleInv, NEW d \in Drafts, CancelDraft(d)
    PROVE  NamesExist' /\ SampleInv'
<1>1. drafts[d] \in Draft /\ Drafts' = Drafts
  BY Names DEF CancelDraft, Drafts
<1>2. UNCHANGED <<orders, cart, samples>> /\ drafts[d].status # "ordered"
  BY DEF CancelDraft
<1>3. /\ \A e \in Drafts : e # d => drafts'[e] = drafts[e]
      /\ drafts'[d] = [drafts[d] EXCEPT !.status = "cancelled"]
  BY DEF CancelDraft, Drafts
<1>4. /\ drafts'[d].status = "cancelled"
      /\ drafts'[d].decision = drafts[d].decision
      /\ drafts'[d].heldUntil = drafts[d].heldUntil
      /\ drafts'[d].previous = drafts[d].previous
      /\ drafts'[d].rate = drafts[d].rate
      /\ drafts'[d].holdDays = drafts[d].holdDays
  BY <1>1, <1>3 DEF Draft
<1>5. DecisionsInv'
  <2>1. Decided(drafts'[d], samples'[d])
    BY <1>2, <1>4 DEF SampleInv, DecisionsInv, Decided
  <2> QED
    BY <1>1, <1>2, <1>3, <2>1 DEF SampleInv, DecisionsInv
<1> QED
  BY <1>1, <1>2, <1>3, <1>4, <1>5, OneSample

(* A decision is taken once, on a delivered sample, and fixes its date.    *)
LEMMA DecidedDraft ==
    ASSUME Typed, Typed', NamesExist, SampleInv, NEW d \in Drafts,
           NEW decision \in {"approved", "rejected"},
           NEW status \in {"approved", "rejected", "cancelled"},
           status = "approved" => decision = "approved",
           status = "rejected" => decision = "rejected",
           Decide(d, decision, status)
    PROVE  NamesExist' /\ SampleInv'
<1>1. drafts[d] \in Draft /\ Drafts' = Drafts
  BY Names DEF Decide, Drafts
<1>2. UNCHANGED <<orders, cart, samples>> /\ drafts[d].status = "awaiting_sample"
      /\ Delivered(d)
  BY DEF Decide
<1>3. /\ \A e \in Drafts : e # d => drafts'[e] = drafts[e]
      /\ drafts'[d] = [drafts[d] EXCEPT !.status = status, !.decision = decision,
                                        !.heldUntil = HeldUntil(d)]
  BY DEF Decide, Drafts
<1>4. /\ drafts'[d].status = status
      /\ drafts'[d].decision = decision
      /\ drafts'[d].heldUntil = HeldUntil(d)
      /\ drafts'[d].previous = drafts[d].previous
      /\ drafts'[d].rate = drafts[d].rate
      /\ drafts'[d].holdDays = drafts[d].holdDays
  BY <1>1, <1>3 DEF Draft
<1>5. drafts[d].decision = "none" /\ drafts[d].heldUntil = Never
  BY <1>2 DEF SampleInv, DecisionsInv, Decided
<1>6. HeldUntil(d) = samples[d].at + drafts[d].holdDays
  BY <1>2, <1>5 DEF HeldUntil
<1>7. DecisionsInv'
  <2>1. Decided(drafts'[d], samples'[d])
    BY <1>2, <1>4, <1>6 DEF Delivered, Decided
  <2> QED
    BY <1>1, <1>2, <1>3, <2>1 DEF SampleInv, DecisionsInv
<1> QED
  BY <1>1, <1>2, <1>3, <1>4, <1>5, <1>7, OneSample

(* A sample is ordered once for each it replaces, and starts undecided.    *)
LEMMA OrderedSample ==
    ASSUME Typed, Typed', NamesExist, SampleInv, NEW c \in CartIds,
           CheckoutSample(c)
    PROVE  NamesExist' /\ SampleInv'
<1> DEFINE n == Len(drafts) + 1
           r == cart[c].replaces
           x == [at |-> Never, moved |-> FALSE]
<1>1. /\ Drafts = 1..Len(drafts) /\ Len(drafts) \in Nat
      /\ DOMAIN samples = Drafts /\ Len(samples) = Len(drafts)
      /\ \A i \in BatchOrders : i \in DOMAIN orders
  BY Names DEF Typed, TypeOK, BatchOrders
<1>2. PICK d : /\ d = [status |-> "awaiting_sample", decision |-> "none",
                       previous |-> r, rate |-> rate, holdDays |-> holdDays,
                       heldUntil |-> Never]
               /\ drafts' = Append(drafts, d)
               /\ samples' = Append(samples, x)
  BY DEF CheckoutSample
<1>3. cart[c] \in SampleLine /\ r \in {0} \cup Drafts
      /\ (r # 0 => ReplaceableDraft(r))
  BY Lines DEF CheckoutSample, SampleChecksOut, NamesExist
<1>4. d \in Draft /\ x \in Sample
  BY <1>2, <1>3 DEF Draft, Sample, SampleLine, Never, Typed, TypeOK
<1>5. /\ d.status = "awaiting_sample" /\ d.decision = "none"
      /\ d.heldUntil = Never /\ d.previous = r /\ x.at = Never
  BY <1>2
<1>6. cart' = [cart EXCEPT ![c] = Empty] /\ UNCHANGED orders
  BY DEF CheckoutSample
<1> HIDE DEF x
<1>7. /\ Drafts' = Drafts \cup {n} /\ n \notin Drafts
      /\ \A e \in Drafts : drafts'[e] = drafts[e] /\ samples'[e] = samples[e]
      /\ drafts'[n] = d /\ samples'[n] = x
  <2>1. /\ DOMAIN drafts' = 1..(Len(drafts) + 1)
        /\ \A e \in 1..Len(drafts) : drafts'[e] = drafts[e]
        /\ drafts'[Len(drafts) + 1] = d
    BY <1>2, <1>4, Appended DEF Typed
  <2>2. /\ \A e \in 1..Len(samples) : samples'[e] = samples[e]
        /\ samples'[Len(samples) + 1] = x
    BY <1>2, <1>4, Appended DEF Typed
  <2> QED
    BY <1>1, <2>1, <2>2 DEF Drafts
<1> HIDE DEF n, r
<1>8. NamesExist'
  <2>1. \A b \in CartIds : cart'[b] = cart[b] \/ cart'[b].of = "nothing"
    BY <1>6 DEF Empty, Typed
  <2>2. \A e \in Drafts' : drafts'[e].previous \in {0} \cup Drafts
    BY <1>3, <1>5, <1>7 DEF NamesExist
  <2>3. \A b \in CartIds :
          /\ cart[b].of = "sample" => cart[b].replaces \in {0} \cup Drafts
          /\ cart[b].of = "batch" => cart[b].draft \in Drafts
    BY DEF NamesExist
  <2> QED
    BY <1>7, <2>1, <2>2, <2>3 DEF NamesExist
<1>9. DecisionsInv'
  <2>1. Decided(d, x)
    BY <1>5 DEF Decided
  <2> QED
    BY <1>7, <2>1 DEF SampleInv, DecisionsInv
<1>10. BatchOrders' = BatchOrders
  BY <1>6 DEF BatchOrders
<1>11. BatchesInv'
  BY <1>6, <1>7, <1>10 DEF SampleInv, BatchesInv
<1>12. HeldPricesAreEarned'
  BY <1>6, <1>7, <1>10 DEF SampleInv, BatchesInv, HeldPricesAreEarned, Delivered
<1>13. SamplesAreUsedOnce'
  <2>1. r # 0 => /\ drafts[r].decision = "rejected"
                 /\ \A e \in Drafts : drafts[e].previous # r
    BY <1>3 DEF ReplaceableDraft, SampleInv, DecisionsInv, Decided
  <2>2. /\ \A i, j \in BatchOrders : orders[i].draft = orders[j].draft => i = j
        /\ \A e, f \in Drafts : drafts[e].previous = drafts[f].previous
                                  => e = f \/ drafts[e].previous = 0
        /\ \A e \in Drafts : drafts[e].previous # 0 =>
             drafts[drafts[e].previous].decision = "rejected"
    BY DEF SampleInv, SamplesAreUsedOnce
  <2>3. \A e \in Drafts : drafts[e].previous \in {0} \cup Drafts
    BY DEF NamesExist
  <2>4. \A e, f \in Drafts' : drafts'[e].previous = drafts'[f].previous
                                => e = f \/ drafts'[e].previous = 0
    BY <1>5, <1>7, <2>1, <2>2
  <2>5. \A e \in Drafts' : drafts'[e].previous # 0 =>
          drafts'[drafts'[e].previous].decision = "rejected"
    BY <1>3, <1>5, <1>7, <2>1, <2>2, <2>3
  <2> QED
    BY <1>6, <1>10, <2>2, <2>4, <2>5 DEF SamplesAreUsedOnce
<1> QED
  BY <1>8, <1>9, <1>11, <1>12, <1>13 DEF SampleInv

(* A batch is ordered once, at the held price only while it is held.       *)
LEMMA OrderedBatch ==
    ASSUME Typed, Typed', NamesExist, SampleInv, NEW c \in CartIds,
           CheckoutBatch(c)
    PROVE  NamesExist' /\ SampleInv'
<1> DEFINE d == cart[c].draft
           held == cart[c].pricing = "held"
           n == Len(orders) + 1
<1>1. cart[c] \in BatchLine /\ d \in Drafts
  BY Lines DEF CheckoutBatch, BatchChecksOut, NamesExist
<1>2. PICK o : /\ o = [of |-> "batch", draft |-> d, held |-> held,
                       price |-> IF held THEN drafts[d].rate ELSE rate,
                       at |-> now]
               /\ orders' = Append(orders, o)
  BY DEF CheckoutBatch
<1>3. /\ o.of = "batch" /\ o.draft = d /\ o.at = now
      /\ o.held => held /\ o.price = drafts[d].rate
  BY <1>2
<1>4. /\ drafts' = [drafts EXCEPT ![d].status = "ordered"]
      /\ cart' = [cart EXCEPT ![c] = Empty]
      /\ UNCHANGED samples
  BY DEF CheckoutBatch
<1>5. Approved(d) /\ (held => HeldPriceUsable(d))
  BY DEF CheckoutBatch, BatchChecksOut, HeldPriceUsable
<1>6. /\ DOMAIN orders = 1..Len(orders) /\ Len(orders) \in Nat
      /\ DOMAIN orders' = 1..n
      /\ \A i \in 1..Len(orders) : orders'[i] = orders[i]
      /\ orders'[n] = o
  <2>1. /\ DOMAIN orders = 1..Len(orders) /\ Len(orders) \in Nat
        /\ Len(orders') \in Nat /\ DOMAIN orders' = 1..Len(orders')
    BY DEF Typed
  <2> QED
    BY <1>2, <2>1
<1>7. /\ drafts[d] \in Draft /\ Drafts' = Drafts
      /\ \A e \in Drafts : e # d => drafts'[e] = drafts[e]
      /\ drafts'[d] = [drafts[d] EXCEPT !.status = "ordered"]
  BY <1>1, <1>4, Names DEF Drafts
<1> HIDE DEF d, held, n
<1>8. /\ drafts'[d].status = "ordered"
      /\ drafts'[d].decision = drafts[d].decision
      /\ drafts'[d].heldUntil = drafts[d].heldUntil
      /\ drafts'[d].previous = drafts[d].previous
      /\ drafts'[d].rate = drafts[d].rate
      /\ drafts'[d].holdDays = drafts[d].holdDays
  BY <1>7 DEF Draft
<1>9. BatchOrders' = BatchOrders \cup {n} /\ n \notin BatchOrders
      /\ \A i \in BatchOrders : orders'[i] = orders[i]
  BY <1>3, <1>6 DEF BatchOrders, n
<1>10. /\ \A i \in BatchOrders : /\ orders[i].draft \in Drafts
                                 /\ drafts[orders[i].draft].status = "ordered"
                                 /\ orders[i].draft # d
  BY <1>5 DEF SampleInv, BatchesInv, Approved
<1>11. NamesExist'
  <2>1. \A b \in CartIds : cart'[b] = cart[b] \/ cart'[b].of = "nothing"
    BY <1>4 DEF Empty, Typed
  <2> QED
    BY <1>7, <1>8, <2>1 DEF NamesExist
<1>12. DecisionsInv'
  <2>1. Decided(drafts'[d], samples[d])
    BY <1>1, <1>5, <1>8 DEF SampleInv, DecisionsInv, Decided
  <2> QED
    BY <1>4, <1>7, <2>1 DEF SampleInv, DecisionsInv
<1>13. BatchesInv'
  <2> SUFFICES ASSUME NEW i \in BatchOrders'
               PROVE  /\ orders'[i].draft \in Drafts
                      /\ drafts'[orders'[i].draft].status = "ordered"
    BY <1>7 DEF BatchesInv
  <2>1. CASE i \in BatchOrders
    BY <1>7, <1>9, <1>10, <2>1
  <2>2. CASE i = n
    BY <1>1, <1>3, <1>6, <1>8, <2>2
  <2> QED
    BY <1>9, <2>1, <2>2
<1>14. HeldPricesAreEarned'
  <2> SUFFICES ASSUME NEW i \in BatchOrders', orders'[i].held
               PROVE  LET e == orders'[i].draft IN
                      /\ drafts'[e].decision = "approved"
                      /\ orders'[i].price = drafts'[e].rate
                      /\ samples[e].at # Never /\ ~samples[e].moved
                      /\ orders'[i].at < samples[e].at + drafts'[e].holdDays
    BY <1>4 DEF HeldPricesAreEarned, Delivered
  <2>1. CASE i \in BatchOrders
    <3>1. LET e == orders[i].draft IN
            /\ drafts[e].decision = "approved"
            /\ orders[i].price = drafts[e].rate
            /\ samples[e].at # Never /\ ~samples[e].moved
            /\ orders[i].at < samples[e].at + drafts[e].holdDays
      BY <1>9, <2>1 DEF SampleInv, HeldPricesAreEarned, Delivered
    <3> QED
      BY <1>7, <1>9, <1>10, <2>1, <3>1
  <2>2. CASE i = n
    <3>1. HeldPriceUsable(d)
      BY <1>3, <1>5, <1>6, <2>2
    <3>2. Decided(drafts[d], samples[d])
      BY <1>1 DEF SampleInv, DecisionsInv
    <3>3. /\ drafts[d].decision = "approved" /\ samples[d].at # Never
          /\ HeldUntil(d) = samples[d].at + drafts[d].holdDays
      BY <3>1, <3>2 DEF HeldPriceUsable, Approved, Decided, HeldUntil, Delivered
    <3>4. ~samples[d].moved /\ now < samples[d].at + drafts[d].holdDays
      BY <3>1, <3>3 DEF HeldPriceUsable
    <3> QED
      BY <1>3, <1>6, <1>8, <2>2, <3>3, <3>4
  <2> QED
    BY <1>9, <2>1, <2>2
<1>15. SamplesAreUsedOnce'
  <2>1. /\ \A i, j \in BatchOrders : orders[i].draft = orders[j].draft => i = j
        /\ \A e, f \in Drafts : drafts[e].previous = drafts[f].previous
                                  => e = f \/ drafts[e].previous = 0
        /\ \A e \in Drafts : drafts[e].previous # 0 =>
             drafts[drafts[e].previous].decision = "rejected"
    BY DEF SampleInv, SamplesAreUsedOnce
  <2>2. \A i, j \in BatchOrders' : orders'[i].draft = orders'[j].draft => i = j
    BY <1>3, <1>6, <1>9, <1>10, <2>1
  <2>3. \A e \in Drafts : drafts'[e].previous = drafts[e].previous
                          /\ drafts'[e].decision = drafts[e].decision
    BY <1>7, <1>8
  <2>4. \A e \in Drafts : drafts[e].previous # 0 => drafts[e].previous \in Drafts
    BY DEF NamesExist
  <2> QED
    BY <1>7, <2>1, <2>2, <2>3, <2>4 DEF SamplesAreUsedOnce
<1> QED
  BY <1>11, <1>12, <1>13, <1>14, <1>15 DEF SampleInv

(* Every step of the samples keeps what was promised.                      *)
LEMMA SampleStepKeeps ==
    ASSUME Typed, Typed', NamesExist, SampleInv, SampleStep
    PROVE  NamesExist' /\ SampleInv'
<1>1. CASE \/ \E p \in Prices : EditListing(p)
           \/ \E days \in HoldDays : ChangeHoldDays(days)
  <2>1. UNCHANGED <<cart, orders, drafts, samples>>
    BY <1>1 DEF EditListing, ChangeHoldDays
  <2> QED
    BY <2>1, NamesKept, SamplesKept
<1>2. ASSUME NEW c \in CartIds, NEW d \in {0} \cup Drafts, AddSample(c, d)
      PROVE  NamesExist' /\ SampleInv'
  <2>1. /\ cart' = [cart EXCEPT ![c] = [of |-> "sample", replaces |-> d]]
        /\ UNCHANGED <<orders, drafts, samples>>
    BY <1>2 DEF AddSample, sampling
  <2>2. \A b \in CartIds :
          cart'[b] = IF b = c THEN [of |-> "sample", replaces |-> d] ELSE cart[b]
    BY <2>1 DEF Typed
  <2>3. NamesExist'
    BY <2>1, <2>2 DEF NamesExist, Drafts
  <2> QED
    BY <2>1, <2>3, SamplesKept
<1>3. ASSUME NEW c \in CartIds, NEW d \in Drafts, NEW p \in {"held", "current"},
             OpenBatchCart(c, d, p)
      PROVE  NamesExist' /\ SampleInv'
  <2>1. /\ cart' = [cart EXCEPT ![c] =
                      [of |-> "batch", draft |-> d, pricing |-> p]]
        /\ UNCHANGED <<orders, drafts, samples>>
    BY <1>3 DEF OpenBatchCart, sampling
  <2>2. \A b \in CartIds :
          cart'[b] = IF b = c THEN [of |-> "batch", draft |-> d, pricing |-> p]
                              ELSE cart[b]
    BY <2>1 DEF Typed
  <2>3. NamesExist'
    BY <2>1, <2>2 DEF NamesExist, Drafts
  <2> QED
    BY <2>1, <2>3, SamplesKept
<1>4. ASSUME NEW d \in Drafts,
             \/ Decide(d, "approved", "approved")
             \/ Decide(d, "rejected", "rejected")
             \/ Decide(d, "rejected", "cancelled")
      PROVE  NamesExist' /\ SampleInv'
  BY <1>4, DecidedDraft
<1> QED
  BY <1>1, <1>2, <1>3, <1>4, OrderedSample, OrderedBatch, UndecidedSample,
     CancelledDraft
  DEF SampleStep

-----------------------------------------------------------------------------
(* The theorems.                                                           *)

(* Types, what is listed, and what was decided hold together in every      *)
(* reachable state.                                                        *)
Sound == Typed /\ NamesExist /\ QuoteInv /\ SampleInv

(* The first state is sound.                                               *)
LEMMA SoundInit == Init => Sound
<1> SUFFICES ASSUME Init PROVE Sound
  OBVIOUS
<1>1. Typed
  BY TypedInit
<1>2. /\ orders = <<>> /\ drafts = <<>> /\ listings = {}
      /\ request.status = "none" /\ request.expiredFrom = "none"
      /\ \A c \in CartIds : cart[c].of = "nothing"
  BY DEF Init, Empty
<1>3. QuoteOrders = {} /\ BatchOrders = {} /\ Drafts = {}
  BY <1>2 DEF QuoteOrders, BatchOrders, Drafts
<1>4. NamesExist
  BY <1>2, <1>3 DEF NamesExist
<1>5. QuoteInv
  BY <1>2, <1>3 DEF QuoteInv, AcceptedIsListed, ListingsInv,
                    QuoteOrdersKeepTheOffer
<1>6. SampleInv
  BY <1>3 DEF SampleInv, DecisionsInv, BatchesInv, HeldPricesAreEarned,
              SamplesAreUsedOnce
<1> QED
  BY <1>1, <1>4, <1>5, <1>6 DEF Sound

(* Every step keeps a state sound.                                         *)
LEMMA SoundStep == Sound /\ [Next]_vars => Sound'
<1> SUFFICES ASSUME Sound, [Next]_vars PROVE Sound'
  OBVIOUS
<1>0. Typed /\ NamesExist /\ QuoteInv /\ SampleInv
  BY DEF Sound
<1>1. Typed'
  BY <1>0, TypedStep DEF QuoteInv
<1>2. CASE QuoteStep
  BY <1>0, <1>1, <1>2, QuoteStepKeeps, QuoteStepKeepsSamples DEF Sound
<1>3. CASE SampleStep
  <2>1. UNCHANGED <<request, publications, listings>>
    BY <1>3 DEF SampleStep, EditListing, ChangeHoldDays, AddSample,
                CheckoutSample, CheckoutBatch, MoveSample, DeliverSample,
                CancelDraft, Decide, OpenBatchCart, quoting
  <2>2. orders' = orders \/ \E o \in BatchOrder : orders' = Append(orders, o)
    <3>1. ASSUME NEW c \in CartIds, CheckoutBatch(c)
          PROVE  \E o \in BatchOrder : orders' = Append(orders, o)
      <4>1. PICK o : /\ o.of = "batch"
                     /\ orders' = Append(orders, o)
        BY <3>1 DEF CheckoutBatch
      <4>2. /\ orders \in Seq(QuoteOrder \cup BatchOrder)
            /\ orders' \in Seq(QuoteOrder \cup BatchOrder)
        BY <1>0, <1>1 DEF Typed
      <4>3. orders'[Len(orders) + 1] = o /\ Len(orders) + 1 \in DOMAIN orders'
        BY <4>1, <4>2
      <4>4. o \in QuoteOrder \cup BatchOrder
        BY <4>2, <4>3
      <4> QED
        BY <4>1, <4>4 DEF QuoteOrder
    <3>2. CASE \E c \in CartIds : CheckoutBatch(c)
      BY <3>1, <3>2
    <3>3. CASE ~\E c \in CartIds : CheckoutBatch(c)
      BY <1>3, <3>3
      DEF SampleStep, EditListing, ChangeHoldDays, AddSample, CheckoutSample,
          MoveSample, DeliverSample, CancelDraft, Decide, OpenBatchCart
    <3> QED
      BY <3>2, <3>3
  <2>3. QuoteInv'
    BY <1>0, <1>1, <2>1, <2>2, QuoteKept
  <2> QED
    BY <1>0, <1>1, <1>3, <2>3, SampleStepKeeps DEF Sound
<1>4. CASE (\E c \in CartIds : RemoveLine(c)) \/ Tick \/ UNCHANGED vars
  <2>1. /\ UNCHANGED <<request, publications, listings, orders, drafts, samples>>
        /\ cart' = cart \/ \E c \in CartIds : cart' = [cart EXCEPT ![c] = Empty]
    BY <1>4 DEF RemoveLine, Tick, vars, quoting, sampling
  <2>2. \A c \in CartIds : cart'[c] = cart[c] \/ cart'[c] = Empty
    BY <1>0, <2>1 DEF Typed
  <2>3. NamesExist'
    BY <1>0, <2>1, <2>2, NamesKept DEF Empty
  <2>4. QuoteInv' /\ SampleInv'
    BY <1>0, <1>1, <2>1, QuoteKept, SamplesKept
  <2> QED
    BY <1>1, <2>3, <2>4 DEF Sound
<1> QED
  BY <1>2, <1>3, <1>4 DEF Next

(* Every reachable state is sound.                                         *)
LEMMA AlwaysSound == Spec => []Sound
BY SoundInit, SoundStep, PTL DEF Spec

(* Every variable keeps its type (Offers.tla).                             *)
THEOREM TypeCorrect == Spec => []TypeOK
<1>1. Sound => TypeOK
  BY DEF Sound, Typed
<1> QED
  BY <1>1, AlwaysSound, PTL

(* What is ordered from a quote is the option last accepted, at its price, *)
(* in time, once (assertQuoteCheckout).                                    *)
THEOREM QuotesAreKept == Spec => []QuoteOrdersKeepTheOffer
<1>1. Sound => QuoteOrdersKeepTheOffer
  BY DEF Sound, QuoteInv
<1> QED
  BY <1>1, AlwaysSound, PTL

(* A held price is earned by the approved sample of an unchanged shop, and *)
(* used in its days (heldPriceBlocker).                                    *)
THEOREM HeldPricesEarned == Spec => []HeldPricesAreEarned
<1>1. Sound => HeldPricesAreEarned
  BY DEF Sound, SampleInv
<1> QED
  BY <1>1, AlwaysSound, PTL

(* A sample gives one batch, and a rejected one at most one successor      *)
(* (assertSampleFirstCheckout).                                            *)
THEOREM SamplesUsedOnce == Spec => []SamplesAreUsedOnce
<1>1. Sound => SamplesAreUsedOnce
  BY DEF Sound, SampleInv
<1> QED
  BY <1>1, AlwaysSound, PTL

=============================================================================
