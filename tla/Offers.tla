-------------------------------- MODULE Offers --------------------------------
(***************************************************************************)
(* What a client may order at a price promised for a time:                 *)
(* src/src/quote-requests.js, sample-first.js and the cart and checkout    *)
(* routes of order-match-routes.js that serve them.                        *)
(*                                                                         *)
(* A quote: Operations record what shops ask for a job, publish it as      *)
(* options behind private listings, and the client accepts one, which      *)
(* opens a cart.  A sample: the client orders one piece; the price list    *)
(* of that day is held for the batch until some days after the sample      *)
(* arrives.  A cart is filled at one time and checked out at another, and  *)
(* in between the offer may lapse, be published again or be used up.       *)
(*                                                                         *)
(* Each handler runs under the domain lock and is one step.  The two       *)
(* flows share the clock, the carts and the checkout and read nothing of   *)
(* each other, so a behaviour follows one of them: the quote, or the       *)
(* samples.  A shop gives one reply (a second one is an edit here).  A     *)
(* shop that closes, a changed fee, or missing artwork only make a handler *)
(* refuse; they are left out.  A price stands for a price list.            *)
(***************************************************************************)
EXTENDS Integers, Sequences, FiniteSets

CONSTANTS
    Shops,            \* shops Operations may ask
    Prices,           \* what a shop may ask, for a job or for a batch
    CartIds,          \* draft carts open at once
    NoShop, NoCart,
    MaxOptions,       \* MAX_QUOTE_OPTIONS
    Validity,         \* setting quoteValidityDays
    HoldDays,         \* values of the setting sampleBatchHoldDays
    MaxTime,          \* bound: days
    MaxPublications,  \* bound: times a quote is published
    MaxDrafts         \* bound: samples ordered

ASSUME OffersAssumption ==
    /\ Prices \subseteq Nat \ {0} /\ Prices # {}
    /\ NoShop \notin Shops /\ NoCart \notin CartIds
    /\ MaxOptions \in Nat \ {0} /\ Validity \in Nat \ {0}
    /\ HoldDays \subseteq Nat \ {0} /\ HoldDays # {}
    /\ MaxTime \in Nat \ {0}
    /\ MaxPublications \in Nat /\ MaxDrafts \in Nat

VARIABLES
    now,           \* days, from 1
    cart,          \* the line in each draft cart
    orders,        \* placed from these carts, in their order
    request,       \* the quote request
    replies,       \* quoteReplies: the last of each shop
    publications,  \* how many times it was published
    listings,      \* the private listings behind published options
    active,        \* those that are active
    rate,          \* the sampled listing's price today
    holdDays,      \* the setting today
    drafts,        \* sampleBatchDrafts
    samples        \* the sample order of each draft

quoting == <<request, replies, publications, listings, active>>
shelf == <<rate, holdDays>>
sampling == <<shelf, drafts, samples>>
vars == <<now, cart, orders, quoting, sampling>>

Never == 0
Empty == [of |-> "nothing"]
Free(c) == cart[c] = Empty

----------------------------------------------------------------------------
(* Quote requests                                                          *)

Statuses == {"none", "requested", "quoting", "published", "accepted",
             "ordered", "expired", "cancelled"}
Listed == {"published", "accepted"}
Lapsed == request.status \in Listed /\ request.validUntil <= now
EffectiveStatus == IF Lapsed THEN "expired" ELSE request.status

NoReply == [status |-> "none", price |-> 0]
ActiveReplies == {s \in Shops : replies[s].status = "active"}

Item(s) == <<publications, s>>
Options == {l \in listings : l.item[1] = publications}

CreateRequest ==
    /\ request.status = "none" /\ drafts = <<>> /\ \A c \in CartIds : Free(c)
    /\ request' = [request EXCEPT !.status = "requested"]
    /\ UNCHANGED <<now, cart, orders, replies, publications, listings, active,
                   sampling>>

Quoting == EffectiveStatus \in {"requested", "quoting", "published", "expired"}

AddReply(s, price) ==
    /\ Quoting
    /\ replies[s] = NoReply
    /\ replies' = [replies EXCEPT ![s] = [status |-> "active", price |-> price]]
    /\ request' = IF request.status = "requested"
                  THEN [request EXCEPT !.status = "quoting"] ELSE request
    /\ UNCHANGED <<now, cart, orders, publications, listings, active, sampling>>

\* The price of a published option does not follow.
EditReply(s, status, price) ==
    /\ Quoting
    /\ replies[s] # NoReply
    /\ replies' = [replies EXCEPT ![s] = [status |-> status, price |-> price]]
    /\ UNCHANGED <<now, cart, orders, request, publications, listings, active,
                   sampling>>

Publish(chosen) ==
    /\ EffectiveStatus \in {"quoting", "published", "expired"}
    /\ chosen # {} /\ Cardinality(chosen) <= MaxOptions
    /\ publications < MaxPublications
    /\ publications' = publications + 1
    /\ listings' = listings \cup
         {[item |-> <<publications', s>>, price |-> replies[s].price] :
             s \in chosen}
    /\ active' = {<<publications', s>> : s \in chosen}
    /\ request' = [status |-> "published", validUntil |-> now + Validity,
                   expiredFrom |-> "none", accepted |-> NoShop, cart |-> NoCart]
    /\ UNCHANGED <<now, cart, orders, replies, sampling>>

\* expire: by the sweep, or by the client's late acceptance.
Expire ==
    /\ Lapsed
    /\ request' = [request EXCEPT !.status = "expired",
                                  !.expiredFrom = request.status]
    /\ active' = {}
    /\ UNCHANGED <<now, cart, orders, replies, publications, listings, sampling>>

AcceptOption(s, c) ==
    /\ request.status = "published" /\ ~Lapsed
    /\ \E l \in Options : l.item = Item(s)
    /\ Item(s) \in active
    /\ Free(c)
    /\ cart' = [cart EXCEPT ![c] = [of |-> "quote", item |-> Item(s)]]
    /\ request' = [request EXCEPT !.status = "accepted", !.accepted = s,
                                  !.cart = c]
    /\ active' = {Item(s)}
    /\ UNCHANGED <<now, orders, replies, publications, listings, sampling>>

CancelRequest ==
    /\ EffectiveStatus \notin {"none", "ordered", "cancelled"}
    /\ request' = [request EXCEPT !.status = "cancelled"]
    /\ active' = {}
    /\ UNCHANGED <<now, cart, orders, replies, publications, listings, sampling>>

(* setValidity.  Renewal brings back what lapsed: the open options, or the *)
(* accepted one.                                                           *)
BroughtBack(status) ==
    IF status = "accepted" THEN {Item(request.accepted)}
                           ELSE {l.item : l \in Options}

SetValidity(until) ==
    /\ \/ EffectiveStatus \in Listed
       \/ EffectiveStatus = "expired" /\ Options # {}
    /\ until > now
    /\ LET status == IF request.status # "expired" THEN request.status
                     ELSE IF request.expiredFrom = "accepted" THEN "accepted"
                     ELSE "published" IN
       /\ request' = [request EXCEPT !.status = status, !.validUntil = until]
       /\ active' = IF request.status = "expired" THEN BroughtBack(status)
                                                  ELSE active
    /\ UNCHANGED <<now, cart, orders, replies, publications, listings, sampling>>

(* assertQuoteCheckout, which the mutant runs on the stored status alone   *)
CheckoutByStatus(c) ==
    /\ request.status = "accepted"
    /\ request.cart = c
    /\ cart[c].item = Item(request.accepted)
QuoteChecksOut(c) ==
    /\ EffectiveStatus = "accepted"
    /\ request.cart = c
    /\ cart[c].item = Item(request.accepted)

CheckoutQuote(c) ==
    /\ cart[c].of = "quote"
    /\ cart[c].item \in active      \* publicCatalogItem
    /\ QuoteChecksOut(c)
    /\ \E l \in listings :
         /\ l.item = cart[c].item
         /\ orders' = Append(orders, [of |-> "quote", item |-> l.item,
                                      price |-> l.price, at |-> now])
    /\ request' = [request EXCEPT !.status = "ordered"]
    /\ cart' = [cart EXCEPT ![c] = Empty]
    /\ UNCHANGED <<now, replies, publications, listings, active, sampling>>

----------------------------------------------------------------------------
(* Samples and their batches                                               *)

Drafts == DOMAIN drafts
Delivered(d) == samples[d].at # Never

\* draftHold: persisted with the decision, else read from the sample order.
HeldUntil(d) ==
    IF drafts[d].heldUntil # Never THEN drafts[d].heldUntil
    ELSE IF Delivered(d) THEN samples[d].at + drafts[d].holdDays
    ELSE Never
Approved(d) == drafts[d].status = "approved"
HeldPriceUsable(d) ==
    Approved(d) /\ now < HeldUntil(d) /\ ~samples[d].moved

ReplaceableDraft(d) ==
    /\ drafts[d].status = "rejected"
    /\ \A e \in Drafts : drafts[e].previous # d

\* The shop changes its price list; the Super Admin the setting.  Before the
\* first sample a change is only another start.
EditListing(price) ==
    /\ drafts # <<>> /\ price # rate
    /\ rate' = price
    /\ UNCHANGED <<now, cart, orders, quoting, holdDays, drafts, samples>>
ChangeHoldDays(days) ==
    /\ drafts # <<>> /\ days # holdDays
    /\ holdDays' = days
    /\ UNCHANGED <<now, cart, orders, quoting, rate, drafts, samples>>

\* POST /me/carts/:id/lines with sample: true; 0 replaces nothing.  A client
\* may start over with an unrelated sample; the bound follows one.
AddSample(c, replaces) ==
    /\ request.status = "none" /\ Free(c)
    /\ Len(drafts) < MaxDrafts
    /\ IF replaces = 0 THEN drafts = <<>> /\ \A e \in CartIds : Free(e)
                       ELSE ReplaceableDraft(replaces)
    /\ cart' = [cart EXCEPT ![c] = [of |-> "sample", replaces |-> replaces]]
    /\ UNCHANGED <<now, orders, quoting, sampling>>

(* assertSampleFirstCheckout.  Mutants trust what held when the line was   *)
(* added: that nothing else replaced the sample, that the hold was on.     *)
StillWanted(line) == line.of = "sample"
SampleChecksOut(line) ==
    line.of = "sample" /\ (line.replaces # 0 => ReplaceableDraft(line.replaces))
OpenedInTime(line) == line.of = "batch" /\ Approved(line.draft)
BatchChecksOut(line) ==
    /\ line.of = "batch"
    /\ IF line.pricing = "held" THEN HeldPriceUsable(line.draft)
                                ELSE Approved(line.draft)

\* linkSampleFirstOrder keeps the price list of this moment.
CheckoutSample(c) ==
    /\ SampleChecksOut(cart[c])
    /\ Len(drafts) < MaxDrafts
    /\ drafts' = Append(drafts,
         [status |-> "awaiting_sample", decision |-> "none",
          previous |-> cart[c].replaces, rate |-> rate, holdDays |-> holdDays,
          heldUntil |-> Never])
    /\ samples' = Append(samples, [at |-> Never, moved |-> FALSE])
    /\ cart' = [cart EXCEPT ![c] = Empty]
    /\ UNCHANGED <<now, orders, quoting, shelf>>

\* What happens to the sample order: another shop may take it over.
MoveSample(d) ==
    /\ ~Delivered(d) /\ ~samples[d].moved
    /\ samples' = [samples EXCEPT ![d].moved = TRUE]
    /\ UNCHANGED <<now, cart, orders, quoting, shelf, drafts>>
DeliverSample(d) ==
    /\ ~Delivered(d)
    /\ samples' = [samples EXCEPT ![d].at = now]
    /\ UNCHANGED <<now, cart, orders, quoting, shelf, drafts>>

\* reject leads to another sample or ends the draft.
Decide(d, decision, status) ==
    /\ drafts[d].status = "awaiting_sample" /\ Delivered(d)
    /\ status \in (IF decision = "approved" THEN {"approved"}
                   ELSE {"rejected", "cancelled"})
    /\ drafts' = [drafts EXCEPT ![d].status = status, ![d].decision = decision,
                                ![d].heldUntil = HeldUntil(d)]
    /\ UNCHANGED <<now, cart, orders, quoting, shelf, samples>>

CancelDraft(d) ==
    /\ drafts[d].status \in {"awaiting_sample", "approved", "rejected"}
    /\ drafts' = [drafts EXCEPT ![d].status = "cancelled"]
    /\ UNCHANGED <<now, cart, orders, quoting, shelf, samples>>

\* POST /me/sample-batches/:id/cart
OpenBatchCart(c, d, pricing) ==
    /\ Free(c)
    /\ IF pricing = "held" THEN HeldPriceUsable(d) ELSE Approved(d)
    /\ cart' = [cart EXCEPT ![c] =
                  [of |-> "batch", draft |-> d, pricing |-> pricing]]
    /\ UNCHANGED <<now, orders, quoting, sampling>>

CheckoutBatch(c) ==
    /\ BatchChecksOut(cart[c])
    /\ LET d == cart[c].draft
           held == cart[c].pricing = "held" IN
       /\ orders' = Append(orders,
            [of |-> "batch", draft |-> d, held |-> held,
             price |-> IF held THEN drafts[d].rate ELSE rate, at |-> now])
       /\ drafts' = [drafts EXCEPT ![d].status = "ordered"]
    /\ cart' = [cart EXCEPT ![c] = Empty]
    /\ UNCHANGED <<now, quoting, shelf, samples>>

----------------------------------------------------------------------------
RemoveLine(c) ==
    /\ ~Free(c)
    /\ cart' = [cart EXCEPT ![c] = Empty]
    /\ UNCHANGED <<now, orders, quoting, sampling>>

Tick ==
    /\ now < MaxTime
    /\ now' = now + 1
    /\ UNCHANGED <<cart, orders, quoting, sampling>>

Init ==
    /\ now = 1
    /\ cart = [c \in CartIds |-> Empty]
    /\ orders = <<>>
    /\ request = [status |-> "none", validUntil |-> Never,
                  expiredFrom |-> "none", accepted |-> NoShop, cart |-> NoCart]
    /\ replies = [s \in Shops |-> NoReply]
    /\ publications = 0 /\ listings = {} /\ active = {}
    /\ rate = CHOOSE p \in Prices : TRUE
    /\ holdDays = CHOOSE days \in HoldDays : TRUE
    /\ drafts = <<>> /\ samples = <<>>

QuoteStep ==
    \/ CreateRequest \/ Expire \/ CancelRequest
    \/ \E s \in Shops, p \in Prices : AddReply(s, p)
    \/ \E s \in Shops, t \in {"active", "withdrawn"}, p \in Prices :
         EditReply(s, t, p)
    \/ \E chosen \in SUBSET ActiveReplies : Publish(chosen)
    \/ \E s \in Shops, c \in CartIds : AcceptOption(s, c)
    \/ \E until \in 1..(MaxTime + 1) : SetValidity(until)
    \/ \E c \in CartIds : CheckoutQuote(c)

SampleStep ==
    \/ \E p \in Prices : EditListing(p)
    \/ \E days \in HoldDays : ChangeHoldDays(days)
    \/ \E c \in CartIds, d \in {0} \cup Drafts : AddSample(c, d)
    \/ \E c \in CartIds : CheckoutSample(c) \/ CheckoutBatch(c)
    \/ \E d \in Drafts : MoveSample(d) \/ DeliverSample(d) \/ CancelDraft(d)
    \/ \E d \in Drafts : \/ Decide(d, "approved", "approved")
                         \/ Decide(d, "rejected", "rejected")
                         \/ Decide(d, "rejected", "cancelled")
    \/ \E c \in CartIds, d \in Drafts, p \in {"held", "current"} :
         OpenBatchCart(c, d, p)

Next ==
    \/ QuoteStep
    \/ SampleStep
    \/ \E c \in CartIds : RemoveLine(c)
    \/ Tick

Spec == Init /\ [][Next]_vars

----------------------------------------------------------------------------
QuoteOrders == {i \in DOMAIN orders : orders[i].of = "quote"}
BatchOrders == {i \in DOMAIN orders : orders[i].of = "batch"}

TypeOK ==
    /\ now \in 1..MaxTime
    /\ request \in [status : Statuses, validUntil : 0..(MaxTime + Validity),
                    expiredFrom : {"none"} \cup Listed,
                    accepted : Shops \cup {NoShop},
                    cart : CartIds \cup {NoCart}]
    /\ replies \in [Shops -> [status : {"none", "active", "withdrawn"},
                              price : Prices \cup {0}]]
    /\ publications \in 0..MaxPublications
    /\ active \subseteq {l.item : l \in listings}
    /\ rate \in Prices /\ holdDays \in HoldDays
    /\ Len(samples) = Len(drafts)

\* An order placed from a quote is the option the client accepted in the last
\* publication, at the price published, before its validity ended; and it is
\* the only one.  Between the acceptance and the checkout the quote may lapse,
\* be renewed, be published again with other prices, or be cancelled, while an
\* old cart keeps its line (quote-requests.js:328 assertQuoteCheckout).
QuoteOrdersKeepTheOffer ==
    \A i \in QuoteOrders :
        /\ request.status = "ordered"
        /\ QuoteOrders = {i}
        /\ orders[i].item = Item(request.accepted)
        /\ \A l \in Options : l.item = orders[i].item => l.price = orders[i].price
        /\ orders[i].at < request.validUntil

\* A batch ordered at the held price has the price list of the day its sample
\* was ordered, from an approved sample of the shop that made it, fewer days
\* after the delivery than the setting said that day - however the listing,
\* the setting or the sample's shop changed, and however long the batch waited
\* in its cart (sample-first.js:214 heldPriceBlocker, at the checkout).
HeldPricesAreEarned ==
    \A i \in BatchOrders : orders[i].held =>
        LET d == orders[i].draft IN
        /\ drafts[d].decision = "approved"
        /\ orders[i].price = drafts[d].rate
        /\ Delivered(d) /\ ~samples[d].moved
        /\ orders[i].at < samples[d].at + drafts[d].holdDays

\* Several carts may hold the same batch, or replace the same sample; one of
\* them is ordered (order-match-routes.js:1549 assertSampleFirstCheckout).
SamplesAreUsedOnce ==
    /\ \A i, j \in BatchOrders : orders[i].draft = orders[j].draft => i = j
    /\ \A d, e \in Drafts :
         drafts[d].previous = drafts[e].previous => d = e \/ drafts[d].previous = 0
    /\ \A d \in Drafts : drafts[d].previous # 0 =>
         drafts[drafts[d].previous].decision = "rejected"

=============================================================================
