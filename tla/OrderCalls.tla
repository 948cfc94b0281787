----------------------------- MODULE OrderCalls -----------------------------
(***************************************************************************)
(* Voice calls of an order: src/src/order-calls.js with the windows of     *)
(* delivery-chat.js and pickup-chat.js, the save hook and the sweeps of    *)
(* server.js.                                                              *)
(*                                                                         *)
(* One order, its client, its shop and the riders it may be given to.  A   *)
(* call is between the rider and the client (pair "delivery") or the rider *)
(* and the shop ("pickup").  Every request and sweep holds the domain      *)
(* lock, so each is one step.  A request of a party reconciles the calls   *)
(* before it does anything else, and every save of the domain store        *)
(* reconciles them again, so a change of the order or of an account ends   *)
(* the calls it makes void in the transaction that saves it.  Time is the  *)
(* Tick of one clock: how long a call rang, how long each side has not     *)
(* been seen and how long it was answered, each up to the limit that ends  *)
(* the call.  The limit of ten calls in ten minutes only refuses and is    *)
(* left out, and so is the limit of 256 signals.                           *)
(***************************************************************************)
EXTENDS Integers, Sequences, FiniteSets, SequencesExt

CONSTANTS
    Riders,     \* accounts the order may be dispatched to
    Calls,      \* bound: rows of order_calls
    Doubtful,   \* accounts whose approval may be withdrawn
    Ring,       \* CALL_RING_MS, in ticks
    Lease,      \* CALL_LEASE_MS
    Cap,        \* the two hours a call may last
    ByPickup,   \* fulfillmentMode = "pickup": no delivery call
    MaxChanges, \* bound: changes of the order and of accounts
    MaxSignals  \* bound: signals, of one call at a time

ASSUME OrderCallsAssumption ==
    /\ IsFiniteSet(Riders) /\ IsFiniteSet(Calls)
    /\ Doubtful \subseteq Riders \cup {"client", "supplier"}
    /\ Ring \in Nat \ {0} /\ Lease \in Nat \ {0} /\ Cap \in Nat \ {0}
    /\ ByPickup \in BOOLEAN
    /\ MaxChanges \in Nat /\ MaxSignals \in Nat

VARIABLES
    work,     \* where the order is on its way, as far as calls care
    rider,    \* order.riderId, a set of at most one
    revoked,  \* riders and sides of the order that are no longer approved
    aged,     \* a delivered order's chats are past their day
    call,     \* the rows of order_calls, with their signals
    changes   \* history: changes of the order and of accounts

world == <<work, rider, revoked, aged, changes>>
ocVars == <<world, call>>

None == "none"
Pairs == {"delivery", "pickup"}
Active == {"ringing", "accepted"}
Final == {"missed", "declined", "cancelled", "ended"}
Works == {"preparing", "rider_assigned", "on_the_way", "delivered"}
Sides == {"client", "supplier", "rider"}

Signal == [by : Sides, kind : {"offer", "answer", "ice"}]

Unused == [state |-> None, pair |-> "delivery", rider |-> {},
           caller |-> "rider", rang |-> 0, callerAge |-> 0, calleeAge |-> 0,
           talked |-> 0, signals |-> << >>]

OCInit ==
    /\ work = "preparing"
    /\ rider = {}
    /\ revoked = {}
    /\ aged = FALSE
    /\ call = [c \in Calls |-> Unused]
    /\ changes = 0

----------------------------------------------------------------------------
(* Parties and windows, of any state of the order                           *)

\* The side of a pair that is not the rider.
Counterpart(pair) == IF pair = "pickup" THEN "supplier" ELSE "client"
Callee(k) == IF k.caller = "rider" THEN Counterpart(k.pair) ELSE "rider"

\* callParty of both sides, and order.riderId still the call's rider.  The
\* client is asked for its account, the shop and the rider for their approval.
CurrentParties(k, r, gone) ==
    /\ k.rider = r /\ r # {}
    /\ gone \cap (r \cup {Counterpart(k.pair)}) = {}

CallWindow(pair, w, r) ==
    /\ r # {}
    /\ IF pair = "pickup" THEN w = "rider_assigned"
       ELSE ~ByPickup /\ w \in {"rider_assigned", "on_the_way"}

\* The chat window of the pair is closed: its history may no longer be read.
ChatClosed(pair, w, r, old) ==
    \/ r = {}
    \/ pair = "delivery" /\ ByPickup
    \/ w = "preparing"
    \/ w = "delivered" /\ old

----------------------------------------------------------------------------
(* Ending calls                                                             *)

\* The lease counts from the side that was seen less recently.
LeaseOver(k) == k.callerAge >= Lease \/ k.calleeAge >= Lease

\* Only the lease ends an answered call (a mutant).
OverdueByLease(k) ==
    \/ k.state = "ringing" /\ k.rang >= Ring
    \/ k.state = "accepted" /\ LeaseOver(k)

Overdue(k) ==
    \/ k.state = "ringing" /\ k.rang >= Ring
    \/ k.state = "accepted" /\ LeaseOver(k)
    \/ k.state = "accepted" /\ k.talked >= Cap

\* finish: the signals go.  A call that ends unanswered is announced to its
\* callee in the same step; what is left of it is history.
Finished(k, s) ==
    [Unused EXCEPT !.state = s, !.pair = k.pair, !.rider = k.rider]

\* What reconcileCalls makes of one row, for the order it is given.
SettledCall(k, w, r, gone) ==
    IF k.state \notin Active THEN k
    ELSE IF ~CurrentParties(k, r, gone) \/ ~CallWindow(k.pair, w, r)
         THEN Finished(k, "ended")
    ELSE IF ~Overdue(k) THEN k
    ELSE Finished(k, IF k.state = "ringing" THEN "missed" ELSE "ended")

\* A request finds the call as it was (a mutant).
NowStale(c) == call[c]

\* A request of a party reconciles the calls before it looks at them.
Now(c) == SettledCall(call[c], work, rider, revoked)

----------------------------------------------------------------------------
(* Requests of the parties                                                  *)

Answer(c, k) ==
    /\ call' = [d \in Calls |-> IF d = c THEN k ELSE Now(d)]
    /\ UNCHANGED world

\* POST /orders/:id/calls.  The pair must have no active call
\* (order_calls_one_active_pair).
Start(c, pair, caller) ==
    LET k == [Unused EXCEPT !.state = "ringing", !.pair = pair,
                            !.rider = rider, !.caller = caller] IN
    /\ call[c].state = None
    /\ caller \in {"rider", Counterpart(pair)}
    /\ CallWindow(pair, work, rider)
    /\ CurrentParties(k, rider, revoked)
    /\ \A d \in Calls : call[d].pair = pair => Now(d).state \notin Active
    /\ Answer(c, k)

\* The call is active still, so its parties stand and its window is open, and
\* the account is one of its sides.
Usable(c, side, states) ==
    /\ call[c].state \in states
    /\ side \in {call[c].caller, Callee(call[c])}
    /\ Now(c).state \in Active

Accept(c) ==
    /\ Usable(c, Callee(call[c]), {"ringing"})
    /\ Answer(c, [Now(c) EXCEPT !.state = "accepted", !.rang = 0,
                                !.callerAge = 0, !.calleeAge = 0])

Decline(c) ==
    /\ Usable(c, Callee(call[c]), {"ringing"})
    /\ Answer(c, Finished(Now(c), "declined"))

Cancel(c) ==
    /\ Usable(c, call[c].caller, {"ringing"})
    /\ Answer(c, Finished(Now(c), "cancelled"))

End(c, side) ==
    /\ Usable(c, side, {"accepted"})
    /\ Answer(c, Finished(Now(c), "ended"))

Heartbeat(c, side) ==
    /\ Usable(c, side, {"accepted"})
    /\ Answer(c, IF side = call[c].caller
                 THEN [Now(c) EXCEPT !.callerAge = 0]
                 ELSE [Now(c) EXCEPT !.calleeAge = 0])

\* The kinds a side may send: the caller offers, the callee answers, and only
\* once it accepted the call.
MaySend(k, side, kind) ==
    /\ kind = "offer" => side = k.caller
    /\ kind = "answer" => side # k.caller
    /\ side # k.caller => k.state = "accepted"

Sent(k, kind) == \E s \in ToSet(k.signals) : s.kind = kind

\* One offer and one answer, the answer after the offer
\* (order_call_one_description).
InOrder(k, kind) ==
    /\ kind = "answer" => Sent(k, "offer")
    /\ kind # "ice" => ~Sent(k, kind)

\* POST .../signals with a client id the sender has not used in this call: a
\* repeat of one it has used is answered, or refused, without a change.
SendSignal(c, side, kind) ==
    LET k == call[c] IN
    /\ Usable(c, side, Active)
    /\ MaySend(k, side, kind)
    /\ InOrder(k, kind)
    /\ Len(k.signals) < MaxSignals
    /\ \A d \in Calls \ {c} : call[d].signals = << >>
    /\ Answer(c, [k EXCEPT !.signals =
                    Append(@, [by |-> side, kind |-> kind])])

\* Any other request of a party, a read, a repeat or a refusal, and the sweep
\* of every second: reconcile, and save if that ended a call.
Reconcile ==
    /\ \E c \in Calls : Now(c) # call[c]
    /\ call' = [c \in Calls |-> Now(c)]
    /\ UNCHANGED world

----------------------------------------------------------------------------
(* The rest of the system: every save reconciles                            *)

\* save() leaves the calls to the sweep (a mutant).
SaveWithoutReconcile(w, r, gone) ==
    /\ changes < MaxChanges
    /\ changes' = changes + 1
    /\ work' = w /\ rider' = r /\ revoked' = gone
    /\ UNCHANGED <<aged, call>>

\* save() reconciles with the order and the accounts it is about to write.
SaveOrder(w, r, gone) ==
    /\ changes < MaxChanges
    /\ changes' = changes + 1
    /\ work' = w /\ rider' = r /\ revoked' = gone
    /\ call' = [c \in Calls |-> SettledCall(call[c], w, r, gone)]
    /\ UNCHANGED aged

\* A rider accepts the offer, or Operations names one.
AssignRider(r) ==
    /\ work = "preparing"
    /\ SaveOrder("rider_assigned", {r}, revoked)

\* The joint pickup check passed.
PickUp ==
    /\ work = "rider_assigned"
    /\ SaveOrder("on_the_way", rider, revoked)

HandOver ==
    /\ work = "on_the_way"
    /\ SaveOrder("delivered", rider, revoked)

\* A replacement shop takes the order over before it was picked up.
ResetDispatch ==
    /\ work = "rider_assigned"
    /\ SaveOrder("preparing", {}, revoked)

\* An account is suspended or an approval withdrawn, and given back.
Revoke(p) == p \notin revoked /\ SaveOrder(work, rider, revoked \cup {p})
Restore(p) == p \in revoked /\ SaveOrder(work, rider, revoked \ {p})

\* The day after the delivery ends: time alone closes the chats.
DayEnds ==
    /\ work = "delivered" /\ ~aged
    /\ aged' = TRUE
    /\ UNCHANGED <<work, rider, revoked, changes, call>>

\* purgeClosedCalls: the history goes without being finished or announced.
PurgeClosedCalls ==
    LET gone == {c \in Calls : /\ call[c].state # None
                               /\ \/ ~CurrentParties(call[c], rider, revoked)
                                  \/ ChatClosed(call[c].pair, work, rider,
                                                aged)}
    IN /\ gone # {}
       /\ call' = [c \in Calls |-> IF c \in gone THEN Unused ELSE call[c]]
       /\ UNCHANGED world

\* Time passes for the calls that are active.
Tick ==
    LET up(n, top) == IF n < top THEN n + 1 ELSE top
        older(k) ==
          CASE k.state = "ringing" -> [k EXCEPT !.rang = up(@, Ring)]
            [] k.state = "accepted" ->
                 [k EXCEPT !.callerAge = up(@, Lease),
                           !.calleeAge = up(@, Lease),
                           !.talked = up(@, Cap)]
            [] OTHER -> k
    IN /\ \E c \in Calls : call[c].state \in Active
       /\ call' = [c \in Calls |-> older(call[c])]
       /\ UNCHANGED world

OCNext ==
    \/ \E c \in Calls, pair \in Pairs, caller \in Sides :
          Start(c, pair, caller)
    \/ \E c \in Calls : Accept(c) \/ Decline(c) \/ Cancel(c)
    \/ \E c \in Calls, side \in Sides : End(c, side) \/ Heartbeat(c, side)
    \/ \E c \in Calls, side \in Sides, kind \in {"offer", "answer", "ice"} :
          SendSignal(c, side, kind)
    \/ Reconcile
    \/ \E r \in Riders : AssignRider(r)
    \/ PickUp
    \/ HandOver
    \/ ResetDispatch
    \/ \E p \in Doubtful : Revoke(p) \/ Restore(p)
    \/ DayEnds
    \/ PurgeClosedCalls
    \/ Tick

\* Time passes, and the sweep runs every second.
OCFairness == WF_ocVars(Tick) /\ WF_ocVars(Reconcile)

OCSpec == OCInit /\ [][OCNext]_ocVars /\ OCFairness

----------------------------------------------------------------------------
(* Properties                                                               *)

Row == [state : {None} \cup Active \cup Final, pair : Pairs,
        rider : SUBSET Riders, caller : Sides, rang : 0..Ring,
        callerAge : 0..Lease, calleeAge : 0..Lease, talked : 0..Cap,
        signals : Seq(Signal)]

\* Every variable keeps its type, an order on its way has one rider and one
\* that is not has none, and a call has a rider and a side of its pair as its
\* caller.
OCTypeOK ==
    /\ work \in Works /\ aged \in BOOLEAN /\ changes \in 0..MaxChanges
    /\ rider \in SUBSET Riders /\ Cardinality(rider) <= 1
    /\ (work = "preparing") = (rider = {})
    /\ revoked \subseteq Doubtful
    /\ call \in [Calls -> Row]
    /\ \A c \in Calls : call[c].state # None =>
         /\ Cardinality(call[c].rider) = 1
         /\ call[c].caller \in {"rider", Counterpart(call[c].pair)}

\* An active call is always one the order still allows: no two of the same
\* pair, its rider is the order's rider, both sides are approved and the
\* window is open, whatever reassigned, suspended or moved the order on.
ActiveCallsAreCurrent ==
    \A c \in Calls : call[c].state \in Active =>
        /\ CurrentParties(call[c], rider, revoked)
        /\ CallWindow(call[c].pair, work, rider)
        /\ \A d \in Calls \ {c} : call[d].pair = call[c].pair
                                    => call[d].state \notin Active

\* A call past its ring or its lease is over: no answer, heartbeat, refusal
\* or signal that arrives late revives or relabels it before the sweep comes.
DeadlinesAreFinal ==
    [][\A c \in Calls : Overdue(call[c]) =>
         \/ call'[c] = call[c]
         \/ Overdue(call'[c]) /\ call'[c].state = call[c].state
              /\ call'[c].signals = call[c].signals
         \/ call'[c].state \in
              (IF call[c].state = "ringing" THEN {"missed", "ended"}
                                            ELSE {"ended"})]_ocVars

\* Every call ends, however long both sides keep it alive.
EveryCallEnds ==
    \A c \in Calls : call[c].state \in Active ~> call[c].state \notin Active

=============================================================================
