--------------------------- MODULE RefundCommands ---------------------------
(***************************************************************************)
(* The commands on a refund request, over a network that loses, repeats    *)
(* and delays them, and the wallet transfer they are about:                *)
(* src/src/refunds.js, routeRefunds.                                       *)
(*                                                                         *)
(* Order.tla has what a refund does to the money and the work; this module *)
(* has who may say what about it, twice or too late.  A command carries    *)
(* the sender's idempotency key and the version of the request it read.    *)
(* The handler runs under the domain lock and is one step; its answer may  *)
(* be lost, whereupon the sender repeats the command, and a copy may       *)
(* arrive after the sender went on to something else.  A sender reads the  *)
(* request when it composes a command: a page read long before is a        *)
(* command long under way.                                                 *)
(*                                                                         *)
(* The wallet is outside the code.  What is assumed of the payers: one     *)
(* sends only after its reservation was acknowledged, once; a transfer is  *)
(* recorded only if it was made; and whoever reports that no money moved   *)
(* has seen to it that the payer will not send any more.                   *)
(***************************************************************************)
EXTENDS Integers, FiniteSets

CONSTANTS
    Client,       \* owns the order
    Payers,       \* Operations members
    SuperAdmin,   \* one of them, who may reconcile any transfer
    Keys,         \* idempotency keys of an actor
    MaxVersion,   \* bound: commands one request takes
    MaxRevision,  \* bound: receiving QRs of one request
    MaxRequests,  \* bound: requests the client asks for
    MaxUnderway   \* bound: commands and copies under way at once

Actors == {Client} \cup Payers

ASSUME RefundCommandsAssumption ==
    /\ Client \notin Payers /\ SuperAdmin \in Payers
    /\ IsFiniteSet(Payers)
    /\ IsFiniteSet(Keys) /\ Cardinality(Keys) >= MaxUnderway
    /\ MaxVersion \in Nat \ {0} /\ MaxRevision \in Nat \ {0}
    /\ MaxRequests \in Nat /\ MaxUnderway \in Nat

VARIABLES
    request,    \* the order's latest refund request
    attempt,    \* its last payment attempt
    commands,   \* refundCommands: the actor and key of performed commands
    awaited,    \* the command each actor waits for an answer to
    late,       \* copies of commands nobody waits for
    asked,      \* how often the client decided to file
    filed,      \* how many requests there are
    verified,   \* the revision of the QR the last reviewer looked at
    paying,     \* the attempt each payer was told it reserved, until it sends
    transfers   \* made in the wallet

records == <<request, attempt, filed, verified>>
network == <<commands, awaited, late, asked>>
wallet == <<paying, transfers>>
vars == <<records, network, wallet>>

NoRequest == [status |-> "none", version |-> 0, revision |-> 0,
              settled |-> FALSE]
NoAttempt == [no |-> 0, status |-> "none", payer |-> Client, revision |-> 0]
NoCommand == [action |-> "none"]

ActiveRefundStatuses ==
    {"requested", "reviewed", "approved", "destination_review",
     "payment_in_progress", "payment_unknown"}
Outstanding == attempt.status \in {"in_progress", "unknown"}
ActiveAttempt == attempt.status \in {"in_progress", "unknown", "paid"}

----------------------------------------------------------------------------
(* The handler: whether it allows a command, and what it does then         *)

(* payment-attempts.  activeAttempt() is any attempt that did not fail.    *)
Reservable(c) ==
    /\ request.status = "approved" /\ ~ActiveAttempt
    /\ c.revision = request.revision     \* destinationRevision

MayReconcile(c) ==
    Outstanding /\ (c.actor = attempt.payer \/ c.actor = SuperAdmin)

Allowed(c) ==
    CASE c.action = "request" -> request.status \notin ActiveRefundStatuses
      [] c.action = "destination" ->
           /\ request.status \in {"requested", "reviewed", "approved",
                                  "destination_review"}
           /\ ~ActiveAttempt
      [] c.action = "review" ->
           /\ request.status \in {"requested", "reviewed", "destination_review"}
           /\ request.revision > 0
      [] c.action = "settle" -> request.status = "reviewed" /\ ~request.settled
      [] c.action = "close" ->
           request.status \in {"requested", "reviewed"} /\ ~request.settled
      [] c.action = "payment-attempts" -> Reservable(c)
      [] c.action \in {"unknown", "failed"} -> MayReconcile(c)
      [] c.action = "payments" -> MayReconcile(c) /\ c.attempt = attempt.no

\* The QR may come with the request or later.
File(c) ==
    /\ request' = [status |-> "requested", version |-> 1,
                   revision |-> c.revision, settled |-> FALSE]
    /\ attempt' = NoAttempt
    /\ filed' = filed + 1
    /\ verified' = 0

Become(status) ==
    request' = [request EXCEPT !.status = status, !.version = @ + 1]

ChangeDestination ==
    /\ request' = [request EXCEPT
         !.status = IF request.settled THEN "destination_review" ELSE "requested",
         !.revision = @ + 1, !.version = @ + 1]
    /\ UNCHANGED <<attempt, filed, verified>>

\* destinationVerified is about the QR the reviewer saw.
Review(c) ==
    /\ Become(IF request.settled THEN "approved" ELSE "reviewed")
    /\ verified' = c.revision
    /\ UNCHANGED <<attempt, filed>>

Settle ==
    /\ request' = [request EXCEPT !.status = "approved", !.version = @ + 1,
                                  !.settled = TRUE]
    /\ UNCHANGED <<attempt, filed, verified>>

Close(c) ==
    /\ Become(IF c.actor = Client THEN "withdrawn" ELSE "rejected")
    /\ UNCHANGED <<attempt, filed, verified>>

Reserve(c) ==
    /\ attempt' = [no |-> attempt.no + 1, status |-> "in_progress",
                   payer |-> c.actor, revision |-> request.revision]
    /\ Become("payment_in_progress")
    /\ UNCHANGED <<filed, verified>>

Reconcile(outcome) ==
    /\ attempt' = [attempt EXCEPT !.status = outcome]
    /\ Become(IF outcome = "unknown" THEN "payment_unknown" ELSE "approved")
    /\ UNCHANGED <<filed, verified>>

RecordPayment ==
    /\ attempt' = [attempt EXCEPT !.status = "paid"]
    /\ Become("paid")
    /\ UNCHANGED <<filed, verified>>

Perform(c) ==
    \/ c.action = "request" /\ File(c)
    \/ c.action = "destination" /\ ChangeDestination
    \/ c.action = "review" /\ Review(c)
    \/ c.action = "settle" /\ Settle
    \/ c.action = "close" /\ Close(c)
    \/ c.action = "payment-attempts" /\ Reserve(c)
    \/ c.action \in {"unknown", "failed"} /\ Reconcile(c.action)
    \/ c.action = "payments" /\ RecordPayment

(* expectedVersion; a command that files a request has none.  The mutant   *)
(* does not compare it.                                                    *)
AnyVersion(c) == c.action = "request" \/ c.request = filed
Fresh(c) ==
    \/ c.action = "request"
    \/ c.request = filed /\ c.version = request.version

Performed(c) == <<c.actor, c.key>> \in commands

(* What becomes of a command that arrives: the stored answer of its key,   *)
(* before the version is compared, which the command itself moved; else a  *)
(* refusal of what is stale or not allowed; else the handler does it.      *)
Verdict(c) ==
    CASE Performed(c) -> "replayed"
      [] ~Performed(c) /\ Fresh(c) /\ Allowed(c) -> "performed"
      [] OTHER -> "refused"

Arrive(c) == IF Verdict(c) = "performed" THEN Perform(c) ELSE UNCHANGED records

----------------------------------------------------------------------------
(* The network                                                             *)

Underway == {awaited[a] : a \in Actors} \cup late
IdsOf(copies) == {<<c.actor, c.key>> : c \in copies \ {NoCommand}}
Unused(a) == {k \in Keys : <<a, k>> \notin IdsOf(Underway) \cup commands}

(* refundCommands keeps every performed command; one of which no copy may  *)
(* come any more is forgotten here.  The mutant keeps those of a request   *)
(* that exists already.                                                    *)
StoredWithRequest(c) ==
    commands \cup (IF Verdict(c) = "performed" /\ c.action # "request"
                  THEN {<<c.actor, c.key>>} ELSE {})
Stored(c) == commands \cup (IF Verdict(c) = "performed" THEN {<<c.actor, c.key>>} ELSE {})
Remember(stored) ==
    commands' = stored \cap IdsOf({awaited'[a] : a \in Actors} \cup late')

\* A payer told that it reserved the transfer may make it.
Reserved(c) ==
    IF c.action = "payment-attempts" /\ Verdict(c) # "refused"
    THEN paying' = [paying EXCEPT ![c.actor] =
                      [no |-> c.attempt, revision |-> c.revision]]
    ELSE UNCHANGED paying

\* A command is answered; a copy of it may still be under way.
Answer(a, copies) ==
    LET c == awaited[a] IN
    /\ c # NoCommand
    /\ Arrive(c)
    /\ awaited' = [awaited EXCEPT ![a] = NoCommand]
    /\ late' = late \cup copies
    /\ Remember(Stored(c))
    /\ Reserved(c)
    /\ UNCHANGED <<asked, transfers>>

\* The answer of a command that was performed is lost.  The sender repeats it,
\* as it repeats a command that did not arrive.
AnswerLost(a) ==
    /\ awaited[a] # NoCommand
    /\ Verdict(awaited[a]) = "performed"
    /\ Perform(awaited[a])
    /\ commands' = Stored(awaited[a])
    /\ UNCHANGED <<awaited, late, asked, wallet>>

\* The sender stops waiting while the command is still under way.
GiveUp(a) ==
    /\ awaited[a] # NoCommand
    /\ awaited' = [awaited EXCEPT ![a] = NoCommand]
    /\ late' = late \cup {awaited[a]}
    /\ UNCHANGED <<records, commands, asked, wallet>>

CopyArrives(c) ==
    /\ Arrive(c)
    /\ late' = late \ {c}
    /\ UNCHANGED <<awaited, asked, wallet>>
    /\ Remember(Stored(c))
CopyLost(c) ==
    /\ late' = late \ {c}
    /\ UNCHANGED <<records, awaited, asked, wallet>>
    /\ Remember(commands)

----------------------------------------------------------------------------
(* The people.  A sender composes what the request it reads allows.        *)

Operations == {"review", "settle", "close", "payment-attempts", "unknown",
               "failed", "payments"}
Offered(a) ==
    IF a = Client THEN {"request", "destination", "close"} ELSE Operations

Moved(n) == \E t \in transfers : t.request = filed /\ t.no = n

NotPaying == [no |-> 0, revision |-> 0]

\* A transfer is recorded if it was made, and denied if it was not and will not
\* be: no payer is about to make it, or waits to hear whether it may.
Honest(action) ==
    CASE action = "payments" -> Moved(attempt.no)
      [] action = "failed" ->
           /\ ~Moved(attempt.no)
           /\ \A p \in Payers : awaited[p].action # "payment-attempts"
      [] OTHER -> TRUE

Send(a, action, withQr) ==
    LET command ==
          [actor |-> a, key |-> CHOOSE k \in Unused(a) : TRUE, action |-> action,
           request |-> filed, version |-> request.version,
           revision |-> IF action # "request" THEN request.revision
                        ELSE IF withQr THEN 1 ELSE 0,
           attempt |-> IF action = "payment-attempts" THEN attempt.no + 1
                       ELSE attempt.no] IN
    /\ awaited[a] = NoCommand
    /\ Cardinality(Underway \ {NoCommand}) < MaxUnderway
    /\ action \in Offered(a) /\ Allowed(command) /\ Honest(action)
    /\ action # "request" => request.version < MaxVersion /\ ~withQr
    /\ action = "request" => asked < MaxRequests
    /\ action = "destination" => request.revision < MaxRevision
    /\ awaited' = [awaited EXCEPT ![a] = command]
    /\ asked' = asked + (IF action = "request" THEN 1 ELSE 0)
    /\ paying' = IF action = "failed" THEN [p \in Payers |-> NotPaying]
                                      ELSE paying
    /\ UNCHANGED <<records, commands, late, transfers>>

\* The payer sends the money.
Transfer(p) ==
    /\ paying[p] # NotPaying
    /\ transfers' = transfers \cup
         {[request |-> filed, no |-> paying[p].no, revision |-> paying[p].revision]}
    /\ paying' = [paying EXCEPT ![p] = NotPaying]
    /\ UNCHANGED <<records, network>>

----------------------------------------------------------------------------
Init ==
    /\ request = NoRequest /\ attempt = NoAttempt
    /\ filed = 0 /\ verified = 0
    /\ commands = {} /\ late = {}
    /\ awaited = [a \in Actors |-> NoCommand]
    /\ asked = 0
    /\ paying = [p \in Payers |-> NotPaying]
    /\ transfers = {}

Next ==
    \/ \E a \in Actors, withQr \in BOOLEAN :
         \E action \in Offered(a) : Send(a, action, withQr)
    \/ \E a \in Actors : \/ Answer(a, {}) \/ Answer(a, {awaited[a]})
                          \/ AnswerLost(a) \/ GiveUp(a)
    \/ \E c \in late : CopyArrives(c) \/ CopyLost(c)
    \/ \E p \in Payers : Transfer(p)

Spec == Init /\ [][Next]_vars

----------------------------------------------------------------------------
Command == [actor: Actors, key: Keys,
            action: {"request", "destination"} \cup Operations, request: Nat,
            version: 0..MaxVersion, revision: 0..MaxRevision, attempt: Nat]

Request == [status: ActiveRefundStatuses
                      \cup {"none", "paid", "rejected", "withdrawn"},
            version: 0..MaxVersion, revision: 0..MaxRevision, settled: BOOLEAN]
Attempt == [no: Nat,
            status: {"none", "in_progress", "unknown", "failed", "paid"},
            payer: Actors, revision: 0..MaxRevision]

TypeOK ==
    /\ request \in Request /\ attempt \in Attempt
    /\ filed \in Nat /\ verified \in 0..MaxRevision /\ asked \in Nat
    /\ commands \subseteq Actors \X Keys
    /\ awaited \in [Actors -> Command \cup {NoCommand}] /\ late \subseteq Command
    /\ paying \in [Payers -> [no: Nat, revision: 0..MaxRevision]]
    /\ transfers \subseteq [request: Nat, no: Nat, revision: 0..MaxRevision]

\* Whatever commands cross, repeat or come late, the money of a request is sent
\* once, to the QR the last reviewer looked at, and a request is paid only if
\* it was (activeAttempt, expectedVersion and destinationRevision together).
RefundsReachTheClientOnce ==
    /\ \A t, u \in transfers : t.request = u.request => t = u
    /\ \A t \in transfers : t.request = filed => t.revision = verified
    /\ request.status = "paid" => Moved(attempt.no)

\* A request exists for each time the client decided to file one, and no more,
\* although filing carries no version and its copies may arrive when the
\* request it made is closed (refunds.js:216-220, the stored command).
RefundsWereAskedFor == filed <= asked

=============================================================================
