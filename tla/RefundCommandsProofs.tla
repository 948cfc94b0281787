------------------------ MODULE RefundCommandsProofs ------------------------
(***************************************************************************)
(* Theorems about RefundCommands.tla, for any payers, keys and bounds.     *)
(*                                                                         *)
(* That the money of a request is sent once rests on what a command under  *)
(* way says of the request it was composed for: as long as its version is  *)
(* today's, nothing has happened to the request since (FreshInv), so the   *)
(* honesty of the sender then is good for the moment it arrives.  That a   *)
(* payer who hears of its reservation late may still pay rests on nobody   *)
(* denying a transfer while somebody waits for such an answer (PayInv).    *)
(***************************************************************************)
EXTENDS RefundCommands, FiniteSetTheorems, FunctionTheorems, TLAPS

USE RefundCommandsAssumption

-----------------------------------------------------------------------------
(* The inductive invariant.                                                *)

(* The commands under way, and how the server tells them apart.            *)
Sent == Underway \ {NoCommand}
Id(c) == <<c.actor, c.key>>

(* A command about the request as it is.                                   *)
Current(c) == c.action # "request" /\ c.request = filed /\ c.version = request.version

(* It is up to p, and to nobody else, to make the transfer.                *)
MayPay(p, no, revision) ==
    /\ Outstanding /\ attempt.payer = p /\ attempt.no = no /\ attempt.revision = revision
    /\ ~Moved(attempt.no)
NobodyPays == \A p \in Payers : paying[p] = NotPaying
AwaitsReservation(p) == awaited[p].action = "payment-attempts"

(* A key names one command as long as a copy of it is under way.           *)
KeyInv ==
    /\ commands \subseteq IdsOf(Underway) /\ IsFiniteSet(late)
    /\ \A c, d \in Sent : Id(c) = Id(d) => c = d
    /\ \A a \in Actors : awaited[a] # NoCommand => awaited[a].actor = a
    /\ \A c \in Sent : c.action = "payment-attempts" => c.actor \in Payers

(* What the sender of a current command saw is still so.                   *)
FreshInv ==
    \A c \in Sent :
       /\ c.request <= filed /\ (c.request = filed => c.version <= request.version)
       /\ Current(c) =>
            /\ c.version < MaxVersion /\ c.revision = request.revision
            /\ c.action = "destination" => c.revision < MaxRevision
            /\ c.action = "payment-attempts" => c.attempt = attempt.no + 1
            /\ c.action = "payments" => Moved(attempt.no)
            /\ c.action = "failed" =>
                 /\ Outstanding /\ ~Moved(attempt.no) /\ NobodyPays
                 /\ \A p \in Payers : ~AwaitsReservation(p)

(* How the request and its last attempt go together.                       *)
StatusInv ==
    /\ Outstanding <=> request.status \in {"payment_in_progress", "payment_unknown"}
    /\ attempt.status = "paid" <=> request.status = "paid"
    /\ request.status \in {"reviewed", "approved", "payment_in_progress", "payment_unknown", "paid"}
         => verified = request.revision
    /\ ActiveAttempt => attempt.revision = request.revision

(* The transfers of the latest request are of its active attempt.          *)
MoneyInv ==
    /\ \A t \in transfers :
         /\ t.request <= filed
         /\ t.request = filed => ActiveAttempt /\ t.no = attempt.no /\ t.revision = verified
    /\ \A t, u \in transfers : t.request = u.request => t = u
    /\ request.status = "paid" => Moved(attempt.no)

(* Who was told that it reserved the transfer, or is about to hear it.     *)
PayInv ==
    /\ \A p \in Payers : paying[p] # NotPaying => MayPay(p, paying[p].no, paying[p].revision)
    /\ \A p \in Payers : AwaitsReservation(p) /\ Performed(awaited[p]) =>
          MayPay(p, awaited[p].attempt, awaited[p].revision) /\ NobodyPays

IInv == TypeOK /\ KeyInv /\ FreshInv /\ StatusInv /\ MoneyInv /\ PayInv

-----------------------------------------------------------------------------
(* Commands.                                                               *)

(* No command is not a command.                                            *)
LEMMA NotACommand == NoCommand \notin Command
BY DEF NoCommand, Command, Operations

(* What is under way is commands.                                          *)
LEMMA SentAreCommands == ASSUME TypeOK PROVE Sent \subseteq Command
BY DEF TypeOK, Sent, Underway

(* What the server performs is new to it, about the request as it is       *)
(* unless it files one, and allowed by the handler.                        *)
LEMMA PerformedMeans ==
    ASSUME NEW c \in Command, Verdict(c) = "performed"
    PROVE  /\ ~Performed(c)
           /\ c.action = "request" \/ Current(c)
           /\ c.action = "request" => request.status \notin ActiveRefundStatuses
           /\ c.action = "destination" =>
                request.status \in {"requested", "reviewed", "approved", "destination_review"}
                /\ ~ActiveAttempt
           /\ c.action = "review" => request.status \in {"requested", "reviewed", "destination_review"}
           /\ c.action = "settle" => request.status = "reviewed"
           /\ c.action = "close" => request.status \in {"requested", "reviewed"}
           /\ c.action = "payment-attempts" => Reservable(c)
           /\ c.action \in {"unknown", "failed", "payments"} => MayReconcile(c)
<1>1. ~Performed(c) /\ Fresh(c) /\ Allowed(c)
  BY DEF Verdict
<1> QED
  BY <1>1 DEF Fresh, Current, Allowed, Command, Operations

(* A step in which no command is composed.                                 *)
NothingSent ==
    /\ awaited' \in [Actors -> Command \cup {NoCommand}]
    /\ \A a \in Actors : awaited'[a] \in {awaited[a], NoCommand}
    /\ late' \subseteq Sent /\ asked' = asked

(* A command arrives and may be answered.                                  *)
Arrival(c) ==
    /\ NothingSent /\ Arrive(c) /\ UNCHANGED transfers
    /\ commands' = Stored(c) \cap IdsOf(Underway')
    /\ \/ UNCHANGED paying
       \/ \E a \in Actors : c = awaited[a] /\ awaited'[a] = NoCommand /\ Reserved(c)

(* A copy gets lost, or its sender stops waiting for it.                   *)
Dropped == NothingSent /\ UNCHANGED <<records, wallet>> /\ commands' = commands \cap IdsOf(Underway')

(* No step but a composed command adds to what is under way.               *)
LEMMA NothingNew ==
    ASSUME TypeOK, NothingSent
    PROVE  Sent' \subseteq Sent /\ Underway' \subseteq Underway \cup {NoCommand} /\ late' \subseteq Command
<1>1. \A a \in Actors : awaited'[a] \in Underway \cup {NoCommand}
  BY DEF NothingSent, Underway
<1>2. late' \subseteq Underway /\ late' \subseteq Command
  BY SentAreCommands DEF NothingSent, Sent
<1>3. Underway' \subseteq Underway \cup {NoCommand}
  BY <1>1, <1>2 DEF Underway
<1> QED
  BY <1>2, <1>3 DEF Sent

(* The steps: a command is composed, arrives or is dropped, or money moves.*)
LEMMA StepKinds ==
    ASSUME TypeOK, KeyInv, Next
    PROVE  \/ \E a \in Actors, withQr \in BOOLEAN : \E action \in Offered(a) : Send(a, action, withQr)
           \/ \E c \in Sent : Arrival(c)
           \/ Dropped
           \/ \E p \in Payers : Transfer(p)
<1>1. ASSUME NEW a \in Actors, Answer(a, {}) \/ Answer(a, {awaited[a]})
      PROVE  awaited[a] \in Sent /\ Arrival(awaited[a])
  <2>1. awaited[a] \in Sent
    BY <1>1 DEF Answer, Sent, Underway
  <2>2. PICK copies \in {{}, {awaited[a]}} : Answer(a, copies)
    BY <1>1
  <2>3. late' \subseteq Sent
    BY <2>1, <2>2, NotACommand DEF Answer, Sent, Underway, TypeOK
  <2>4. NothingSent
    BY <2>2, <2>3 DEF NothingSent, Answer, TypeOK
  <2>5. commands' = Stored(awaited[a]) \cap IdsOf(Underway')
    BY <2>2 DEF Answer, Remember, Underway
  <2>6. Arrive(awaited[a]) /\ Reserved(awaited[a]) /\ awaited'[a] = NoCommand /\ UNCHANGED transfers
    BY <2>2 DEF Answer, TypeOK
  <2> QED
    BY <2>1, <2>4, <2>5, <2>6 DEF Arrival
<1>2. ASSUME NEW a \in Actors, AnswerLost(a)
      PROVE  awaited[a] \in Sent /\ Arrival(awaited[a])
  <2>1. awaited[a] \in Sent
    BY <1>2 DEF AnswerLost, Sent, Underway
  <2>2. late' \subseteq Sent /\ Underway' = Underway
    BY <1>2, NotACommand DEF AnswerLost, Sent, Underway, TypeOK
  <2>3. NothingSent
    BY <1>2, <2>2 DEF NothingSent, AnswerLost, TypeOK
  <2>4. Stored(awaited[a]) \subseteq IdsOf(Underway)
    BY <2>1 DEF KeyInv, Stored, IdsOf, Sent
  <2> QED
    BY <1>2, <2>1, <2>2, <2>3, <2>4 DEF AnswerLost, Arrival, Arrive, wallet
<1>3. ASSUME NEW a \in Actors, GiveUp(a)
      PROVE  Dropped
  <2>1. awaited[a] \in Sent
    BY <1>3 DEF GiveUp, Sent, Underway
  <2>2. NothingSent
    BY <1>3, <2>1, NotACommand DEF NothingSent, GiveUp, TypeOK, Sent, Underway
  <2>3. IdsOf(Underway) \subseteq IdsOf(Underway')
    <3>1. Sent \subseteq Underway'
      BY <1>3 DEF GiveUp, Sent, Underway, TypeOK
    <3> QED
      BY <3>1 DEF IdsOf, Sent
  <2> QED
    BY <1>3, <2>2, <2>3 DEF GiveUp, Dropped, KeyInv
<1>4. ASSUME NEW c \in late, CopyArrives(c)
      PROVE  c \in Sent /\ Arrival(c)
  <2>1. c \in Sent
    BY <1>4, NotACommand DEF Sent, Underway, TypeOK
  <2>2. NothingSent
    BY <1>4, NotACommand DEF NothingSent, CopyArrives, TypeOK, Sent, Underway
  <2>3. commands' = Stored(c) \cap IdsOf(Underway')
    BY <1>4 DEF CopyArrives, Remember, Underway
  <2> QED
    BY <1>4, <2>1, <2>2, <2>3 DEF CopyArrives, Arrival, wallet
<1>5. ASSUME NEW c \in late, CopyLost(c)
      PROVE  Dropped
  <2>1. NothingSent
    BY <1>5, NotACommand DEF NothingSent, CopyLost, TypeOK, Sent, Underway
  <2>2. commands' = commands \cap IdsOf(Underway')
    BY <1>5 DEF CopyLost, Remember, Underway
  <2> QED
    BY <1>5, <2>1, <2>2 DEF CopyLost, Dropped
<1> QED
  BY <1>1, <1>2, <1>3, <1>4, <1>5 DEF Next

-----------------------------------------------------------------------------
(* A command is composed.                                                  *)

(* There are finitely many commands under way.                             *)
LEMMA SentFinite ==
    ASSUME TypeOK, IsFiniteSet(late)
    PROVE  IsFiniteSet(Sent)
<1>1. IsFiniteSet(Actors)
  BY FS_AddElement DEF Actors
<1>2. awaited \in [Actors -> Command \cup {NoCommand}] /\ awaited \in Surjection(Actors, Range(awaited))
  BY Fun_RangeProperties DEF TypeOK
<1>3. IsFiniteSet(Range(awaited))
  BY <1>1, <1>2, FS_Surjection
<1>4. Range(awaited) = {awaited[a] : a \in Actors}
  BY <1>2 DEF Range
<1>5. IsFiniteSet(Underway)
  BY <1>3, <1>4, FS_Union DEF Underway
<1> QED
  BY <1>5, FS_Subset DEF Sent

(* A sender has more keys than there are commands under way: one is free.  *)
LEMMA KeyUnused ==
    ASSUME TypeOK, KeyInv, NEW a \in Actors, Cardinality(Sent) < MaxUnderway
    PROVE  \E k \in Keys : k \in Unused(a)
<1> SUFFICES ASSUME \A k \in Keys : <<a, k>> \in IdsOf(Underway)
             PROVE  FALSE
  BY DEF Unused, KeyInv
<1>1. \A k \in Keys : \E c \in Sent : Id(c) = <<a, k>>
  BY DEF IdsOf, Sent, Id
<1> DEFINE f == [k \in Keys |-> CHOOSE c \in Sent : Id(c) = <<a, k>>]
<1>2. f \in [Keys -> Sent] /\ \A k \in Keys : Id(f[k]) = <<a, k>>
  BY <1>1
<1>3. IsFiniteSet(Sent) /\ Cardinality(Sent) \in Nat /\ Cardinality(Keys) \in Nat
  BY SentFinite, FS_CardinalityType DEF KeyInv
<1>4. Cardinality(Sent) < Cardinality(Keys)
  BY <1>3
<1> HIDE DEF f
<1>5. PICK k, l \in Keys : k # l /\ f[k] = f[l]
  BY <1>2, <1>3, <1>4, FS_PigeonHole
<1> QED
  BY <1>2, <1>5

(* What a sender composes: a command about today's request, under a key    *)
(* that no command has.                                                    *)
Composed(a, action, c) ==
    /\ c \in Command /\ c.actor = a /\ c.action = action /\ Id(c) \notin IdsOf(Underway)
    /\ ~Performed(c)
    /\ c.request = filed /\ c.version = request.version
    /\ action # "request" => c.revision = request.revision /\ request.version < MaxVersion
    /\ action = "destination" => request.revision < MaxRevision
    /\ action = "payment-attempts" => c.attempt = attempt.no + 1
    /\ action \in Offered(a) /\ Allowed(c) /\ Honest(action)
    /\ awaited[a] = NoCommand /\ awaited' = [awaited EXCEPT ![a] = c]
    /\ asked' = asked + (IF action = "request" THEN 1 ELSE 0)
    /\ paying' = IF action = "failed" THEN [p \in Payers |-> NotPaying] ELSE paying
    /\ UNCHANGED <<records, commands, late, transfers>>

(* An actor composes a command from what it sees, under a key of its own.  *)
LEMMA SendComposes ==
    ASSUME TypeOK, KeyInv, NEW a \in Actors, NEW withQr \in BOOLEAN,
           NEW action \in Offered(a), Send(a, action, withQr)
    PROVE  \E c : Composed(a, action, c)
<1> DEFINE key == CHOOSE k \in Unused(a) : TRUE
           c == [actor |-> a, key |-> key, action |-> action,
                 request |-> filed, version |-> request.version,
                 revision |-> IF action # "request" THEN request.revision
                              ELSE IF withQr THEN 1 ELSE 0,
                 attempt |-> IF action = "payment-attempts" THEN attempt.no + 1 ELSE attempt.no]
<1>1. key \in Unused(a)
  BY KeyUnused DEF Send, Sent
<1> HIDE DEF key
<1>2. key \in Keys /\ <<a, key>> \notin IdsOf(Underway) /\ <<a, key>> \notin commands
  BY <1>1 DEF Unused
<1>3. action \in {"request", "destination"} \cup Operations
  BY DEF Offered, Operations
<1>4. c \in Command
  BY <1>2, <1>3 DEF Command, TypeOK, Request, Attempt
<1>5. c.actor = a /\ c.key = key
  OBVIOUS
<1>6. /\ awaited[a] = NoCommand /\ action \in Offered(a) /\ Allowed(c) /\ Honest(action)
      /\ action # "request" => request.version < MaxVersion
      /\ action = "destination" => request.revision < MaxRevision
      /\ awaited' = [awaited EXCEPT ![a] = c]
      /\ asked' = asked + (IF action = "request" THEN 1 ELSE 0)
      /\ paying' = IF action = "failed" THEN [p \in Payers |-> NotPaying] ELSE paying
      /\ UNCHANGED <<records, commands, late, transfers>>
  BY DEF Send, key
<1>7. /\ c.action = action /\ c.request = filed /\ c.version = request.version
      /\ action # "request" => c.revision = request.revision
      /\ action = "payment-attempts" => c.attempt = attempt.no + 1
  OBVIOUS
<1> HIDE DEF c
<1>8. Composed(a, action, c)
  BY <1>2, <1>4, <1>5, <1>6, <1>7 DEF Composed, Id, Performed
<1> QED
  BY <1>8

(* It is the only one that is added to what is under way.                  *)
LEMMA OneMore ==
    ASSUME TypeOK, NEW a \in Actors, NEW action, NEW c, Composed(a, action, c)
    PROVE  /\ Sent' = Sent \cup {c} /\ IdsOf(Underway) \subseteq IdsOf(Underway')
           /\ awaited' \in [Actors -> Command \cup {NoCommand}]
           /\ awaited'[a] = c /\ \A b \in Actors : b # a => awaited'[b] = awaited[b]
<1>1. /\ awaited' \in [Actors -> Command \cup {NoCommand}]
      /\ awaited'[a] = c /\ \A b \in Actors : b # a => awaited'[b] = awaited[b]
  BY DEF Composed, TypeOK
<1>2. late' = late /\ awaited[a] = NoCommand /\ c # NoCommand
  BY NotACommand DEF Composed
<1>3. Sent' = Sent \cup {c}
  BY <1>1, <1>2 DEF Sent, Underway
<1> QED
  BY <1>1, <1>3 DEF IdsOf, Sent

-----------------------------------------------------------------------------
(* A command is performed: what the handler makes of the records.          *)

(* The types and the invariants of the records, which have moved on.       *)
Handled ==
    /\ request' \in Request /\ attempt' \in Attempt
    /\ filed' \in Nat /\ verified' \in 0..MaxRevision
    /\ StatusInv' /\ MoneyInv'
    /\ filed' = filed + 1 \/ (filed' = filed /\ request'.version = request.version + 1)

(* A status the request takes on, at its next version.                     *)
LEMMA BecomesType ==
    ASSUME TypeOK, request.version < MaxVersion,
           NEW status \in ActiveRefundStatuses \cup {"paid", "rejected", "withdrawn"}, Become(status)
    PROVE  /\ request' \in Request /\ request'.status = status
           /\ request'.version = request.version + 1 /\ request'.revision = request.revision
           /\ request'.settled = request.settled
<1>1. request.version + 1 \in 0..MaxVersion
  BY DEF TypeOK, Request
<1> QED
  BY <1>1 DEF Become, TypeOK, Request

(* The first handlers work on a request that no attempt is active for.     *)
LEMMA BeforePayment ==
    ASSUME IInv, NEW c \in Sent, Verdict(c) = "performed", UNCHANGED transfers,
           \/ c.action = "request" /\ File(c)
           \/ c.action = "destination" /\ ChangeDestination
           \/ c.action = "review" /\ Review(c)
           \/ c.action = "settle" /\ Settle
           \/ c.action = "close" /\ Close(c)
    PROVE  Handled
<1>1. /\ c \in Command /\ request \in Request /\ attempt \in Attempt /\ filed \in Nat
      /\ verified \in 0..MaxRevision /\ \A t \in transfers : t.request \in Nat
  BY SentAreCommands DEF IInv, TypeOK
<1>2. c.action # "request" =>
        /\ request.version < MaxVersion /\ c.revision = request.revision
        /\ c.action = "destination" => request.revision < MaxRevision
  BY PerformedMeans, <1>1 DEF IInv, FreshInv, Current
<1>3. CASE c.action = "request" /\ File(c)
  <2>1. request' = [status |-> "requested", version |-> 1, revision |-> c.revision, settled |-> FALSE]
        /\ attempt' = NoAttempt /\ filed' = filed + 1 /\ verified' = 0
    BY <1>3 DEF File
  <2>2. request' \in Request /\ attempt' \in Attempt /\ filed' \in Nat /\ verified' \in 0..MaxRevision
    BY <1>1, <2>1 DEF Request, Attempt, NoAttempt, Command, ActiveRefundStatuses, Actors
  <2>3. StatusInv'
    BY <2>1 DEF StatusInv, Outstanding, ActiveAttempt, NoAttempt
  <2>4. \A t \in transfers : t.request < filed'
    BY <1>1, <2>1 DEF IInv, MoneyInv
  <2>5. MoneyInv'
    BY <1>1, <2>1, <2>2, <2>4 DEF IInv, MoneyInv
  <2> QED
    BY <2>1, <2>2, <2>3, <2>5 DEF Handled
<1>4. ASSUME c.action # "request", UNCHANGED <<attempt, filed>>, ~ActiveAttempt,
             request' \in Request, request'.version = request.version + 1, verified' \in 0..MaxRevision,
             request'.status \in {"requested", "reviewed", "approved", "destination_review", "withdrawn", "rejected"},
             request'.status \in {"reviewed", "approved"} => verified' = request'.revision
      PROVE  Handled
  <2>1. StatusInv'
    BY <1>4 DEF StatusInv, Outstanding, ActiveAttempt
  <2>2. MoneyInv'
    BY <1>4 DEF IInv, MoneyInv, ActiveAttempt
  <2> QED
    BY <1>1, <1>4, <2>1, <2>2 DEF Handled
<1>5. request.status \in {"requested", "reviewed", "approved", "destination_review"} => ~ActiveAttempt
  BY <1>1 DEF IInv, StatusInv, Outstanding, ActiveAttempt
<1>6. CASE c.action = "destination" /\ ChangeDestination
  <2>1. request.version + 1 \in 0..MaxVersion /\ request.revision + 1 \in 0..MaxRevision
    BY <1>1, <1>2, <1>6 DEF Request
  <2>2. /\ request' \in Request /\ request'.version = request.version + 1
        /\ request'.status \in {"destination_review", "requested"}
    BY <1>1, <1>6, <2>1 DEF ChangeDestination, Request, ActiveRefundStatuses
  <2> QED
    BY <1>1, <1>4, <1>6, <2>2, PerformedMeans DEF ChangeDestination
<1>7. CASE c.action = "review" /\ Review(c)
  <2>1. /\ request' \in Request /\ request'.version = request.version + 1
        /\ request'.status \in {"approved", "reviewed"} /\ request'.revision = request.revision
    BY <1>2, <1>7, BecomesType DEF Review, IInv, ActiveRefundStatuses
  <2>2. verified' = c.revision /\ verified' \in 0..MaxRevision
    BY <1>1, <1>7 DEF Review, Command
  <2> QED
    BY <1>1, <1>2, <1>4, <1>5, <1>7, <2>1, <2>2, PerformedMeans DEF Review
<1>8. CASE c.action = "settle" /\ Settle
  <2>1. request.version + 1 \in 0..MaxVersion
    BY <1>1, <1>2, <1>8 DEF Request
  <2>2. /\ request' \in Request /\ request'.version = request.version + 1
        /\ request'.status = "approved" /\ request'.revision = request.revision
    BY <1>1, <1>8, <2>1 DEF Settle, Request, ActiveRefundStatuses
  <2>3. request.status = "reviewed" /\ verified = request.revision
    BY <1>1, <1>8, PerformedMeans DEF IInv, StatusInv
  <2> QED
    BY <1>1, <1>4, <1>5, <1>8, <2>2, <2>3 DEF Settle
<1>9. CASE c.action = "close" /\ Close(c)
  <2>1. /\ request' \in Request /\ request'.version = request.version + 1
        /\ request'.status \in {"withdrawn", "rejected"}
    BY <1>2, <1>9, BecomesType DEF Close, IInv, ActiveRefundStatuses
  <2> QED
    BY <1>1, <1>4, <1>5, <1>9, <2>1, PerformedMeans DEF Close
<1> QED
  BY <1>3, <1>6, <1>7, <1>8, <1>9

(* The others are about the attempt to pay.                                *)
LEMMA AroundPayment ==
    ASSUME IInv, NEW c \in Sent, Verdict(c) = "performed", UNCHANGED transfers,
           \/ c.action = "payment-attempts" /\ Reserve(c)
           \/ c.action \in {"unknown", "failed"} /\ Reconcile(c.action)
           \/ c.action = "payments" /\ RecordPayment
    PROVE  Handled
<1>1. /\ c \in Command /\ request \in Request /\ attempt \in Attempt /\ filed \in Nat
      /\ verified \in 0..MaxRevision
  BY SentAreCommands DEF IInv, TypeOK
<1>2. Current(c) /\ request.version < MaxVersion
  BY PerformedMeans, <1>1 DEF IInv, FreshInv, Current
<1>3. c.action \in {"unknown", "failed", "payments"} =>
        /\ Outstanding /\ request.status \in {"payment_in_progress", "payment_unknown"}
        /\ verified = request.revision /\ attempt.revision = request.revision
  BY PerformedMeans, <1>1 DEF MayReconcile, IInv, StatusInv, Outstanding, ActiveAttempt
<1>4. CASE c.action = "payment-attempts" /\ Reserve(c)
  <2>1. Reservable(c) /\ verified = request.revision
    BY <1>1, <1>4, PerformedMeans DEF IInv, StatusInv, Reservable
  <2>2. /\ attempt' = [no |-> attempt.no + 1, status |-> "in_progress",
                       payer |-> c.actor, revision |-> request.revision]
        /\ UNCHANGED <<filed, verified>>
    BY <1>4 DEF Reserve
  <2>3. attempt' \in Attempt
    BY <1>1, <2>2 DEF Attempt, Request, Command
  <2>4. /\ request' \in Request /\ request'.status = "payment_in_progress"
        /\ request'.version = request.version + 1 /\ request'.revision = request.revision
    BY <1>2, <1>4, BecomesType DEF Reserve, IInv, ActiveRefundStatuses
  <2>5. StatusInv'
    BY <2>1, <2>2, <2>4 DEF StatusInv, Outstanding, ActiveAttempt
  <2>6. \A t \in transfers : t.request # filed
    BY <2>1 DEF IInv, MoneyInv, Reservable
  <2>7. MoneyInv'
    BY <2>2, <2>4, <2>6 DEF IInv, MoneyInv
  <2> QED
    BY <1>1, <2>2, <2>3, <2>4, <2>5, <2>7 DEF Handled
<1>5. CASE c.action = "unknown" /\ Reconcile("unknown")
  <2>1. /\ attempt' = [attempt EXCEPT !.status = "unknown"] /\ UNCHANGED <<filed, verified>>
        /\ Become("payment_unknown")
    BY <1>5 DEF Reconcile
  <2>2. /\ attempt' \in Attempt /\ attempt'.status = "unknown" /\ attempt'.no = attempt.no
        /\ attempt'.revision = attempt.revision
    BY <1>1, <2>1 DEF Attempt
  <2>3. /\ request' \in Request /\ request'.status = "payment_unknown"
        /\ request'.version = request.version + 1 /\ request'.revision = request.revision
    BY <1>2, <2>1, BecomesType DEF IInv, ActiveRefundStatuses
  <2>4. StatusInv'
    BY <1>3, <1>5, <2>1, <2>2, <2>3 DEF StatusInv, Outstanding, ActiveAttempt
  <2>5. MoneyInv'
    BY <2>1, <2>2, <2>3 DEF IInv, MoneyInv, ActiveAttempt
  <2> QED
    BY <1>1, <2>1, <2>2, <2>3, <2>4, <2>5 DEF Handled
<1>6. CASE c.action = "failed" /\ Reconcile("failed")
  <2>1. /\ attempt' = [attempt EXCEPT !.status = "failed"] /\ UNCHANGED <<filed, verified>>
        /\ Become("approved")
    BY <1>6 DEF Reconcile
  <2>2. attempt' \in Attempt /\ attempt'.status = "failed"
    BY <1>1, <2>1 DEF Attempt
  <2>3. /\ request' \in Request /\ request'.status = "approved"
        /\ request'.version = request.version + 1 /\ request'.revision = request.revision
    BY <1>2, <2>1, BecomesType DEF IInv, ActiveRefundStatuses
  <2>4. StatusInv'
    BY <1>3, <1>6, <2>1, <2>2, <2>3 DEF StatusInv, Outstanding, ActiveAttempt
  <2>5. ~Moved(attempt.no)
    BY <1>2, <1>6 DEF IInv, FreshInv
  <2>6. \A t \in transfers : t.request # filed
    BY <2>5 DEF IInv, MoneyInv, Moved
  <2>7. MoneyInv'
    BY <2>1, <2>3, <2>6 DEF IInv, MoneyInv
  <2> QED
    BY <1>1, <2>1, <2>2, <2>3, <2>4, <2>7 DEF Handled
<1>7. CASE c.action = "payments" /\ RecordPayment
  <2>1. /\ attempt' = [attempt EXCEPT !.status = "paid"] /\ UNCHANGED <<filed, verified>>
        /\ Become("paid")
    BY <1>7 DEF RecordPayment
  <2>2. /\ attempt' \in Attempt /\ attempt'.status = "paid" /\ attempt'.no = attempt.no
        /\ attempt'.revision = attempt.revision
    BY <1>1, <2>1 DEF Attempt
  <2>3. /\ request' \in Request /\ request'.status = "paid"
        /\ request'.version = request.version + 1 /\ request'.revision = request.revision
    BY <1>2, <2>1, BecomesType DEF IInv
  <2>4. StatusInv'
    BY <1>3, <1>7, <2>1, <2>2, <2>3 DEF StatusInv, Outstanding, ActiveAttempt
  <2>5. Moved(attempt.no)
    BY <1>2, <1>7 DEF IInv, FreshInv
  <2>6. Moved(attempt.no)'
    BY <2>1, <2>2, <2>5 DEF Moved
  <2>7. MoneyInv'
    BY <2>1, <2>2, <2>3, <2>6 DEF IInv, MoneyInv, ActiveAttempt
  <2> QED
    BY <1>1, <2>1, <2>2, <2>3, <2>4, <2>7 DEF Handled
<1> QED
  BY <1>4, <1>5, <1>6, <1>7

(* So is every command that is performed.                                  *)
LEMMA Performing ==
    ASSUME IInv, NEW c \in Sent, Verdict(c) = "performed", Perform(c), UNCHANGED transfers
    PROVE  Handled
BY BeforePayment, AroundPayment DEF Perform

-----------------------------------------------------------------------------
(* Every step keeps the invariant: a command is composed.                  *)

(* What the command says of the request is so when it is composed.         *)
LEMMA SendKeeps ==
    ASSUME IInv, NEW a \in Actors, NEW action, NEW c, Composed(a, action, c)
    PROVE  IInv'
<1> USE DEF IInv
<1>1. /\ Sent' = Sent \cup {c} /\ IdsOf(Underway) \subseteq IdsOf(Underway')
      /\ awaited' \in [Actors -> Command \cup {NoCommand}]
      /\ awaited'[a] = c /\ \A b \in Actors : b # a => awaited'[b] = awaited[b]
  BY OneMore
<1>2. UNCHANGED <<request, attempt, filed, verified, commands, late, transfers>>
  BY DEF Composed, records
<1>3. /\ c \in Command /\ c.actor = a /\ c.action = action /\ ~Performed(c)
      /\ c.request = filed /\ c.version = request.version
  BY DEF Composed
<1>4. \A p \in Payers : paying'[p] \in {paying[p], NotPaying}
  BY DEF Composed
<1>5. TypeOK'
  <2>1. paying' \in [Payers -> [no: Nat, revision: 0..MaxRevision]]
    BY DEF Composed, TypeOK, NotPaying
  <2>2. asked' \in Nat
    BY DEF Composed, TypeOK
  <2> QED
    BY <1>1, <1>2, <2>1, <2>2 DEF TypeOK
<1>6. KeyInv'
  <2>1. \A d \in Sent : Id(d) # Id(c)
    BY DEF Composed, IdsOf, Sent, Id
  <2>2. \A d, e \in Sent' : Id(d) = Id(e) => d = e
    BY <1>1, <2>1 DEF KeyInv
  <2>3. \A b \in Actors : awaited'[b] # NoCommand => awaited'[b].actor = b
    BY <1>1, <1>3 DEF KeyInv
  <2>4. c.action = "payment-attempts" => c.actor \in Payers
    BY <1>3 DEF Composed, Offered, Actors
  <2> QED
    BY <1>1, <1>2, <2>2, <2>3, <2>4 DEF KeyInv
<1>7. FreshInv'
  <2> DEFINE Seen(d) ==
        /\ d.request <= filed' /\ (d.request = filed' => d.version <= request'.version)
        /\ Current(d)' =>
             /\ d.version < MaxVersion /\ d.revision = request'.revision
             /\ d.action = "destination" => d.revision < MaxRevision
             /\ d.action = "payment-attempts" => d.attempt = attempt'.no + 1
             /\ d.action = "payments" => Moved(attempt.no)'
             /\ d.action = "failed" =>
                  /\ Outstanding' /\ ~Moved(attempt.no)' /\ NobodyPays'
                  /\ \A p \in Payers : ~AwaitsReservation(p)'
  <2>1. Seen(c)
    <3>1. filed \in Nat /\ request.version \in Nat
      BY DEF TypeOK, Request
    <3>2. c.action # "request" => c.revision = request.revision /\ c.version < MaxVersion
      BY <1>3 DEF Composed
    <3>3. c.action = "destination" => c.revision < MaxRevision
      BY <1>3 DEF Composed
    <3>4. c.action = "payments" => Moved(attempt.no)
      BY <1>3 DEF Composed, Honest
    <3>5. c.action = "payment-attempts" => c.attempt = attempt.no + 1
      BY <1>3 DEF Composed
    <3>6. c.action = "failed" =>
            /\ Outstanding /\ ~Moved(attempt.no) /\ NobodyPays'
            /\ \A p \in Payers : ~AwaitsReservation(p)'
      <4> SUFFICES ASSUME c.action = "failed"
                   PROVE  /\ Outstanding /\ ~Moved(attempt.no) /\ NobodyPays'
                          /\ \A p \in Payers : ~AwaitsReservation(p)'
        OBVIOUS
      <4>1. Outstanding
        BY <1>3 DEF Composed, Allowed, MayReconcile
      <4>2. ~Moved(attempt.no) /\ \A p \in Payers : ~AwaitsReservation(p)
        BY <1>3 DEF Composed, Honest, AwaitsReservation
      <4>3. NobodyPays'
        BY <1>3 DEF Composed, NobodyPays
      <4>4. \A p \in Payers : awaited'[p] \in {awaited[p], c}
        BY <1>1 DEF Actors
      <4> QED
        BY <4>1, <4>2, <4>3, <4>4 DEF AwaitsReservation
    <3>7. (Outstanding' <=> Outstanding) /\ (Moved(attempt.no)' <=> Moved(attempt.no))
      BY <1>2 DEF Outstanding, Moved
    <3>8. c.request <= filed' /\ c.version <= request'.version
      BY <1>2, <1>3, <3>1
    <3>9. Current(c)' => c.action # "request"
      BY DEF Current
    <3> QED
      BY <1>2, <1>3, <3>2, <3>3, <3>4, <3>5, <3>6, <3>7, <3>8, <3>9
  <2>2. ASSUME NEW d \in Sent
        PROVE  Seen(d)
    <3>1. CASE Current(d) /\ d.action = "failed"
      <4>1. Outstanding /\ NobodyPays /\ \A p \in Payers : ~AwaitsReservation(p)
        BY <3>1, <2>2 DEF FreshInv
      <4>2. c.action # "payment-attempts"
        BY <4>1, <1>3 DEF Composed, Allowed, Reservable, ActiveAttempt, Outstanding
      <4>3. \A p \in Payers : ~AwaitsReservation(p)'
        BY <4>1, <4>2, <1>1 DEF AwaitsReservation, Actors
      <4>4. NobodyPays'
        BY <4>1, <1>4 DEF NobodyPays
      <4> QED
        BY <1>2, <3>1, <2>2, <4>3, <4>4 DEF FreshInv, Moved, Outstanding, Current
    <3>2. CASE ~(Current(d) /\ d.action = "failed")
      BY <1>2, <2>2, <3>2 DEF FreshInv, Moved, Current
    <3> QED
      BY <3>1, <3>2
  <2> QED
    BY <1>1, <2>1, <2>2 DEF FreshInv
<1>8. StatusInv' /\ MoneyInv'
  BY <1>2 DEF StatusInv, MoneyInv, Outstanding, ActiveAttempt, Moved
<1>9. PayInv'
  <2>1. \A p \in Payers : paying'[p] # NotPaying => MayPay(p, paying[p].no, paying[p].revision)'
    BY <1>2, <1>4 DEF PayInv, MayPay, Outstanding, Moved
  <2>2. ASSUME NEW p \in Payers, AwaitsReservation(p)', Performed(awaited[p])'
        PROVE  MayPay(p, awaited[p].attempt, awaited[p].revision)' /\ NobodyPays'
    <3>1. p # a /\ awaited'[p] = awaited[p]
      BY <1>1, <1>2, <1>3, <2>2 DEF Actors, Performed
    <3>2. MayPay(p, awaited[p].attempt, awaited[p].revision) /\ NobodyPays
      BY <1>2, <2>2, <3>1 DEF PayInv, AwaitsReservation, Performed
    <3> QED
      BY <1>2, <1>4, <3>1, <3>2 DEF MayPay, NobodyPays, Outstanding, Moved
  <2> QED
    BY <1>2, <2>1, <2>2 DEF PayInv, Performed
<1> QED
  BY <1>5, <1>6, <1>7, <1>8, <1>9

-----------------------------------------------------------------------------
(* Every step keeps the invariant: what is under way is dropped, the money *)
(* moves, or nothing happens.                                              *)

(* Fewer commands under way keep the keys apart.                           *)
LEMMA KeysKept ==
    ASSUME TypeOK, KeyInv, NothingSent, commands' \subseteq IdsOf(Underway')
    PROVE  KeyInv'
<1>1. Sent' \subseteq Sent
  BY NothingNew
<1>2. IsFiniteSet(late')
  BY SentFinite, FS_Subset DEF NothingSent, KeyInv
<1>3. \A a \in Actors : awaited'[a] # NoCommand => awaited'[a].actor = a
  BY DEF NothingSent, KeyInv
<1> QED
  BY <1>1, <1>2, <1>3 DEF KeyInv

(* A copy that gets lost, or is given up, takes nothing else with it.      *)
LEMMA DropKeeps == ASSUME IInv, Dropped PROVE IInv'
<1> USE DEF IInv
<1>1. UNCHANGED <<request, attempt, filed, verified, paying, transfers, asked>>
  BY DEF Dropped, NothingSent, records, wallet
<1>2. Sent' \subseteq Sent /\ late' \subseteq Command /\ NothingSent
  BY NothingNew DEF Dropped
<1>3. TypeOK'
  BY <1>1, <1>2 DEF TypeOK, NothingSent, Dropped
<1>4. KeyInv'
  BY <1>2, KeysKept DEF Dropped
<1>5. \A p \in Payers : AwaitsReservation(p)' => AwaitsReservation(p) /\ awaited'[p] = awaited[p]
  BY <1>2 DEF NothingSent, AwaitsReservation, NoCommand, Actors
<1>6. FreshInv'
  BY <1>1, <1>2, <1>5 DEF FreshInv, Current, Outstanding, Moved, NobodyPays
<1>7. StatusInv' /\ MoneyInv'
  BY <1>1 DEF StatusInv, MoneyInv, Outstanding, ActiveAttempt, Moved
<1>8. PayInv'
  <2>1. \A p \in Payers : AwaitsReservation(p)' /\ Performed(awaited[p])'
                            => AwaitsReservation(p) /\ Performed(awaited[p])
    BY <1>5 DEF Performed, Dropped
  <2> QED
    BY <1>1, <1>5, <2>1 DEF PayInv, MayPay, Outstanding, Moved, NobodyPays
<1> QED
  BY <1>3, <1>4, <1>6, <1>7, <1>8

(* A payer sends the money: it may, so it is the first to.                 *)
LEMMA TransferKeeps == ASSUME IInv, NEW p \in Payers, Transfer(p) PROVE IInv'
<1> USE DEF IInv
<1> DEFINE sent == [request |-> filed, no |-> paying[p].no, revision |-> paying[p].revision]
<1>1. /\ UNCHANGED <<request, attempt, filed, verified, commands, awaited, late, asked>>
      /\ transfers' = transfers \cup {sent} /\ paying[p] # NotPaying
      /\ paying' = [paying EXCEPT ![p] = NotPaying]
  BY DEF Transfer, records, network
<1>2. /\ Outstanding /\ attempt.payer = p /\ attempt.no = paying[p].no
      /\ attempt.revision = paying[p].revision /\ ~Moved(attempt.no)
  BY <1>1 DEF PayInv, MayPay
<1>3. /\ paying'[p] = NotPaying /\ \A q \in Payers : q # p => paying'[q] = paying[q]
      /\ paying' \in [Payers -> [no: Nat, revision: 0..MaxRevision]]
  BY <1>1 DEF TypeOK, NotPaying
<1>4. /\ sent \in [request: Nat, no: Nat, revision: 0..MaxRevision]
      /\ sent.request = filed /\ sent.no = attempt.no /\ sent.revision = attempt.revision
  BY <1>2 DEF TypeOK
<1>5. verified = attempt.revision /\ ActiveAttempt /\ request.status # "paid"
  BY <1>2 DEF StatusInv, Outstanding, ActiveAttempt
<1>6. \A t \in transfers : t.request # filed
  BY <1>2 DEF MoneyInv, Moved
<1> HIDE DEF sent
<1>7. TypeOK'
  BY <1>1, <1>3, <1>4 DEF TypeOK
<1>8. KeyInv'
  BY <1>1 DEF KeyInv, Sent, Underway
<1>9. Moved(attempt.no)'
  BY <1>1, <1>4 DEF Moved
<1>10. FreshInv'
  <2>1. \A c \in Sent : Current(c) => c.action # "failed"
    BY <1>1 DEF FreshInv, NobodyPays
  <2>2. Sent' = Sent /\ \A c \in Sent : Current(c)' <=> Current(c)
    BY <1>1 DEF Sent, Underway, Current
  <2> QED
    BY <1>1, <1>9, <2>1, <2>2 DEF FreshInv
<1>11. StatusInv'
  BY <1>1 DEF StatusInv, Outstanding, ActiveAttempt
<1>12. MoneyInv'
  <2>1. \A t \in transfers : t.request \in Nat /\ t.request <= filed
    BY DEF MoneyInv, TypeOK
  <2>2. filed \in Nat
    BY DEF TypeOK
  <2>3. \A t \in transfers' :
          /\ t.request <= filed
          /\ t.request = filed => ActiveAttempt /\ t.no = attempt.no /\ t.revision = verified
    BY <1>1, <1>4, <1>5, <1>6, <2>1, <2>2
  <2>4. \A t, u \in transfers' : t.request = u.request => t = u
    BY <1>1, <1>4, <1>6 DEF MoneyInv
  <2> QED
    BY <1>1, <1>5, <2>3, <2>4 DEF MoneyInv, ActiveAttempt
<1>13. PayInv'
  <2>1. \A q \in Payers : paying'[q] = NotPaying
    BY <1>2, <1>3 DEF PayInv, MayPay
  <2>2. \A q \in Payers : ~(AwaitsReservation(q) /\ Performed(awaited[q]))
    BY <1>1 DEF PayInv, NobodyPays
  <2> QED
    BY <1>1, <2>1, <2>2 DEF PayInv, AwaitsReservation, Performed
<1> QED
  BY <1>7, <1>8, <1>10, <1>11, <1>12, <1>13

-----------------------------------------------------------------------------
(* Every step keeps the invariant: a command arrives.                      *)

(* What an arrival does to the network and to the payers.                  *)
LEMMA ArrivalTypes ==
    ASSUME IInv, NEW c \in Sent, Arrival(c)
    PROVE  /\ Sent' \subseteq Sent /\ late' \subseteq Command
           /\ awaited' \in [Actors -> Command \cup {NoCommand}] /\ asked' \in Nat
           /\ commands' \subseteq Actors \X Keys
           /\ paying' \in [Payers -> [no: Nat, revision: 0..MaxRevision]]
           /\ transfers' \subseteq [request: Nat, no: Nat, revision: 0..MaxRevision]
           /\ KeyInv'
           /\ \A p \in Payers : AwaitsReservation(p)' => AwaitsReservation(p) /\ awaited'[p] = awaited[p]
<1> USE DEF IInv
<1>1. NothingSent /\ c \in Command
  BY SentAreCommands DEF Arrival
<1>2. Sent' \subseteq Sent /\ late' \subseteq Command
  BY <1>1, NothingNew
<1>3. commands' \subseteq IdsOf(Underway') /\ commands' \subseteq Actors \X Keys
  BY <1>1 DEF Arrival, Stored, TypeOK, Command
<1>4. KeyInv'
  BY <1>1, <1>3, KeysKept
<1>5. paying' \in [Payers -> [no: Nat, revision: 0..MaxRevision]]
  <2>1. [no |-> c.attempt, revision |-> c.revision] \in [no: Nat, revision: 0..MaxRevision]
    BY <1>1 DEF Command
  <2> QED
    BY <2>1 DEF Arrival, Reserved, TypeOK, KeyInv
<1>6. \A p \in Payers : AwaitsReservation(p)' => AwaitsReservation(p) /\ awaited'[p] = awaited[p]
  BY <1>1 DEF NothingSent, AwaitsReservation, NoCommand, Actors
<1> QED
  BY <1>1, <1>2, <1>3, <1>4, <1>5, <1>6 DEF Arrival, NothingSent, TypeOK

(* A payer hears of a reservation only if it waited for the answer, which  *)
(* was that the command was performed, now or before.                      *)
LEMMA HearsOfReservation ==
    ASSUME IInv, NEW c \in Sent, Arrival(c), ~UNCHANGED paying
    PROVE  /\ c.actor \in Payers /\ awaited[c.actor] = c /\ c.action = "payment-attempts"
           /\ ~AwaitsReservation(c.actor)'
           /\ Verdict(c) = "performed" \/ Performed(c)
           /\ paying' = [paying EXCEPT ![c.actor] = [no |-> c.attempt, revision |-> c.revision]]
<1>1. PICK a \in Actors : c = awaited[a] /\ awaited'[a] = NoCommand /\ Reserved(c)
  BY DEF Arrival
<1>2. c.action = "payment-attempts" /\ Verdict(c) # "refused"
  BY <1>1 DEF Reserved
<1>3. c.actor = a /\ c.actor \in Payers
  BY <1>1, <1>2 DEF IInv, KeyInv, Sent
<1> QED
  BY <1>1, <1>2, <1>3 DEF Reserved, AwaitsReservation, NoCommand, Verdict

(* A command that changes nothing: refused, or performed before.           *)
LEMMA AnsweredKeeps ==
    ASSUME IInv, NEW c \in Sent, Arrival(c), Verdict(c) # "performed"
    PROVE  IInv'
<1> USE DEF IInv
<1>1. UNCHANGED <<request, attempt, filed, verified, transfers>> /\ commands' \subseteq commands
  BY DEF Arrival, Arrive, records, Stored
<1>2. TypeOK'
  BY <1>1, ArrivalTypes DEF TypeOK
<1>3. Sent' \subseteq Sent /\ KeyInv'
      /\ \A p \in Payers : AwaitsReservation(p)' => AwaitsReservation(p) /\ awaited'[p] = awaited[p]
  BY ArrivalTypes
<1>4. StatusInv' /\ MoneyInv'
  BY <1>1 DEF StatusInv, MoneyInv, Outstanding, ActiveAttempt, Moved
<1>5. \A p \in Payers : AwaitsReservation(p)' /\ Performed(awaited[p])'
                          => AwaitsReservation(p) /\ Performed(awaited[p])
  BY <1>1, <1>3 DEF Performed
<1>6. CASE UNCHANGED paying
  <2>1. FreshInv'
    BY <1>1, <1>3, <1>6 DEF FreshInv, Current, Outstanding, Moved, NobodyPays
  <2>2. PayInv'
    BY <1>1, <1>3, <1>5, <1>6 DEF PayInv, MayPay, Outstanding, Moved, NobodyPays
  <2> QED
    BY <1>2, <1>3, <1>4, <2>1, <2>2
<1>7. CASE ~UNCHANGED paying
  <2> DEFINE p == c.actor
  <2>1. /\ p \in Payers /\ awaited[p] = c /\ AwaitsReservation(p) /\ ~AwaitsReservation(p)'
        /\ Performed(c)
        /\ paying' = [paying EXCEPT ![p] = [no |-> c.attempt, revision |-> c.revision]]
    BY <1>7, HearsOfReservation DEF AwaitsReservation
  <2>2. MayPay(p, c.attempt, c.revision) /\ NobodyPays
    BY <2>1 DEF PayInv
  <2> HIDE DEF p
  <2>3. FreshInv'
    <3>1. \A d \in Sent : Current(d) => d.action # "failed"
      BY <2>1 DEF FreshInv
    <3>2. \A d \in Sent : Current(d)' <=> Current(d)
      BY <1>1 DEF Current
    <3>3. Moved(attempt.no)' <=> Moved(attempt.no)
      BY <1>1 DEF Moved
    <3> QED
      BY <1>1, <1>3, <3>1, <3>2, <3>3 DEF FreshInv
  <2>4. \A q \in Payers : paying'[q] # NotPaying =>
          q = p /\ paying'[q].no = c.attempt /\ paying'[q].revision = c.revision
    BY <2>1, <2>2 DEF NobodyPays, TypeOK
  <2>5. \A q \in Payers : AwaitsReservation(q)' /\ Performed(awaited[q])' => FALSE
    BY <1>5, <2>1, <2>2 DEF PayInv, MayPay
  <2>6. MayPay(p, c.attempt, c.revision)'
    BY <1>1, <2>2 DEF MayPay, Outstanding, Moved
  <2>7. PayInv'
    BY <2>4, <2>5, <2>6 DEF PayInv, MayPay
  <2> QED
    BY <1>2, <1>3, <1>4, <2>3, <2>7
<1> QED
  BY <1>6, <1>7

(* A command that is performed leaves no current one under way.            *)
LEMMA PerformedKeeps ==
    ASSUME IInv, NEW c \in Sent, Arrival(c), Verdict(c) = "performed"
    PROVE  IInv'
<1> USE DEF IInv
<1>1. Perform(c) /\ UNCHANGED transfers /\ commands' \subseteq commands \cup {Id(c)} /\ c \in Command
  BY SentAreCommands DEF Arrival, Arrive, Stored, Id
<1>2. Handled
  BY <1>1, Performing
<1>3. TypeOK' /\ StatusInv' /\ MoneyInv'
  BY <1>2, ArrivalTypes DEF TypeOK, Handled
<1>4. Sent' \subseteq Sent /\ KeyInv'
      /\ \A p \in Payers : AwaitsReservation(p)' => AwaitsReservation(p) /\ awaited'[p] = awaited[p]
  BY ArrivalTypes
<1>5. FreshInv'
  <2>1. filed \in Nat /\ request.version \in Nat /\ \A d \in Sent : d.request \in Nat /\ d.version \in Nat
    BY SentAreCommands DEF TypeOK, Request, Command
  <2>2. \A d \in Sent : /\ d.request <= filed' /\ (d.request = filed' => d.version < request'.version)
    BY <1>2, <2>1 DEF Handled, FreshInv
  <2>3. \A d \in Sent : ~Current(d)' /\ (d.request = filed' => d.version <= request'.version)
    <3>1. request'.version \in Nat
      BY <1>2 DEF Handled, Request
    <3> QED
      BY <2>1, <2>2, <3>1 DEF Current
  <2> QED
    BY <1>4, <2>2, <2>3 DEF FreshInv
<1>6. \A p \in Payers : AwaitsReservation(p)' /\ Performed(awaited[p])'
                          => awaited[p] = c \/ (AwaitsReservation(p) /\ Performed(awaited[p]))
  <2>1. \A p \in Payers : AwaitsReservation(p) => awaited[p] \in Sent
    BY DEF AwaitsReservation, NoCommand, Sent, Underway, Actors
  <2> QED
    BY <1>1, <1>4, <2>1 DEF Performed, KeyInv, Id
<1>7. PayInv'
  <2>1. CASE c.action = "payment-attempts"
    <3>1. Reserve(c) /\ Reservable(c) /\ c.attempt = attempt.no + 1 /\ c.revision = request.revision
      BY <1>1, <2>1, PerformedMeans DEF Perform, FreshInv
    <3>2. NobodyPays /\ \A p \in Payers : ~(AwaitsReservation(p) /\ Performed(awaited[p]))
      BY <3>1 DEF PayInv, MayPay, NobodyPays, Reservable, ActiveAttempt, Outstanding
    <3>3. \A t \in transfers' : t.request # filed'
      BY <1>1, <3>1 DEF MoneyInv, Reservable, Reserve
    <3>4. MayPay(c.actor, c.attempt, c.revision)'
      BY <3>1, <3>3 DEF Reserve, MayPay, Outstanding, Moved
    <3>5. CASE UNCHANGED paying
      <4>1. NobodyPays'
        BY <3>2, <3>5 DEF NobodyPays
      <4>2. \A p \in Payers : awaited[p] = c /\ AwaitsReservation(p) => p = c.actor
        BY DEF KeyInv, AwaitsReservation, NoCommand, Actors
      <4>3. ASSUME NEW p \in Payers, AwaitsReservation(p)', Performed(awaited[p])'
            PROVE  MayPay(p, awaited[p].attempt, awaited[p].revision)'
        <5>1. awaited[p] = c /\ p = c.actor /\ awaited'[p] = c
          BY <1>4, <1>6, <3>2, <4>2, <4>3
        <5> QED
          BY <3>4, <5>1 DEF MayPay
      <4> QED
        BY <4>1, <4>3 DEF PayInv, NobodyPays
    <3>6. CASE ~UNCHANGED paying
      <4>1. /\ c.actor \in Payers /\ ~AwaitsReservation(c.actor)'
            /\ paying' = [paying EXCEPT ![c.actor] = [no |-> c.attempt, revision |-> c.revision]]
        BY <3>6, HearsOfReservation
      <4>2. \A q \in Payers : paying'[q] # NotPaying =>
              q = c.actor /\ paying'[q].no = c.attempt /\ paying'[q].revision = c.revision
        BY <3>2, <4>1 DEF NobodyPays, TypeOK
      <4>3. \A p \in Payers : awaited[p] = c /\ AwaitsReservation(p) => p = c.actor
        BY DEF KeyInv, AwaitsReservation, NoCommand, Actors
      <4>4. \A q \in Payers : ~(AwaitsReservation(q)' /\ Performed(awaited[q])')
        BY <1>4, <1>6, <3>2, <4>1, <4>3
      <4> QED
        BY <3>4, <4>2, <4>4 DEF PayInv, MayPay
    <3> QED
      BY <3>5, <3>6
  <2>2. CASE c.action # "payment-attempts"
    <3>1. UNCHANGED paying
      BY <2>2, HearsOfReservation
    <3>2. \A p \in Payers : AwaitsReservation(p)' /\ Performed(awaited[p])'
                              => AwaitsReservation(p) /\ Performed(awaited[p]) /\ awaited'[p] = awaited[p]
      BY <1>4, <1>6, <2>2 DEF AwaitsReservation
    <3>3. ASSUME NEW p \in Payers, NEW no, NEW revision, MayPay(p, no, revision),
                 ~NobodyPays \/ AwaitsReservation(p)
          PROVE  MayPay(p, no, revision)'
      <4>1. request.status \in {"payment_in_progress", "payment_unknown"} /\ Outstanding /\ ~Moved(attempt.no)
        BY <3>3 DEF MayPay, StatusInv
      <4>2. c.action \in {"unknown", "failed", "payments"}
        BY <1>1, <2>2, <4>1, PerformedMeans DEF Command, Operations, ActiveRefundStatuses
      <4>3. c.action = "unknown"
        BY <1>1, <3>3, <4>1, <4>2, PerformedMeans DEF FreshInv
      <4>4. Reconcile("unknown")
        BY <1>1, <4>3 DEF Perform
      <4>5. /\ attempt' = [attempt EXCEPT !.status = "unknown"] /\ attempt \in Attempt
            /\ filed' = filed
        BY <4>4 DEF Reconcile, TypeOK
      <4>6. /\ attempt'.status = "unknown" /\ attempt'.payer = attempt.payer
            /\ attempt'.no = attempt.no /\ attempt'.revision = attempt.revision
        BY <4>5 DEF Attempt
      <4> QED
        BY <1>1, <3>3, <4>5, <4>6 DEF MayPay, Outstanding, Moved
    <3>4. \A p \in Payers : paying[p] # NotPaying => MayPay(p, paying[p].no, paying[p].revision)'
      BY <3>1, <3>3 DEF PayInv, NobodyPays
    <3>5. \A p \in Payers : AwaitsReservation(p)' /\ Performed(awaited[p])' =>
            MayPay(p, awaited[p].attempt, awaited[p].revision)' /\ NobodyPays'
      <4> SUFFICES ASSUME NEW p \in Payers, AwaitsReservation(p)', Performed(awaited[p])'
                   PROVE  MayPay(p, awaited[p].attempt, awaited[p].revision)' /\ NobodyPays'
        OBVIOUS
      <4>1. AwaitsReservation(p) /\ Performed(awaited[p]) /\ awaited'[p] = awaited[p]
        BY <3>2
      <4>2. MayPay(p, awaited[p].attempt, awaited[p].revision) /\ NobodyPays
        BY <4>1 DEF PayInv
      <4> DEFINE no == awaited[p].attempt
                 revision == awaited[p].revision
      <4>3. no' = no /\ revision' = revision
        BY <4>1
      <4> HIDE DEF no, revision
      <4>4. MayPay(p, no, revision)'
        BY <3>3, <4>1, <4>2, <4>3 DEF no, revision, MayPay
      <4> QED
        BY <3>1, <4>2, <4>4 DEF NobodyPays, no, revision
    <3> QED
      BY <3>1, <3>4, <3>5 DEF PayInv
  <2> QED
    BY <2>1, <2>2
<1> QED
  BY <1>3, <1>4, <1>5, <1>7

-----------------------------------------------------------------------------
(* The theorems.                                                           *)

(* The invariant holds at the start.                                       *)
LEMMA Initially == Init => IInv
<1> SUFFICES ASSUME Init PROVE IInv
  OBVIOUS
<1>1. /\ Underway = {NoCommand} /\ Sent = {} /\ IdsOf(Underway) = {}
      /\ \A a \in Actors : awaited[a] = NoCommand
  BY DEF Init, Underway, Sent, IdsOf, Actors
<1>2. TypeOK
  <2>1. NoRequest \in Request /\ NoAttempt \in Attempt
    BY DEF Request, Attempt, NoRequest, NoAttempt, Actors
  <2>2. NotPaying \in [no: Nat, revision: 0..MaxRevision]
    BY DEF NotPaying
  <2>3. /\ awaited \in [Actors -> Command \cup {NoCommand}]
        /\ paying \in [Payers -> [no: Nat, revision: 0..MaxRevision]]
    BY <2>2 DEF Init
  <2>4. /\ filed \in Nat /\ verified \in 0..MaxRevision /\ asked \in Nat
        /\ commands = {} /\ late = {} /\ transfers = {}
    BY DEF Init
  <2> QED
    BY <2>1, <2>3, <2>4 DEF Init, TypeOK
<1>3. KeyInv /\ FreshInv
  BY <1>1, FS_EmptySet DEF Init, KeyInv, FreshInv
<1>4. StatusInv /\ MoneyInv
  BY DEF Init, StatusInv, MoneyInv, NoRequest, NoAttempt, Outstanding, ActiveAttempt
<1>5. PayInv
  BY <1>1 DEF Init, PayInv, AwaitsReservation, NoCommand, Actors
<1> QED
  BY <1>2, <1>3, <1>4, <1>5 DEF IInv

(* Every step keeps it.                                                    *)
LEMMA Inductive == ASSUME IInv, [Next]_vars PROVE IInv'
<1>1. CASE UNCHANGED vars
  BY <1>1 DEF vars, records, network, wallet, IInv, TypeOK, KeyInv, FreshInv, StatusInv, MoneyInv,
         PayInv, Sent, Underway, Current, MayPay, Outstanding, ActiveAttempt, Moved, NobodyPays,
         AwaitsReservation, Performed
<1>2. ASSUME NEW a \in Actors, NEW withQr \in BOOLEAN, NEW action \in Offered(a),
             Send(a, action, withQr)
      PROVE  IInv'
  BY <1>2, SendComposes, SendKeeps DEF IInv
<1>3. ASSUME NEW c \in Sent, Arrival(c)
      PROVE  IInv'
  BY <1>3, AnsweredKeeps, PerformedKeeps
<1> QED
  BY <1>1, <1>2, <1>3, DropKeeps, TransferKeeps, StepKinds DEF IInv

(* The inductive invariant holds of every reachable state.                 *)
LEMMA Invariant == Spec => []IInv
BY Initially, Inductive, PTL DEF Spec

(* Every state has its declared types.                                     *)
THEOREM TypeCorrect == Spec => []TypeOK
<1>1. IInv => TypeOK
  BY DEF IInv
<1> QED
  BY <1>1, Invariant, PTL

(* Whatever commands are lost, repeated or late, the money of a request    *)
(* moves once, to the QR that was reviewed last, and what is recorded as   *)
(* paid was.                                                               *)
THEOREM MoneyMovesOnce == Spec => []RefundsReachTheClientOnce
<1>1. IInv => RefundsReachTheClientOnce
  BY DEF IInv, MoneyInv, RefundsReachTheClientOnce
<1> QED
  BY <1>1, Invariant, PTL

(* The requests the client decided to file and the server has not heard of.*)
Unfiled == {c \in Sent : c.action = "request" /\ ~Performed(c)}
AskedInv == filed + Cardinality(Unfiled) <= asked

(* Dropping or performing commands makes them no more.                     *)
LEMMA FewerUnfiled ==
    ASSUME IInv, NothingSent, NEW c, commands' = Stored(c) \cap IdsOf(Underway')
    PROVE  /\ Unfiled' \subseteq Unfiled
           /\ Verdict(c) = "performed" => c \notin Unfiled'
<1>1. Sent' \subseteq Sent
  BY NothingNew DEF IInv
<1>2. \A d \in Sent' : Id(d) \in IdsOf(Underway')
  BY DEF Sent, IdsOf, Id
<1>3. \A d \in Sent' : Performed(d)' <=> Id(d) \in Stored(c)
  BY <1>2 DEF Performed, Id
<1> QED
  BY <1>1, <1>3 DEF Unfiled, Stored, Performed, Id

(* A request exists at most for each time the client decided to file one,  *)
(* although the command carries no version.                                *)
THEOREM FiledAsAsked == Spec => []RefundsWereAskedFor
<1>1. Init => AskedInv
  <2>1. Init => Unfiled = {}
    BY DEF Init, Unfiled, Sent, Underway, Actors
  <2> QED
    BY <2>1, FS_EmptySet DEF Init, AskedInv
<1>2. IInv => IsFiniteSet(Unfiled) /\ Cardinality(Unfiled) \in Nat /\ filed \in Nat /\ asked \in Nat
  BY SentFinite, FS_Subset, FS_CardinalityType DEF IInv, KeyInv, Unfiled, TypeOK
<1>3. ASSUME IInv, AskedInv, [Next]_vars
      PROVE  AskedInv'
  <2>1. /\ IsFiniteSet(Unfiled) /\ Cardinality(Unfiled) \in Nat /\ filed \in Nat /\ asked \in Nat
    BY <1>2, <1>3
  <2>2. ASSUME Unfiled' \subseteq Unfiled, filed' = filed, asked' = asked
        PROVE  AskedInv'
    <3>1. Cardinality(Unfiled') <= Cardinality(Unfiled) /\ Cardinality(Unfiled') \in Nat
      BY <2>1, <2>2, FS_Subset, FS_CardinalityType
    <3> QED
      BY <1>3, <2>1, <2>2, <3>1 DEF AskedInv
  <2>3. ASSUME NEW a \in Actors, NEW withQr \in BOOLEAN, NEW action \in Offered(a),
               Send(a, action, withQr)
        PROVE  AskedInv'
    <3>1. PICK c : Composed(a, action, c)
      BY <1>3, <2>3, SendComposes DEF IInv
    <3>2. Sent' = Sent \cup {c} /\ UNCHANGED <<commands, filed>> /\ c.action = action
      <4>1. TypeOK
        BY <1>3 DEF IInv
      <4>2. Sent' = Sent \cup {c}
        BY <3>1, <4>1, OneMore
      <4> QED
        BY <3>1, <4>2 DEF Composed, records
    <3>3. CASE action = "request"
      <4>1. Unfiled' \subseteq Unfiled \cup {c} /\ asked' = asked + 1
        BY <3>1, <3>2, <3>3 DEF Unfiled, Performed, Composed
      <4>2. /\ IsFiniteSet(Unfiled \cup {c}) /\ Cardinality(Unfiled \cup {c}) \in Nat
            /\ Cardinality(Unfiled \cup {c}) <= Cardinality(Unfiled) + 1
        <5>1. IsFiniteSet(Unfiled \cup {c})
          BY <2>1, FS_AddElement
        <5>2. Cardinality(Unfiled \cup {c}) \in {Cardinality(Unfiled), Cardinality(Unfiled) + 1}
          BY <2>1, FS_AddElement
        <5> QED
          BY <2>1, <5>1, <5>2
      <4>3. Cardinality(Unfiled') <= Cardinality(Unfiled \cup {c}) /\ Cardinality(Unfiled') \in Nat
        BY <4>1, <4>2, FS_Subset, FS_CardinalityType
      <4> QED
        BY <1>3, <2>1, <3>2, <4>1, <4>2, <4>3 DEF AskedInv
    <3>4. CASE action # "request"
      <4>1. Unfiled' \subseteq Unfiled /\ asked' = asked
        BY <2>1, <3>1, <3>2, <3>4 DEF Unfiled, Performed, Composed
      <4> QED
        BY <2>2, <3>2, <4>1
    <3> QED
      BY <3>3, <3>4
  <2>4. ASSUME NEW c \in Sent, Arrival(c)
        PROVE  AskedInv'
    <3>1. /\ Unfiled' \subseteq Unfiled /\ asked' = asked
          /\ Verdict(c) = "performed" => c \notin Unfiled'
      BY <1>3, <2>4, FewerUnfiled DEF Arrival, NothingSent
    <3>2. CASE Verdict(c) = "performed" /\ c.action = "request"
      <4>1. c \in Unfiled /\ filed' = filed + 1
        BY <2>4, <3>2, PerformedMeans, SentAreCommands, <1>3
           DEF Arrival, Arrive, Perform, File, Unfiled, IInv
      <4>2. Unfiled' \subseteq Unfiled \ {c}
        BY <3>1, <3>2
      <4>3. /\ IsFiniteSet(Unfiled \ {c})
            /\ Cardinality(Unfiled \ {c}) = Cardinality(Unfiled) - 1
        BY <2>1, <4>1, FS_RemoveElement
      <4>4. Cardinality(Unfiled') <= Cardinality(Unfiled) - 1 /\ Cardinality(Unfiled') \in Nat
        BY <4>2, <4>3, FS_Subset, FS_CardinalityType
      <4> QED
        BY <1>3, <2>1, <3>1, <4>1, <4>4 DEF AskedInv
    <3>3. CASE ~(Verdict(c) = "performed" /\ c.action = "request")
      <4>1. filed' = filed
        BY <2>4, <3>3 DEF Arrival, Arrive, Perform, ChangeDestination, Review, Settle, Close,
               Reserve, Reconcile, RecordPayment, records
      <4> QED
        BY <2>2, <3>1, <4>1
    <3> QED
      BY <3>2, <3>3
  <2>5. CASE Dropped
    <3>1. Unfiled' \subseteq Unfiled
      <4>1. Sent' \subseteq Sent
        BY <1>3, <2>5, NothingNew DEF IInv, Dropped
      <4>2. \A d \in Sent' : Id(d) \in IdsOf(Underway')
        BY DEF Sent, IdsOf, Id
      <4> QED
        BY <2>5, <4>1, <4>2 DEF Dropped, Unfiled, Performed, Id
    <3> QED
      BY <2>2, <2>5, <3>1 DEF Dropped, NothingSent, records
  <2>6. ASSUME NEW p \in Payers, Transfer(p)
        PROVE  AskedInv'
    BY <2>2, <2>6 DEF Transfer, Unfiled, Sent, Underway, Performed, records, network
  <2>7. CASE UNCHANGED vars
    BY <2>2, <2>7 DEF vars, Unfiled, Sent, Underway, Performed, records, network
  <2> QED
    BY <1>3, <2>3, <2>4, <2>5, <2>6, <2>7, StepKinds DEF IInv
<1>4. IInv /\ AskedInv => RefundsWereAskedFor
  <2> SUFFICES ASSUME IInv, AskedInv PROVE filed <= asked
    BY DEF RefundsWereAskedFor
  <2> QED
    BY <1>2 DEF AskedInv
<1>5. IInv /\ AskedInv /\ [Next]_vars => AskedInv'
  BY <1>3
<1> QED
  BY <1>1, <1>4, <1>5, Invariant, PTL DEF Spec
=============================================================================
