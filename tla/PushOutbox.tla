----------------------------- MODULE PushOutbox -----------------------------
(***************************************************************************)
(* The push outbox: src/src/push-outbox.js and its callers in server.js.   *)
(*                                                                         *)
(* save() commits a row for every device a notification goes to and asks   *)
(* this replica to drain the table; the lifecycle tick asks again.  A drain*)
(* claims due rows under a lease of five minutes, sends them and records a *)
(* verdict.  Replicas share nothing but the table.  Every query is one     *)
(* step, and so is the local work up to the next `await`; replicas crash,  *)
(* queries fail, and time only shows in two flags of a row: its            *)
(* next_attempt_at has come (due), its expires_at has come (overdue).      *)
(***************************************************************************)
EXTENDS Integers, FiniteSets

CONSTANTS
    Replicas,     \* processes of the server
    Rows,         \* notification_push_outbox rows, each with its own device
    MaxAttempts,  \* 8 in outboxVerdict
    BatchSize,    \* LIMIT 25
    MaxFaults,    \* bound: crashes and failed queries
    MaxOutlived   \* bound: leases that lapse while their owner still works

ASSUME OutboxAssumption ==
    /\ MaxAttempts \in Nat \ {0}
    /\ BatchSize \in Nat \ {0}
    /\ MaxFaults \in Nat
    /\ MaxOutlived \in Nat

VARIABLES
    status,     \* of the row, "absent" before its commit, "gone" with its device
    attempts,   \* of the row
    due,        \* next_attempt_at <= now()
    overdue,    \* expires_at <= now()
    addressed,  \* the device still belongs to the user the row is for
    phase,      \* what the drain of a replica is at; "idle" is not busy
    again,      \* the replica's drain was asked for one more pass
    failed,     \* a query of the replica's batch has failed
    snapshot,   \* the rows still addressed in the store of this batch
    job,        \* the replica's work on a row of its batch
    unkicked,   \* rows a replica committed and has not yet drained for
    asked,      \* history: rows a drain of the replica was asked for
    faults,     \* history: crashes and failed queries
    outlived    \* history: leases that lapsed while their owner still worked

table == <<status, attempts, due, overdue>>
drain == <<phase, again, failed, snapshot>>
kicks == <<unkicked, asked>>
history == <<faults, outlived>>
vars == <<table, addressed, drain, job, kicks, history>>

Waiting == {"pending", "sending"}
Final == {"delivered", "suppressed", "expired", "failed"}
Results == {"ok", "prune", "error"}
Phases == {"idle", "expiring", "claiming", "loading", "sending", "finishing"}

(* A job: how far processRow is with the row, the `attempts` it claimed    *)
(* the row with, the status it will record and whether it will prune.      *)
(* History: its lease lapsed after its send began (lapsed); the device has *)
(* not been the user's since before the claim (barred).                    *)
Stages == {"none", "queued", "sending", "answered", "pruning"}
NoJob == [stage |-> "none", attempt |-> 0, verdict |-> "suppressed",
          prune |-> FALSE, lapsed |-> FALSE, barred |-> FALSE]
Working(p, r) == job[p][r].stage # "none"

(* The replica has yet to record the latest attempt of the row.            *)
Owns(p, r) ==
    /\ job[p][r].stage \in {"queued", "sending", "answered"}
    /\ job[p][r].attempt = attempts[r]
(* `WHERE id=$1 AND status='sending' AND attempts=$2`.  The mutant drops   *)
(* the attempt.                                                            *)
AnyAttempt(p, r) == status[r] = "sending"
LeaseHeld(p, r) == status[r] = "sending" /\ job[p][r].attempt = attempts[r]

Init ==
    /\ status = [r \in Rows |-> "absent"]
    /\ attempts = [r \in Rows |-> 0]
    /\ due = [r \in Rows |-> FALSE]
    /\ overdue = [r \in Rows |-> FALSE]
    /\ addressed = [r \in Rows |-> TRUE]
    /\ phase = [p \in Replicas |-> "idle"]
    /\ again = [p \in Replicas |-> FALSE]
    /\ failed = [p \in Replicas |-> FALSE]
    /\ snapshot = [p \in Replicas |-> {}]
    /\ job = [p \in Replicas |-> [r \in Rows |-> NoJob]]
    /\ unkicked = [p \in Replicas |-> {}]
    /\ asked = [p \in Replicas |-> {}]
    /\ faults = 0
    /\ outlived = 0

-----------------------------------------------------------------------------
(* Asking for a drain.                                                     *)

(* save() writes the row inside the mutation and registers the kick, which *)
(* runs once the mutation has committed.                                   *)
Commit(p, r) ==
    /\ status[r] = "absent"
    /\ addressed[r]
    /\ status' = [status EXCEPT ![r] = "pending"]
    /\ due' = [due EXCEPT ![r] = TRUE]
    /\ unkicked' = [unkicked EXCEPT ![p] = @ \cup {r}]
    /\ UNCHANGED <<attempts, overdue, addressed, drain, job, asked, history>>

(* drain(): single flight, a busy replica is asked for one more pass.      *)
Drain(p) ==
    /\ phase' = [phase EXCEPT ![p] = IF @ = "idle" THEN "expiring" ELSE @]
    /\ again' = [again EXCEPT ![p] = phase[p] # "idle"]
    /\ UNCHANGED <<failed, snapshot>>

Kick(p, r) ==
    /\ r \in unkicked[p]
    /\ Drain(p)
    /\ unkicked' = [unkicked EXCEPT ![p] = @ \ {r}]
    /\ asked' = [asked EXCEPT ![p] = @ \cup {r}]
    /\ UNCHANGED <<table, addressed, job, history>>

(* runLifecycleWork reaches drainPushOutbox.                               *)
Tick(p) ==
    /\ Drain(p)
    /\ UNCHANGED <<table, addressed, job, kicks, history>>

-----------------------------------------------------------------------------
(* drainOnce.                                                              *)

ExpireRows(p) ==
    /\ phase[p] = "expiring"
    /\ phase' = [phase EXCEPT ![p] = "claiming"]
    /\ status' = [r \in Rows |->
          IF status[r] \in Waiting /\ overdue[r] THEN "expired" ELSE status[r]]
    /\ UNCHANGED <<attempts, due, overdue, addressed, again, failed, snapshot,
                   job, kicks, history>>

(* The mutant forgets the rows of a replica that crashed.                  *)
ClaimablePendingOnly(r) == status[r] = "pending" /\ due[r] /\ ~overdue[r]
Claimable(r) == status[r] \in Waiting /\ due[r] /\ ~overdue[r]

(* One statement under the claim lock.  A row that another replica is just *)
(* writing is locked, and skipped.                                         *)
Claim(p) ==
    /\ phase[p] = "claiming"
    /\ \E batch \in SUBSET {r \in Rows : Claimable(r)} :
          /\ batch # {}
          /\ Cardinality(batch) <= BatchSize
          /\ status' = [r \in Rows |-> IF r \in batch THEN "sending" ELSE status[r]]
          /\ attempts' = [r \in Rows |->
                IF r \in batch THEN attempts[r] + 1 ELSE attempts[r]]
          /\ due' = [r \in Rows |-> due[r] /\ r \notin batch]
          /\ job' = [job EXCEPT ![p] = [r \in Rows |->
                IF r \in batch
                THEN [NoJob EXCEPT !.stage = "queued", !.attempt = attempts[r] + 1,
                                   !.barred = ~addressed[r]]
                ELSE NoJob]]
    /\ phase' = [phase EXCEPT ![p] = "loading"]
    /\ UNCHANGED <<overdue, addressed, again, failed, snapshot, kicks, history>>

(* A claim that finds nothing it can lock.                                 *)
NothingToClaim(p) ==
    /\ phase[p] = "claiming"
    /\ \A r \in Rows : Claimable(r) => \E q \in Replicas : Working(q, r)
    /\ phase' = [phase EXCEPT ![p] = "finishing"]
    /\ UNCHANGED <<table, addressed, again, failed, snapshot, job, kicks, history>>

(* Its answer is back: the pass is over, and so is the drain unless it was *)
(* asked for another meanwhile.  The mutant forgets that it was.           *)
OverRegardless(p) == "idle"
AfterPass(p) == IF again[p] THEN "expiring" ELSE "idle"
PassEnds(p) ==
    /\ phase[p] = "finishing"
    /\ phase' = [phase EXCEPT ![p] = AfterPass(p)]
    /\ again' = [again EXCEPT ![p] = FALSE]
    /\ snapshot' = [snapshot EXCEPT ![p] = IF again[p] THEN @ ELSE {}]
    /\ UNCHANGED <<table, addressed, failed, job, kicks, history>>

(* loadStore: one snapshot per claimed batch, read after the claim.  The   *)
(* mutant reads one for the whole drain.                                   *)
SnapshotOfDrain(p) ==
    IF snapshot[p] = {} THEN {r \in Rows : addressed[r]} ELSE snapshot[p]
SnapshotOfBatch(p) == {r \in Rows : addressed[r]}
LoadStore(p) ==
    /\ phase[p] = "loading"
    /\ phase' = [phase EXCEPT ![p] = "sending"]
    /\ snapshot' = [snapshot EXCEPT ![p] = SnapshotOfBatch(p)]
    /\ UNCHANGED <<table, addressed, again, failed, job, kicks, history>>

(* Every worker has run out of rows, or has failed and left its rows.      *)
AllSettled(p) ==
    \A r \in Rows : Working(p, r) => failed[p] /\ job[p][r].stage = "queued"
BatchEnds(p) ==
    /\ phase[p] = "sending"
    /\ AllSettled(p)
    /\ phase' = [phase EXCEPT ![p] = IF failed[p] THEN "idle" ELSE "claiming"]
    /\ again' = [again EXCEPT ![p] = @ /\ ~failed[p]]
    /\ failed' = [failed EXCEPT ![p] = FALSE]
    /\ snapshot' = [snapshot EXCEPT ![p] = IF failed[p] THEN {} ELSE @]
    /\ job' = [job EXCEPT ![p] = [r \in Rows |->
                  IF @[r].stage = "queued" THEN NoJob ELSE @[r]]]
    /\ asked' = [asked EXCEPT ![p] = IF failed[p] THEN {} ELSE @]
    /\ UNCHANGED <<table, addressed, unkicked, history>>

-----------------------------------------------------------------------------
(* processRow, which ten workers run on the rows of a batch.               *)

JobBecomes(p, r, next) == job' = [job EXCEPT ![p][r] = next]

(* Renewing the lease: an attempt that another has overtaken is dropped.   *)
(* Then the recheck against the snapshot, and the send starts.  The mutant *)
(* does not look whether the lease was renewed.                            *)
AlwaysRenewed(p, r) == TRUE
Renewed(p, r) == LeaseHeld(p, r)
StartSend(p, r) ==
    /\ phase[p] = "sending"
    /\ job[p][r].stage = "queued"
    /\ due' = [due EXCEPT ![r] = @ /\ ~LeaseHeld(p, r)]
    /\ JobBecomes(p, r,
          IF ~Renewed(p, r) THEN NoJob
          ELSE IF r \in snapshot[p] THEN [job[p][r] EXCEPT !.stage = "sending"]
          ELSE [job[p][r] EXCEPT !.stage = "answered"])
    /\ UNCHANGED <<status, attempts, overdue, addressed, drain, kicks, history>>

(* outboxVerdict                                                           *)
OutOfAttempts(n) == n >= MaxAttempts
Verdict(r, result, attempt) ==
    CASE overdue[r] -> "expired"
      [] ~overdue[r] /\ result = "ok" -> "delivered"
      [] ~overdue[r] /\ result = "prune" -> "suppressed"
      [] ~overdue[r] /\ result = "error" ->
            IF OutOfAttempts(attempt) THEN "failed" ELSE "pending"

(* The transport answers, at the latest with its timeout.                  *)
Answer(p, r, result) ==
    /\ job[p][r].stage = "sending"
    /\ JobBecomes(p, r, [job[p][r] EXCEPT
          !.stage = "answered",
          !.verdict = Verdict(r, result, job[p][r].attempt),
          !.prune = (result = "prune")])
    /\ UNCHANGED <<table, addressed, drain, kicks, history>>

Recordable(p, r) == LeaseHeld(p, r)
Record(p, r) ==
    /\ job[p][r].stage = "answered"
    /\ IF Recordable(p, r)
       THEN /\ status' = [status EXCEPT ![r] = job[p][r].verdict]
            /\ due' = [due EXCEPT ![r] = FALSE]
       ELSE UNCHANGED <<status, due>>
    /\ JobBecomes(p, r, IF job[p][r].prune
                        THEN [job[p][r] EXCEPT !.stage = "pruning"] ELSE NoJob)
    /\ UNCHANGED <<attempts, overdue, addressed, drain, kicks, history>>

(* The transport says the device is gone: its registration is deleted, if  *)
(* it is still the user's, and its rows go with it (ON DELETE CASCADE).    *)
Prune(p, r) ==
    /\ job[p][r].stage = "pruning"
    /\ status' = [status EXCEPT ![r] = IF addressed[r] THEN "gone" ELSE @]
    /\ JobBecomes(p, r, NoJob)
    /\ UNCHANGED <<attempts, due, overdue, addressed, drain, kicks, history>>

-----------------------------------------------------------------------------
(* What goes wrong, and time.                                              *)

(* A query of the drain itself fails: it rejects, and nothing is retried   *)
(* before the tick.                                                        *)
DrainFails(p) ==
    /\ faults < MaxFaults
    /\ phase[p] \in {"expiring", "claiming", "loading", "finishing"}
    /\ phase' = [phase EXCEPT ![p] = "idle"]
    /\ again' = [again EXCEPT ![p] = FALSE]
    /\ snapshot' = [snapshot EXCEPT ![p] = {}]
    /\ job' = [job EXCEPT ![p] = [r \in Rows |-> NoJob]]
    /\ asked' = [asked EXCEPT ![p] = {}]
    /\ faults' = faults + 1
    /\ UNCHANGED <<table, addressed, failed, unkicked, outlived>>

(* A query of one row fails: its worker stops, the others go on, and the   *)
(* drain rejects when they are done.                                       *)
RowFails(p, r) ==
    /\ faults < MaxFaults
    /\ phase[p] = "sending"
    /\ job[p][r].stage \in {"queued", "answered", "pruning"}
    /\ JobBecomes(p, r, NoJob)
    /\ failed' = [failed EXCEPT ![p] = TRUE]
    /\ faults' = faults + 1
    /\ UNCHANGED <<table, addressed, phase, again, snapshot, kicks, outlived>>

Crash(p) ==
    /\ faults < MaxFaults
    /\ phase' = [phase EXCEPT ![p] = "idle"]
    /\ again' = [again EXCEPT ![p] = FALSE]
    /\ failed' = [failed EXCEPT ![p] = FALSE]
    /\ snapshot' = [snapshot EXCEPT ![p] = {}]
    /\ job' = [job EXCEPT ![p] = [r \in Rows |-> NoJob]]
    /\ unkicked' = [unkicked EXCEPT ![p] = {}]
    /\ asked' = [asked EXCEPT ![p] = {}]
    /\ faults' = faults + 1
    /\ UNCHANGED <<table, addressed, outlived>>

(* A retry comes due, or the lease of an attempt nobody works on lapses.   *)
BecomesDue(r) ==
    /\ status[r] \in Waiting
    /\ ~due[r]
    /\ \A p \in Replicas : ~Owns(p, r)
    /\ due' = [due EXCEPT ![r] = TRUE]
    /\ UNCHANGED <<status, attempts, overdue, addressed, drain, job, kicks, history>>

(* The lease of a stalled replica lapses under its work.                   *)
LeaseOutlived(r) ==
    /\ outlived < MaxOutlived
    /\ status[r] = "sending"
    /\ ~due[r]
    /\ \E p \in Replicas : Owns(p, r)
    /\ due' = [due EXCEPT ![r] = TRUE]
    /\ outlived' = outlived + 1
    /\ job' = [p \in Replicas |-> [job[p] EXCEPT ![r].lapsed =
                  @ \/ (Owns(p, r) /\ job[p][r].stage # "queued")]]
    /\ UNCHANGED <<status, attempts, overdue, addressed, drain, kicks, faults>>

(* expires_at comes; of no consequence once the row is settled.            *)
Overdue(r) ==
    /\ status[r] \in Waiting
    /\ ~overdue[r]
    /\ overdue' = [overdue EXCEPT ![r] = TRUE]
    /\ UNCHANGED <<status, attempts, due, addressed, drain, job, kicks, history>>

(* The device is signed out or claimed by another user, registers again    *)
(* for this one, or is removed: its rows go with it, and it would come back*)
(* under another id.                                                       *)
Released(r) ==
    /\ addressed[r]
    /\ status[r] # "gone"
    /\ addressed' = [addressed EXCEPT ![r] = FALSE]
    /\ UNCHANGED <<table, drain, job, kicks, history>>
Returned(r) ==
    /\ ~addressed[r]
    /\ status[r] # "gone"
    /\ addressed' = [addressed EXCEPT ![r] = TRUE]
    /\ job' = [p \in Replicas |-> [job[p] EXCEPT ![r].barred = FALSE]]
    /\ UNCHANGED <<table, drain, kicks, history>>
Removed(r) ==
    /\ status[r] \notin {"absent", "gone"}
    /\ status' = [status EXCEPT ![r] = "gone"]
    /\ addressed' = [addressed EXCEPT ![r] = FALSE]
    /\ UNCHANGED <<attempts, due, overdue, drain, job, kicks, history>>

-----------------------------------------------------------------------------
DrainNext(p) ==
    Tick(p) \/ ExpireRows(p) \/ Claim(p) \/ NothingToClaim(p) \/ PassEnds(p)
        \/ LoadStore(p) \/ BatchEnds(p) \/ DrainFails(p) \/ Crash(p)

RowNext(p, r) ==
    \/ Commit(p, r)
    \/ Kick(p, r)
    \/ StartSend(p, r)
    \/ \E result \in Results : Answer(p, r, result)
    \/ Record(p, r)
    \/ Prune(p, r)
    \/ RowFails(p, r)

TimeNext(r) ==
    BecomesDue(r) \/ LeaseOutlived(r) \/ Overdue(r)
        \/ Released(r) \/ Returned(r) \/ Removed(r)

Next ==
    \/ \E p \in Replicas : DrainNext(p)
    \/ \E p \in Replicas, r \in Rows : RowNext(p, r)
    \/ \E r \in Rows : TimeNext(r)

Spec == Init /\ [][Next]_vars

(* setInterval brings the tick round again; a query answers or fails, a    *)
(* transport answers within its ten seconds; delays and leases run out.    *)
(* Nothing makes a drain be kicked, a replica crash or stall, or a row     *)
(* expire.                                                                 *)
Fairness ==
    /\ \A p \in Replicas :
          /\ WF_vars(Tick(p)) /\ WF_vars(ExpireRows(p)) /\ WF_vars(Claim(p))
          /\ WF_vars(NothingToClaim(p)) /\ WF_vars(PassEnds(p))
          /\ WF_vars(LoadStore(p)) /\ WF_vars(BatchEnds(p))
    /\ \A p \in Replicas, r \in Rows :
          /\ WF_vars(StartSend(p, r)) /\ WF_vars(Record(p, r)) /\ WF_vars(Prune(p, r))
          /\ WF_vars(\E result \in Results : Answer(p, r, result))
    /\ \A r \in Rows : WF_vars(BecomesDue(r))

FairSpec == Spec /\ Fairness

-----------------------------------------------------------------------------
(* The shape of the table and of each replica's work.                      *)
Job == [stage : Stages, attempt : Nat, verdict : Final \cup {"pending"},
        prune : BOOLEAN, lapsed : BOOLEAN, barred : BOOLEAN]

TypeOK ==
    /\ status \in [Rows -> {"absent", "gone"} \cup Waiting \cup Final]
    /\ attempts \in [Rows -> Nat]
    /\ due \in [Rows -> BOOLEAN]
    /\ overdue \in [Rows -> BOOLEAN]
    /\ addressed \in [Rows -> BOOLEAN]
    /\ phase \in [Replicas -> Phases]
    /\ again \in [Replicas -> BOOLEAN]
    /\ failed \in [Replicas -> BOOLEAN]
    /\ snapshot \in [Replicas -> SUBSET Rows]
    /\ job \in [Replicas -> [Rows -> Job]]
    /\ unkicked \in [Replicas -> SUBSET Rows]
    /\ asked \in [Replicas -> SUBSET Rows]
    /\ faults \in 0..MaxFaults
    /\ outlived \in 0..MaxOutlived

(* While the latest attempt of a push is in some replica's hands, only the *)
(* passing of its time or of its device may close the row: an older, slower*)
(* attempt never settles or re-queues it, and no two replicas hold it.     *)
LatestAnswerCounts ==
    \A p \in Replicas, r \in Rows :
        Owns(p, r) =>
            /\ status[r] \in {"sending", "expired", "gone"}
            /\ \A q \in Replicas : Owns(q, r) => q = p

(* Single flight: a replica works on one batch at a time, and a row that   *)
(* fails does not let its drain return while the others are being sent.    *)
OneBatchAtATime ==
    \A p \in Replicas, r \in Rows :
        Working(p, r) => phase[p] \in {"loading", "sending"}

(* A settled push is never sent again: its verdict stands for good, until  *)
(* the row goes with its device.                                           *)
VerdictsKept ==
    \A r \in Rows : status[r] \in Final => status'[r] \in {status[r], "gone"}
FinalStaysFinal == [][VerdictsKept]_vars

(* "Multi-process lease": two replicas send the same push at once only when*)
(* the lease of the earlier send ran out under it.  An attempt that waited *)
(* in its batch longer than its lease is dropped instead.                  *)
OnlyOutlivedSendsOverlap ==
    \A p, q \in Replicas, r \in Rows :
        /\ job[p][r].stage = "sending"
        /\ job[q][r].stage = "sending"
        /\ job[p][r].attempt < job[q][r].attempt
        => job[p][r].lapsed

(* "A row committed after the running drain's last claim is still sent     *)
(* immediately instead of waiting for the next lifecycle tick": no drain   *)
(* comes to rest over a row it was asked for that nobody has tried.        *)
KickedPushesAreTaken ==
    \A p \in Replicas, r \in Rows :
        phase[p] = "idle" /\ r \in asked[p] =>
            ~(status[r] = "pending" /\ attempts[r] = 0 /\ ~overdue[r])

(* "Ownership, membership and deletion rechecks still see every commit that*)
(* preceded this attempt": nothing is sent to a device that stopped being  *)
(* the user's before the claim and has not come back.                      *)
RechecksSeeReleases ==
    \A p \in Replicas, r \in Rows :
        job[p][r].stage = "sending" => ~job[p][r].barred

(* "Bounded at-least-once": a push is tried past its limit only by as many *)
(* attempts as were cut short by faults or outlived by their work.         *)
AttemptsAreBounded ==
    \A r \in Rows : attempts[r] <= MaxAttempts + faults + outlived

(* Every push committed reaches a verdict, whatever crashed on the way.    *)
EveryPushSettles ==
    \A r \in Rows : status[r] = "pending" ~> status[r] \in Final \cup {"gone"}
=============================================================================
