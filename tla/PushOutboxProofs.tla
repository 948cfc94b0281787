-------------------------- MODULE PushOutboxProofs --------------------------
(***************************************************************************)
(* Theorems about PushOutbox.tla, for any replicas, rows and bounds.       *)
(***************************************************************************)
EXTENDS PushOutbox, TLAPS

USE OutboxAssumption

-----------------------------------------------------------------------------
(* Types.                                                                  *)

(* No job is a job of the declared type.                                   *)
LEMMA NoJobType == NoJob \in Job
BY DEF NoJob, Job, Stages, Final

(* A write to one job, and a replica that drops all of its jobs.           *)
LEMMA OneJobWritten ==
    ASSUME TypeOK, NEW p \in Replicas, NEW r \in Rows, NEW next \in Job,
           JobBecomes(p, r, next)
    PROVE  /\ job' \in [Replicas -> [Rows -> Job]]
           /\ job'[p][r] = next
           /\ \A q \in Replicas, s \in Rows :
                 <<q, s>> # <<p, r>> => job'[q][s] = job[q][s]
BY DEF TypeOK, JobBecomes

(* A replica drops all of its jobs.                                        *)
LEMMA JobsDropped ==
    ASSUME TypeOK, NEW p \in Replicas,
           job' = [job EXCEPT ![p] = [r \in Rows |-> NoJob]]
    PROVE  /\ job' \in [Replicas -> [Rows -> Job]]
           /\ \A r \in Rows : job'[p][r] = NoJob
           /\ \A q \in Replicas, r \in Rows : q # p => job'[q][r] = job[q][r]
BY NoJobType DEF TypeOK

(* What an action makes of one job is a job.                               *)
LEMMA NextJobType ==
    ASSUME TypeOK, NEW p \in Replicas, NEW r \in Rows
    PROVE  /\ \A stage \in Stages : [job[p][r] EXCEPT !.stage = stage] \in Job
           /\ \A result \in Results : \A prune \in BOOLEAN :
                 [job[p][r] EXCEPT
                    !.stage = "answered",
                    !.verdict = Verdict(r, result, job[p][r].attempt),
                    !.prune = prune] \in Job
<1>1. job[p][r] \in Job
  BY DEF TypeOK
<1>2. \A stage \in Stages : [job[p][r] EXCEPT !.stage = stage] \in Job
  BY <1>1 DEF Job
<1>3. ASSUME NEW result \in Results
      PROVE  Verdict(r, result, job[p][r].attempt) \in Final \cup {"pending"}
  <2>1. overdue[r] \in BOOLEAN
    BY DEF TypeOK
  <2> QED
    BY <2>1 DEF Verdict, Results, Final
<1>4. ASSUME NEW result \in Results, NEW prune \in BOOLEAN
      PROVE  [job[p][r] EXCEPT
                 !.stage = "answered",
                 !.verdict = Verdict(r, result, job[p][r].attempt),
                 !.prune = prune] \in Job
  <2> DEFINE verdict == Verdict(r, result, job[p][r].attempt)
  <2>1. verdict \in Final \cup {"pending"}
    BY <1>3
  <2> HIDE DEF verdict
  <2>2. [job[p][r] EXCEPT !.stage = "answered", !.verdict = verdict, !.prune = prune] \in Job
    BY <1>1, <2>1 DEF Job, Stages
  <2> QED
    BY <2>2 DEF verdict
<1> QED
  BY <1>2, <1>4

(* The types hold at the start.                                            *)
LEMMA TypeInit == Init => TypeOK
BY NoJobType DEF Init, TypeOK, Phases

(* The actions of a drain.                                                 *)
LEMMA DrainType ==
    ASSUME TypeOK, NEW p \in Replicas, DrainNext(p)
    PROVE  TypeOK'
<1>1. CASE Tick(p)
  BY <1>1 DEF TypeOK, Tick, Drain, table, kicks, history, Phases
<1>2. CASE ExpireRows(p)
  BY <1>2 DEF TypeOK, ExpireRows, kicks, history, Phases, Final
<1>3. CASE Claim(p)
  <2>1. PICK batch \in SUBSET Rows :
          /\ status' = [r \in Rows |-> IF r \in batch THEN "sending" ELSE status[r]]
          /\ attempts' = [r \in Rows |->
                IF r \in batch THEN attempts[r] + 1 ELSE attempts[r]]
          /\ due' = [r \in Rows |-> due[r] /\ r \notin batch]
          /\ job' = [job EXCEPT ![p] = [r \in Rows |->
                IF r \in batch
                THEN [NoJob EXCEPT !.stage = "queued", !.attempt = attempts[r] + 1,
                                   !.barred = ~addressed[r]]
                ELSE NoJob]]
    BY <1>3 DEF Claim
  <2>2. status' \in [Rows -> {"absent", "gone"} \cup Waiting \cup Final]
    BY <2>1 DEF TypeOK, Waiting
  <2>3. attempts' \in [Rows -> Nat]
    <3>1. attempts' = [r \in Rows |->
             IF r \in batch THEN attempts[r] + 1 ELSE attempts[r]]
      BY <2>1, Zenon
    <3> QED
      BY <3>1 DEF TypeOK
  <2>6. due' \in [Rows -> BOOLEAN]
    BY <2>1, Zenon
  <2>4. ASSUME NEW r \in Rows
        PROVE  [NoJob EXCEPT !.stage = "queued", !.attempt = attempts[r] + 1,
                             !.barred = ~addressed[r]] \in Job
    <3> DEFINE barred == ~addressed[r]
    <3>1. barred \in BOOLEAN
      BY Zenon
    <3>2. attempts[r] + 1 \in Nat
      BY DEF TypeOK
    <3> HIDE DEF barred
    <3>3. [NoJob EXCEPT !.stage = "queued", !.attempt = attempts[r] + 1,
                        !.barred = barred] \in Job
      BY <3>1, <3>2, NoJobType DEF Job, Stages
    <3> QED
      BY <3>3 DEF barred
  <2>5. job' \in [Replicas -> [Rows -> Job]]
    BY <2>1, <2>4, NoJobType DEF TypeOK
  <2> QED
    BY <1>3, <2>2, <2>3, <2>5, <2>6 DEF TypeOK, Claim, kicks, history, Phases
<1>4. CASE NothingToClaim(p)
  BY <1>4 DEF TypeOK, NothingToClaim, table, kicks, history, Phases
<1>5. CASE PassEnds(p)
  BY <1>5 DEF TypeOK, PassEnds, AfterPass, table, kicks, history, Phases
<1>6. CASE LoadStore(p)
  BY <1>6 DEF TypeOK, LoadStore, SnapshotOfBatch, table, kicks, history, Phases
<1>7. CASE BatchEnds(p)
  <2>1. job' \in [Replicas -> [Rows -> Job]]
    BY <1>7, NoJobType DEF TypeOK, BatchEnds
  <2> QED
    BY <1>7, <2>1 DEF TypeOK, BatchEnds, table, history, Phases
<1>8. CASE DrainFails(p)
  <2>1. job' \in [Replicas -> [Rows -> Job]]
    BY <1>8, JobsDropped DEF DrainFails
  <2> QED
    BY <1>8, <2>1 DEF TypeOK, DrainFails, table, Phases
<1>9. CASE Crash(p)
  <2>1. job' \in [Replicas -> [Rows -> Job]]
    BY <1>9, JobsDropped DEF Crash
  <2>2. faults' \in 0..MaxFaults
    BY <1>9 DEF TypeOK, Crash
  <2> QED
    BY <1>9, <2>1, <2>2, Zenon DEF TypeOK, Crash, table, Phases
<1> QED
  BY <1>1, <1>2, <1>3, <1>4, <1>5, <1>6, <1>7, <1>8, <1>9 DEF DrainNext

(* The actions on one row of a replica.                                    *)
LEMMA RowType ==
    ASSUME TypeOK, NEW p \in Replicas, NEW r \in Rows, RowNext(p, r)
    PROVE  TypeOK'
<1>1. CASE Commit(p, r)
  BY <1>1 DEF TypeOK, Commit, drain, history, Waiting
<1>2. CASE Kick(p, r)
  BY <1>2 DEF TypeOK, Kick, Drain, table, history, Phases
<1>3. CASE StartSend(p, r)
  <2>1. job' \in [Replicas -> [Rows -> Job]]
    BY <1>3, OneJobWritten, NextJobType, NoJobType DEF StartSend, Stages
  <2> QED
    BY <1>3, <2>1 DEF TypeOK, StartSend, drain, kicks, history
<1>4. CASE \E result \in Results : Answer(p, r, result)
  <2>1. job' \in [Replicas -> [Rows -> Job]]
    BY <1>4, OneJobWritten, NextJobType DEF Answer
  <2> QED
    BY <1>4, <2>1 DEF TypeOK, Answer, table, drain, kicks, history
<1>5. CASE Record(p, r)
  <2>1. job' \in [Replicas -> [Rows -> Job]]
    BY <1>5, OneJobWritten, NextJobType, NoJobType DEF Record, Stages
  <2>2. job[p][r].verdict \in Final \cup {"pending"}
    BY DEF TypeOK, Job
  <2> QED
    BY <1>5, <2>1, <2>2 DEF TypeOK, Record, drain, kicks, history, Waiting
<1>6. CASE Prune(p, r)
  <2>1. job' \in [Replicas -> [Rows -> Job]]
    BY <1>6, OneJobWritten, NoJobType DEF Prune
  <2> QED
    BY <1>6, <2>1 DEF TypeOK, Prune, drain, kicks, history
<1>7. CASE RowFails(p, r)
  <2>1. job' \in [Replicas -> [Rows -> Job]]
    BY <1>7, OneJobWritten, NoJobType DEF RowFails
  <2>2. faults' \in 0..MaxFaults
    BY <1>7 DEF TypeOK, RowFails
  <2> QED
    BY <1>7, <2>1, <2>2, Zenon DEF TypeOK, RowFails, table, kicks
<1> QED
  BY <1>1, <1>2, <1>3, <1>4, <1>5, <1>6, <1>7 DEF RowNext

(* Time and the devices.                                                   *)
LEMMA TimeType ==
    ASSUME TypeOK, NEW r \in Rows, TimeNext(r)
    PROVE  TypeOK'
<1>1. CASE BecomesDue(r)
  BY <1>1 DEF TypeOK, BecomesDue, drain, kicks, history
<1>2. CASE LeaseOutlived(r)
  <2>1. ASSUME NEW p \in Replicas, NEW lapsed \in BOOLEAN
        PROVE  [job[p] EXCEPT ![r].lapsed = lapsed] \in [Rows -> Job]
    <3>1. job[p] \in [Rows -> Job] /\ job[p][r] \in Job
      BY DEF TypeOK
    <3>2. [job[p][r] EXCEPT !.lapsed = lapsed] \in Job
      BY <3>1 DEF Job
    <3> QED
      BY <3>1, <3>2
  <2>2. job' \in [Replicas -> [Rows -> Job]]
    BY <1>2, <2>1, Zenon DEF LeaseOutlived
  <2> QED
    BY <1>2, <2>2 DEF TypeOK, LeaseOutlived, drain, kicks
<1>3. CASE Overdue(r)
  BY <1>3 DEF TypeOK, Overdue, drain, kicks, history
<1>4. CASE Released(r)
  BY <1>4 DEF TypeOK, Released, table, drain, kicks, history
<1>5. CASE Returned(r)
  <2>1. job' \in [Replicas -> [Rows -> Job]]
    <3>1. ASSUME NEW p \in Replicas
          PROVE  [job[p] EXCEPT ![r].barred = FALSE] \in [Rows -> Job]
      <4>1. job[p] \in [Rows -> Job] /\ job[p][r] \in Job
        BY DEF TypeOK
      <4>2. [job[p][r] EXCEPT !.barred = FALSE] \in Job
        BY <4>1 DEF Job
      <4> QED
        BY <4>1, <4>2
    <3> QED
      BY <1>5, <3>1 DEF Returned
  <2> QED
    BY <1>5, <2>1 DEF TypeOK, Returned, table, drain, kicks, history
<1>6. CASE Removed(r)
  BY <1>6 DEF TypeOK, Removed, drain, kicks, history
<1> QED
  BY <1>1, <1>2, <1>3, <1>4, <1>5, <1>6 DEF TimeNext

(* Every step keeps the types.                                             *)
LEMMA TypeStep == TypeOK /\ [Next]_vars => TypeOK'
<1> SUFFICES ASSUME TypeOK, [Next]_vars PROVE TypeOK'
  OBVIOUS
<1>1. CASE UNCHANGED vars
  BY <1>1 DEF TypeOK, vars, table, drain, kicks, history
<1>2. CASE Next
  BY <1>2, DrainType, RowType, TimeType DEF Next
<1> QED
  BY <1>1, <1>2

(* The table's and the replicas' variables keep their types.               *)
THEOREM TypeCorrect == Spec => []TypeOK
BY TypeInit, TypeStep, PTL DEF Spec

-----------------------------------------------------------------------------
(***************************************************************************)
(* What the actions that write jobs do to them.                            *)
(***************************************************************************)

(* The batch of a claim begins an attempt, and is the replica's only work. *)
Claims(p, batch) ==
    /\ phase[p] = "claiming" /\ phase'[p] = "loading"
    /\ \A q \in Replicas : q # p => phase'[q] = phase[q]
    /\ \A r \in batch : status[r] \in Waiting /\ due[r]
    /\ \A r \in Rows :
          /\ r \in batch => status'[r] = "sending" /\ attempts'[r] = attempts[r] + 1
          /\ r \notin batch => status'[r] = status[r] /\ attempts'[r] = attempts[r]
    /\ \A r \in Rows : due'[r] <=> due[r] /\ r \notin batch
    /\ \A q \in Replicas, r \in Rows :
          /\ q # p => job'[q][r] = job[q][r]
          /\ r \in batch => /\ job'[p][r].stage = "queued"
                            /\ job'[p][r].attempt = attempts[r] + 1
                            /\ job'[p][r].verdict = "suppressed"
                            /\ job'[p][r].barred <=> ~addressed[r]
          /\ r \notin batch => job'[p][r].stage = "none"

(* A claim is the claim of some batch.                                     *)
LEMMA ClaimEffect ==
    ASSUME TypeOK, NEW p \in Replicas, Claim(p)
    PROVE  \E batch \in SUBSET Rows : Claims(p, batch)
<1>1. PICK batch \in SUBSET {r \in Rows : Claimable(r)} :
          /\ status' = [r \in Rows |-> IF r \in batch THEN "sending" ELSE status[r]]
          /\ attempts' = [r \in Rows |->
                IF r \in batch THEN attempts[r] + 1 ELSE attempts[r]]
          /\ due' = [r \in Rows |-> due[r] /\ r \notin batch]
          /\ job' = [job EXCEPT ![p] = [r \in Rows |->
                IF r \in batch
                THEN [NoJob EXCEPT !.stage = "queued", !.attempt = attempts[r] + 1,
                                   !.barred = ~addressed[r]]
                ELSE NoJob]]
  BY DEF Claim
<1>2. /\ phase[p] = "claiming" /\ phase'[p] = "loading"
      /\ \A q \in Replicas : q # p => phase'[q] = phase[q]
  BY DEF Claim, TypeOK
<1>3. \A r \in batch : status[r] \in Waiting /\ due[r]
  BY DEF Claimable
<1>4. \A r \in Rows :
        /\ r \in batch => status'[r] = "sending" /\ attempts'[r] = attempts[r] + 1
        /\ r \notin batch => status'[r] = status[r] /\ attempts'[r] = attempts[r]
  BY <1>1, Zenon
<1>5. \A r \in Rows : due'[r] <=> due[r] /\ r \notin batch
  BY <1>1, Zenon
<1>6. \A q \in Replicas, r \in Rows :
        /\ q # p => job'[q][r] = job[q][r]
        /\ r \in batch => /\ job'[p][r].stage = "queued"
                          /\ job'[p][r].attempt = attempts[r] + 1
                          /\ job'[p][r].verdict = "suppressed"
                          /\ job'[p][r].barred <=> ~addressed[r]
        /\ r \notin batch => job'[p][r].stage = "none"
  <2>1. \A q \in Replicas, r \in Rows : q # p => job'[q][r] = job[q][r]
    BY <1>1, Zenon DEF TypeOK
  <2>2. ASSUME NEW r \in Rows
        PROVE  job'[p][r] = IF r \in batch
                THEN [NoJob EXCEPT !.stage = "queued", !.attempt = attempts[r] + 1,
                                   !.barred = ~addressed[r]]
                ELSE NoJob
    BY <1>1, Zenon DEF TypeOK
  <2>4. ASSUME NEW r \in batch
        PROVE  /\ job'[p][r].stage = "queued"
               /\ job'[p][r].attempt = attempts[r] + 1
               /\ job'[p][r].verdict = "suppressed"
               /\ job'[p][r].barred <=> ~addressed[r]
    <3> DEFINE barred == ~addressed[r]
    <3>1. job'[p][r] = [NoJob EXCEPT !.stage = "queued", !.attempt = attempts[r] + 1,
                                     !.barred = barred]
      BY <2>2, Zenon
    <3> HIDE DEF barred
    <3>2. /\ job'[p][r].stage = "queued"
          /\ job'[p][r].attempt = attempts[r] + 1
          /\ job'[p][r].verdict = "suppressed"
          /\ job'[p][r].barred = barred
      BY <3>1 DEF NoJob
    <3> QED
      BY <3>2, Zenon DEF barred
  <2>5. \A r \in Rows \ batch : job'[p][r].stage = "none"
    <3>1. \A r \in Rows \ batch : job'[p][r] = NoJob
      BY <2>2, Zenon
    <3> QED
      BY <3>1 DEF NoJob
  <2> QED
    BY <2>1, <2>4, <2>5, Zenon
<1> QED
  BY <1>2, <1>3, <1>4, <1>5, <1>6 DEF Claims

(* A job goes on in the same attempt or is dropped; the others stay.       *)
OnlyJob(p, r) ==
    \A q \in Replicas, s \in Rows : <<q, s>> # <<p, r>> => job'[q][s] = job[q][s]

(* The renewed lease, and the send or the verdict after it.                *)
LEMMA StartSendEffect ==
    ASSUME TypeOK, NEW p \in Replicas, NEW r \in Rows, StartSend(p, r)
    PROVE  /\ phase[p] = "sending" /\ job[p][r].stage = "queued"
           /\ UNCHANGED <<status, attempts, phase, failed, faults, outlived>>
           /\ \A s \in Rows : s # r => due'[s] = due[s]
           /\ due'[r] <=> due[r] /\ ~LeaseHeld(p, r)
           /\ OnlyJob(p, r)
           /\ \/ job'[p][r].stage = "none" /\ ~LeaseHeld(p, r)
              \/ /\ LeaseHeld(p, r)
                 /\ job'[p][r].stage \in {"sending", "answered"}
                 /\ job'[p][r].stage = "sending" => r \in snapshot[p]
                 /\ job'[p][r].attempt = job[p][r].attempt
                 /\ job'[p][r].verdict = job[p][r].verdict
                 /\ job'[p][r].barred = job[p][r].barred
<1> DEFINE next == IF ~Renewed(p, r) THEN NoJob
                   ELSE IF r \in snapshot[p] THEN [job[p][r] EXCEPT !.stage = "sending"]
                   ELSE [job[p][r] EXCEPT !.stage = "answered"]
<1>1. next \in Job
  BY NextJobType, NoJobType DEF Stages
<1>2. job'[p][r] = next /\ OnlyJob(p, r)
  BY <1>1, OneJobWritten DEF StartSend, OnlyJob
<1>3. \/ next.stage = "none" /\ ~LeaseHeld(p, r)
      \/ /\ LeaseHeld(p, r)
         /\ next.stage \in {"sending", "answered"}
         /\ next.stage = "sending" => r \in snapshot[p]
         /\ next.attempt = job[p][r].attempt
         /\ next.verdict = job[p][r].verdict
         /\ next.barred = job[p][r].barred
  <2>1. CASE ~Renewed(p, r)
    BY <2>1 DEF Renewed, NoJob
  <2>2. CASE Renewed(p, r) /\ r \in snapshot[p]
    <3>1. next = [job[p][r] EXCEPT !.stage = "sending"]
      BY <2>2
    <3> HIDE DEF next
    <3>2. /\ next.stage = "sending"
          /\ next.attempt = job[p][r].attempt
          /\ next.verdict = job[p][r].verdict
          /\ next.barred = job[p][r].barred
      BY <3>1 DEF TypeOK, Job
    <3> QED
      BY <2>2, <3>2, Zenon DEF Renewed
  <2>3. CASE Renewed(p, r) /\ r \notin snapshot[p]
    <3>1. next = [job[p][r] EXCEPT !.stage = "answered"]
      BY <2>3
    <3>2. "answered" # "sending"
      OBVIOUS
    <3> HIDE DEF next
    <3>3. /\ next.stage = "answered"
          /\ next.attempt = job[p][r].attempt
          /\ next.verdict = job[p][r].verdict
          /\ next.barred = job[p][r].barred
      BY <3>1 DEF TypeOK, Job
    <3> QED
      BY <2>3, <3>2, <3>3, Zenon DEF Renewed
  <2> QED
    BY <2>1, <2>2, <2>3
<1>4. due'[r] <=> due[r] /\ ~LeaseHeld(p, r)
  BY Zenon DEF StartSend, TypeOK
<1> HIDE DEF next
<1> QED
  BY <1>2, <1>3, <1>4 DEF StartSend, TypeOK, drain, history

(* The transport's answer becomes the verdict to record.                   *)
LEMMA AnswerEffect ==
    ASSUME TypeOK, NEW p \in Replicas, NEW r \in Rows,
           NEW result \in Results, Answer(p, r, result)
    PROVE  /\ job[p][r].stage = "sending"
           /\ UNCHANGED <<status, attempts, due, phase, failed, faults, outlived>>
           /\ OnlyJob(p, r)
           /\ job'[p][r].stage = "answered"
           /\ job'[p][r].attempt = job[p][r].attempt
           /\ job'[p][r].verdict = Verdict(r, result, job[p][r].attempt)
           /\ job'[p][r].barred = job[p][r].barred
<1> DEFINE verdict == Verdict(r, result, job[p][r].attempt)
           next == [job[p][r] EXCEPT !.stage = "answered", !.verdict = verdict,
                                     !.prune = (result = "prune")]
<1>1. next \in Job
  BY NextJobType
<1>2. job'[p][r] = next /\ OnlyJob(p, r)
  BY <1>1, OneJobWritten DEF Answer, OnlyJob
<1> HIDE DEF verdict
<1>3. /\ next.stage = "answered" /\ next.attempt = job[p][r].attempt
      /\ next.verdict = verdict /\ next.barred = job[p][r].barred
  BY DEF TypeOK, Job
<1> HIDE DEF next
<1> QED
  BY <1>2, <1>3 DEF Answer, table, drain, history, verdict

(* A verdict is recorded for the attempt that holds the lease.             *)
LEMMA RecordEffect ==
    ASSUME TypeOK, NEW p \in Replicas, NEW r \in Rows, Record(p, r)
    PROVE  /\ job[p][r].stage = "answered"
           /\ UNCHANGED <<attempts, phase, failed, faults, outlived>>
           /\ \A s \in Rows : s # r => status'[s] = status[s] /\ due'[s] = due[s]
           /\ \/ ~LeaseHeld(p, r) /\ status'[r] = status[r] /\ due'[r] = due[r]
              \/ LeaseHeld(p, r) /\ status'[r] = job[p][r].verdict /\ ~due'[r]
           /\ OnlyJob(p, r)
           /\ \/ job'[p][r].stage = "none"
              \/ /\ job'[p][r].stage = "pruning"
                 /\ job'[p][r].attempt = job[p][r].attempt
                 /\ job'[p][r].barred = job[p][r].barred
<1> DEFINE next == IF job[p][r].prune
                   THEN [job[p][r] EXCEPT !.stage = "pruning"] ELSE NoJob
<1>1. next \in Job
  BY NextJobType, NoJobType DEF Stages
<1>2. job'[p][r] = next /\ OnlyJob(p, r)
  BY <1>1, OneJobWritten DEF Record, OnlyJob
<1>3. \/ next.stage = "none"
      \/ /\ next.stage = "pruning" /\ next.attempt = job[p][r].attempt
         /\ next.barred = job[p][r].barred
  <2>1. CASE ~job[p][r].prune
    BY <2>1 DEF NoJob
  <2>2. CASE job[p][r].prune
    <3>1. next = [job[p][r] EXCEPT !.stage = "pruning"]
      BY <2>2
    <3> HIDE DEF next
    <3>2. /\ next.stage = "pruning"
          /\ next.attempt = job[p][r].attempt
          /\ next.verdict = job[p][r].verdict
          /\ next.barred = job[p][r].barred
      BY <3>1 DEF TypeOK, Job
    <3> QED
      BY <3>2, Zenon
  <2> QED
    BY <2>1, <2>2
<1> HIDE DEF next
<1>4. /\ \A s \in Rows : s # r => status'[s] = status[s] /\ due'[s] = due[s]
      /\ \/ ~LeaseHeld(p, r) /\ status'[r] = status[r] /\ due'[r] = due[r]
         \/ LeaseHeld(p, r) /\ status'[r] = job[p][r].verdict /\ ~due'[r]
  BY DEF Record, Recordable, TypeOK
<1> QED
  BY <1>2, <1>3, <1>4 DEF Record, drain, history

(* The batch is over, whether its rows were worked on or left behind.      *)
LEMMA BatchEndsEffect ==
    ASSUME TypeOK, NEW p \in Replicas, BatchEnds(p)
    PROVE  /\ UNCHANGED <<status, attempts, due, faults, outlived>>
           /\ ~failed'[p]
           /\ \A r \in Rows : job'[p][r].stage = "none"
           /\ \A q \in Replicas : q # p =>
                 phase'[q] = phase[q] /\ failed'[q] = failed[q] /\ job'[q] = job[q]
<1>1. \A r \in Rows : job'[p][r] = IF job[p][r].stage = "queued" THEN NoJob ELSE job[p][r]
  BY DEF BatchEnds, TypeOK
<1>2. \A r \in Rows : job'[p][r].stage = "none"
  BY <1>1 DEF BatchEnds, AllSettled, Working, NoJob
<1>3. \A q \in Replicas : q # p =>
         phase'[q] = phase[q] /\ failed'[q] = failed[q] /\ job'[q] = job[q]
  BY DEF BatchEnds, TypeOK
<1>4. ~failed'[p] /\ UNCHANGED <<status, attempts, due, faults, outlived>>
  BY Zenon DEF BatchEnds, TypeOK, table, history
<1> QED
  BY <1>2, <1>3, <1>4

(* The stamps of the history leave everything else of a job as it was.     *)
LEMMA StampEffect ==
    ASSUME TypeOK, NEW r \in Rows, LeaseOutlived(r) \/ Returned(r)
    PROVE  \A q \in Replicas, s \in Rows :
              /\ job'[q][s].stage = job[q][s].stage
              /\ job'[q][s].attempt = job[q][s].attempt
              /\ job'[q][s].verdict = job[q][s].verdict
              /\ job'[q][s].barred => job[q][s].barred
              /\ s # r => job'[q][s] = job[q][s]
<1>1. CASE LeaseOutlived(r)
  BY <1>1 DEF LeaseOutlived, TypeOK, Job
<1>2. CASE Returned(r)
  BY <1>2 DEF Returned, TypeOK, Job
<1> QED
  BY <1>1, <1>2

-----------------------------------------------------------------------------
(***************************************************************************)
(* The lease.  A job is worked on within a batch, no attempt is in two     *)
(* hands, the latest one is still open, and a send whose row may be, or has*)
(* been, claimed again has lapsed.                                         *)
(***************************************************************************)
Open == {"queued", "sending", "answered"}

LatestAttempt ==
    \A p \in Replicas, r \in Rows :
        Working(p, r) => job[p][r].attempt <= attempts[r]

OneHand ==
    \A p, q \in Replicas, r \in Rows :
        Working(p, r) /\ Working(q, r) /\ job[p][r].attempt = job[q][r].attempt
            => p = q

LatestIsOpen ==
    \A p \in Replicas, r \in Rows :
        Owns(p, r) => status[r] \in {"sending", "expired", "gone"}

Overtaken(p, r) ==
    \/ job[p][r].attempt < attempts[r]
    \/ status[r] = "sending" /\ due[r]

OvertakenHaveLapsed ==
    \A p \in Replicas, r \in Rows :
        job[p][r].stage = "sending" /\ Overtaken(p, r) => job[p][r].lapsed

LeaseInv ==
    OneBatchAtATime /\ LatestAttempt /\ OneHand /\ LatestIsOpen /\ OvertakenHaveLapsed

(* What is left of a replica's work on a row is work it had in hand.       *)
StillInHand(p, r) ==
    job'[p][r].stage # "none" =>
        /\ phase'[p] \in {"loading", "sending"}
        /\ Working(p, r)
        /\ job'[p][r].attempt = job[p][r].attempt
        /\ job'[p][r].stage \in Open => job[p][r].stage \in Open

(* A step that claims nothing keeps the lease if the work in hand only goes*)
(* on or is dropped, a row moves on only when it is out of time or out of  *)
(* hand, and the sends it lets be overtaken have lapsed.                   *)
LEMMA NoClaim ==
    ASSUME TypeOK, LeaseInv,
           UNCHANGED attempts,
           \A p \in Replicas, r \in Rows : StillInHand(p, r),
           \A r \in Rows :
              status'[r] \in {status[r], "expired", "gone"} \/ \A p \in Replicas : ~Owns(p, r)',
           \A p \in Replicas, r \in Rows :
              job'[p][r].stage = "sending" /\ Overtaken(p, r)' => job'[p][r].lapsed
    PROVE  LeaseInv'
<1>1. OneBatchAtATime'
  BY DEF OneBatchAtATime, StillInHand, Working
<1>2. LatestAttempt'
  BY DEF LeaseInv, LatestAttempt, StillInHand, Working
<1>3. OneHand'
  BY DEF LeaseInv, OneHand, StillInHand, Working
<1>4. LatestIsOpen'
  <2> SUFFICES ASSUME NEW p \in Replicas, NEW r \in Rows, Owns(p, r)'
               PROVE  status'[r] \in {"sending", "expired", "gone"}
    BY DEF LatestIsOpen
  <2>1. Owns(p, r)
    BY DEF StillInHand, Owns, Open
  <2> QED
    BY <2>1 DEF LeaseInv, LatestIsOpen
<1>5. OvertakenHaveLapsed'
  BY DEF OvertakenHaveLapsed
<1> QED
  BY <1>1, <1>2, <1>3, <1>4, <1>5 DEF LeaseInv

(* A step that touches neither the rows nor the work.                      *)
LEMMA TableKept ==
    ASSUME TypeOK, LeaseInv, UNCHANGED <<status, attempts, due, job>>,
           \A p \in Replicas, r \in Rows :
              Working(p, r) => phase'[p] \in {"loading", "sending"}
    PROVE  LeaseInv'
BY DEF LeaseInv, OneBatchAtATime, LatestAttempt, OneHand, LatestIsOpen,
       OvertakenHaveLapsed, Overtaken, Owns, Working

(* The lease invariant holds at the start.                                 *)
LEMMA LeaseInit == Init => LeaseInv
BY DEF Init, LeaseInv, OneBatchAtATime, LatestAttempt, OneHand, LatestIsOpen,
       OvertakenHaveLapsed, Owns, Working, NoJob

(* A claim: the rows of the batch begin an attempt above all earlier ones. *)
LEMMA ClaimLease ==
    ASSUME TypeOK, LeaseInv, NEW p \in Replicas, Claim(p)
    PROVE  LeaseInv'
<1>1. PICK batch \in SUBSET Rows : Claims(p, batch)
  BY ClaimEffect
<1>2. /\ phase'[p] = "loading"
      /\ \A q \in Replicas : q # p => phase'[q] = phase[q]
  BY <1>1 DEF Claims
<1>3. \A r \in batch : status[r] \in Waiting /\ due[r]
  BY <1>1 DEF Claims
<1>4. \A r \in Rows :
        /\ r \in batch => status'[r] = "sending" /\ attempts'[r] = attempts[r] + 1
        /\ r \notin batch => status'[r] = status[r] /\ attempts'[r] = attempts[r]
  BY <1>1 DEF Claims
<1>5. \A r \in Rows : due'[r] <=> due[r] /\ r \notin batch
  BY <1>1 DEF Claims
<1>6. \A q \in Replicas, r \in Rows :
        /\ q # p => job'[q][r] = job[q][r]
        /\ r \in batch => /\ job'[p][r].stage = "queued"
                          /\ job'[p][r].attempt = attempts[r] + 1
        /\ r \notin batch => job'[p][r].stage = "none"
  BY <1>1 DEF Claims
<1>7. \A q \in Replicas, r \in Rows :
        /\ job[q][r].attempt \in Nat /\ attempts[r] \in Nat
  BY DEF TypeOK, Job
<1>8. OneBatchAtATime'
  BY <1>2, <1>6 DEF LeaseInv, OneBatchAtATime, Working
<1>9. LatestAttempt'
  <2> SUFFICES ASSUME NEW q \in Replicas, NEW r \in Rows, Working(q, r)'
               PROVE  job'[q][r].attempt <= attempts'[r]
    BY DEF LatestAttempt
  <2> QED
    BY <1>4, <1>6, <1>7 DEF LeaseInv, LatestAttempt, Working
<1>10. OneHand'
  <2> SUFFICES ASSUME NEW q1 \in Replicas, NEW q2 \in Replicas, NEW r \in Rows,
                      Working(q1, r)', Working(q2, r)',
                      job'[q1][r].attempt = job'[q2][r].attempt
               PROVE  q1 = q2
    BY DEF OneHand
  <2> QED
    BY <1>6, <1>7 DEF LeaseInv, OneHand, LatestAttempt, Working
<1>11. LatestIsOpen'
  <2> SUFFICES ASSUME NEW q \in Replicas, NEW r \in Rows, Owns(q, r)'
               PROVE  status'[r] \in {"sending", "expired", "gone"}
    BY DEF LatestIsOpen
  <2> QED
    BY <1>4, <1>6 DEF LeaseInv, LatestIsOpen, Owns
<1>12. OvertakenHaveLapsed'
  <2> SUFFICES ASSUME NEW q \in Replicas, NEW r \in Rows,
                      job'[q][r].stage = "sending", Overtaken(q, r)'
               PROVE  job'[q][r].lapsed
    BY DEF OvertakenHaveLapsed
  <2>1. q # p /\ job'[q][r] = job[q][r]
    BY <1>6
  <2>2. CASE r \in batch
    <3>1. CASE Owns(q, r)
      BY <1>3, <2>1, <2>2, <3>1
      DEF LeaseInv, LatestIsOpen, OvertakenHaveLapsed, Overtaken, Waiting
    <3>2. CASE ~Owns(q, r)
      BY <1>7, <2>1, <3>2
      DEF LeaseInv, LatestAttempt, OvertakenHaveLapsed, Overtaken, Owns, Working
    <3> QED
      BY <3>1, <3>2
  <2>3. CASE r \notin batch
    BY <1>4, <1>5, <2>1, <2>3 DEF LeaseInv, OvertakenHaveLapsed, Overtaken
  <2> QED
    BY <2>2, <2>3
<1> QED
  BY <1>8, <1>9, <1>10, <1>11, <1>12 DEF LeaseInv

(* A replica that drops its work, or all of it that is left.               *)
LEMMA DropLease ==
    ASSUME TypeOK, LeaseInv, NEW p \in Replicas,
           UNCHANGED <<status, attempts, due>>,
           \A q \in Replicas, r \in Rows : q # p => job'[q][r] = job[q][r],
           \A r \in Rows : job'[p][r].stage = "none",
           \A q \in Replicas : q # p => phase'[q] = phase[q]
    PROVE  LeaseInv'
BY DEF LeaseInv, OneBatchAtATime, LatestAttempt, OneHand, LatestIsOpen,
       OvertakenHaveLapsed, Overtaken, Owns, Working

(* The steps of a drain keep the lease.                                    *)
LEMMA DrainLease ==
    ASSUME TypeOK, LeaseInv, NEW p \in Replicas, DrainNext(p)
    PROVE  LeaseInv'
<1> USE DEF table, history
<1>1. CASE Tick(p)
  BY <1>1, TableKept DEF LeaseInv, OneBatchAtATime, Tick, Drain, TypeOK
<1>2. CASE ExpireRows(p)
  <2>1. \A q \in Replicas, r \in Rows : StillInHand(q, r)
    BY <1>2 DEF LeaseInv, OneBatchAtATime, StillInHand, ExpireRows, TypeOK, Working
  <2>2. \A r \in Rows : status'[r] \in {status[r], "expired"}
    BY <1>2 DEF ExpireRows
  <2> QED
    BY <1>2, <2>1, <2>2, NoClaim
    DEF ExpireRows, LeaseInv, OvertakenHaveLapsed, Overtaken
<1>3. CASE Claim(p)
  BY <1>3, ClaimLease
<1>4. CASE NothingToClaim(p)
  BY <1>4, TableKept DEF LeaseInv, OneBatchAtATime, NothingToClaim, TypeOK
<1>5. CASE PassEnds(p)
  BY <1>5, TableKept DEF LeaseInv, OneBatchAtATime, PassEnds, TypeOK
<1>6. CASE LoadStore(p)
  BY <1>6, TableKept DEF LeaseInv, OneBatchAtATime, LoadStore, TypeOK
<1>7. CASE BatchEnds(p)
  BY <1>7, BatchEndsEffect, DropLease
<1>8. CASE DrainFails(p)
  <2>1. \A q \in Replicas : q # p => phase'[q] = phase[q]
    BY <1>8 DEF DrainFails, TypeOK
  <2> QED
    BY <1>8, <2>1, JobsDropped, DropLease DEF DrainFails, NoJob
<1>9. CASE Crash(p)
  <2>1. \A q \in Replicas : q # p => phase'[q] = phase[q]
    BY <1>9 DEF Crash, TypeOK
  <2> QED
    BY <1>9, <2>1, JobsDropped, DropLease DEF Crash, NoJob
<1> QED
  BY <1>1, <1>2, <1>3, <1>4, <1>5, <1>6, <1>7, <1>8, <1>9 DEF DrainNext

(* The steps on one row keep the lease.                                    *)
LEMMA RowLease ==
    ASSUME TypeOK, LeaseInv, NEW p \in Replicas, NEW r \in Rows, RowNext(p, r)
    PROVE  LeaseInv'
<1> USE DEF table, drain, kicks, history
<1>1. CASE Commit(p, r)
  <2>1. \A q \in Replicas, s \in Rows : StillInHand(q, s)
    BY <1>1 DEF LeaseInv, OneBatchAtATime, StillInHand, Commit, Working
  <2>2. \A q \in Replicas : ~Owns(q, r)'
    BY <1>1 DEF Commit, LeaseInv, LatestIsOpen, Owns
  <2>3. \A s \in Rows : status'[s] = status[s] \/ s = r
    BY <1>1 DEF Commit, TypeOK
  <2>4. status'[r] = "pending" /\ \A s \in Rows : s # r => due'[s] = due[s]
    BY <1>1 DEF Commit, TypeOK
  <2> QED
    BY <1>1, <2>1, <2>2, <2>3, <2>4, NoClaim
    DEF Commit, LeaseInv, OvertakenHaveLapsed, Overtaken
<1>2. CASE Kick(p, r)
  BY <1>2, TableKept DEF LeaseInv, OneBatchAtATime, Kick, Drain, TypeOK
<1>3. CASE StartSend(p, r)
  <2>1. /\ phase[p] = "sending" /\ job[p][r].stage = "queued"
        /\ UNCHANGED <<status, attempts, phase>>
        /\ OnlyJob(p, r)
        /\ \A s \in Rows : s # r => due'[s] = due[s]
        /\ due'[r] => due[r] /\ ~LeaseHeld(p, r)
        /\ \/ job'[p][r].stage = "none"
           \/ LeaseHeld(p, r) /\ job'[p][r].attempt = job[p][r].attempt
    BY <1>3, StartSendEffect
  <2>2. \A q \in Replicas, s \in Rows : StillInHand(q, s)
    BY <2>1 DEF LeaseInv, OneBatchAtATime, StillInHand, Working, Open, OnlyJob
  <2>3. ASSUME NEW q \in Replicas, NEW s \in Rows,
               job'[q][s].stage = "sending", Overtaken(q, s)'
        PROVE  job'[q][s].lapsed
    <3>1. CASE q = p /\ s = r
      BY <2>1, <2>3, <3>1 DEF Overtaken, LeaseHeld, TypeOK, Job
    <3>2. CASE ~(q = p /\ s = r)
      BY <2>1, <2>3, <3>2 DEF LeaseInv, OvertakenHaveLapsed, Overtaken, OnlyJob
    <3> QED
      BY <3>1, <3>2
  <2> QED
    BY <2>1, <2>2, <2>3, NoClaim
<1>4. CASE \E result \in Results : Answer(p, r, result)
  <2>1. /\ job[p][r].stage = "sending"
        /\ UNCHANGED <<status, attempts, due, phase>>
        /\ OnlyJob(p, r)
        /\ job'[p][r].stage = "answered"
        /\ job'[p][r].attempt = job[p][r].attempt
    BY <1>4, AnswerEffect
  <2>2. \A q \in Replicas, s \in Rows : StillInHand(q, s)
    BY <2>1 DEF LeaseInv, OneBatchAtATime, StillInHand, Working, Open, OnlyJob
  <2> QED
    BY <2>1, <2>2, NoClaim DEF LeaseInv, OvertakenHaveLapsed, Overtaken, OnlyJob
<1>5. CASE Record(p, r)
  <2>1. /\ job[p][r].stage = "answered"
        /\ UNCHANGED <<attempts, phase>>
        /\ \A s \in Rows : s # r => status'[s] = status[s] /\ due'[s] = due[s]
        /\ \/ status'[r] = status[r] /\ due'[r] = due[r]
           \/ LeaseHeld(p, r) /\ ~due'[r]
        /\ OnlyJob(p, r)
        /\ \/ job'[p][r].stage = "none"
           \/ /\ job'[p][r].stage = "pruning"
              /\ job'[p][r].attempt = job[p][r].attempt
    BY <1>5, RecordEffect
  <2>2. \A q \in Replicas, s \in Rows : StillInHand(q, s)
    BY <2>1 DEF LeaseInv, OneBatchAtATime, StillInHand, Working, Open, OnlyJob
  <2>3. ASSUME NEW q \in Replicas, LeaseHeld(p, r)
        PROVE  ~Owns(q, r)'
    BY <2>1, <2>3 DEF LeaseInv, OneHand, LeaseHeld, Owns, Working, OnlyJob
  <2>4. \A s \in Rows :
          status'[s] \in {status[s], "expired", "gone"} \/ \A q \in Replicas : ~Owns(q, s)'
    BY <2>1, <2>3
  <2>5. \A q \in Replicas, s \in Rows :
          job'[q][s].stage = "sending" /\ Overtaken(q, s)' => job'[q][s].lapsed
    BY <2>1 DEF LeaseInv, OvertakenHaveLapsed, Overtaken, OnlyJob
  <2> QED
    BY <2>1, <2>2, <2>4, <2>5, NoClaim
<1>6. CASE Prune(p, r)
  <2>1. /\ job'[p][r].stage = "none"
        /\ \A q \in Replicas, s \in Rows : <<q, s>> # <<p, r>> => job'[q][s] = job[q][s]
    BY <1>6, OneJobWritten, NoJobType DEF Prune, NoJob
  <2>2. \A q \in Replicas, s \in Rows : StillInHand(q, s)
    BY <1>6, <2>1 DEF LeaseInv, OneBatchAtATime, StillInHand, Prune, Working
  <2>3. \A s \in Rows : status'[s] \in {status[s], "gone"}
    BY <1>6 DEF Prune, TypeOK
  <2> QED
    BY <1>6, <2>1, <2>2, <2>3, NoClaim
    DEF Prune, LeaseInv, OvertakenHaveLapsed, Overtaken
<1>7. CASE RowFails(p, r)
  <2>1. /\ job'[p][r].stage = "none"
        /\ \A q \in Replicas, s \in Rows : <<q, s>> # <<p, r>> => job'[q][s] = job[q][s]
    BY <1>7, OneJobWritten, NoJobType DEF RowFails, NoJob
  <2>2. \A q \in Replicas, s \in Rows : StillInHand(q, s)
    BY <1>7, <2>1 DEF LeaseInv, OneBatchAtATime, StillInHand, RowFails, Working
  <2> QED
    BY <1>7, <2>1, <2>2, NoClaim
    DEF RowFails, LeaseInv, OvertakenHaveLapsed, Overtaken
<1> QED
  BY <1>1, <1>2, <1>3, <1>4, <1>5, <1>6, <1>7 DEF RowNext

(* A send is of the row's latest attempt, or of an earlier one.            *)
LEMMA LatestOrEarlier ==
    ASSUME TypeOK, LeaseInv, NEW p \in Replicas, NEW r \in Rows,
           job[p][r].stage = "sending"
    PROVE  Owns(p, r) \/ job[p][r].attempt < attempts[r]
<1>1. job[p][r].attempt \in Nat /\ attempts[r] \in Nat
  BY DEF TypeOK, Job
<1>2. job[p][r].attempt <= attempts[r]
  BY DEF LeaseInv, LatestAttempt, Working
<1> QED
  BY <1>1, <1>2 DEF Owns

(* Time and the devices keep the lease.                                    *)
LEMMA TimeLease ==
    ASSUME TypeOK, LeaseInv, NEW r \in Rows, TimeNext(r)
    PROVE  LeaseInv'
<1> USE DEF table, drain, kicks, history
<1>1. CASE BecomesDue(r)
  <2>1. \A q \in Replicas, s \in Rows : StillInHand(q, s)
    BY <1>1 DEF LeaseInv, OneBatchAtATime, StillInHand, BecomesDue, Working
  <2>2. \A s \in Rows : s # r => due'[s] = due[s]
    BY <1>1 DEF BecomesDue, TypeOK
  <2>3. ASSUME NEW q \in Replicas, job[q][r].stage = "sending"
        PROVE  job[q][r].attempt < attempts[r]
    BY <1>1, <2>3, LatestOrEarlier DEF BecomesDue
  <2> QED
    BY <1>1, <2>1, <2>2, <2>3, NoClaim
    DEF BecomesDue, LeaseInv, OvertakenHaveLapsed, Overtaken
<1>2. CASE LeaseOutlived(r)
  <2>1. \A q \in Replicas, s \in Rows :
          /\ job'[q][s].stage = job[q][s].stage
          /\ job'[q][s].attempt = job[q][s].attempt
          /\ s # r => job'[q][s] = job[q][s]
    BY <1>2, StampEffect
  <2>2. ASSUME NEW q \in Replicas
        PROVE  job'[q][r].lapsed <=>
                  job[q][r].lapsed \/ (Owns(q, r) /\ job[q][r].stage # "queued")
    <3>1. job[q] \in [Rows -> Job] /\ job[q][r] \in Job
      BY DEF TypeOK
    <3>2. job'[q] = [job[q] EXCEPT ![r].lapsed =
                        @ \/ (Owns(q, r) /\ job[q][r].stage # "queued")]
      BY <1>2 DEF LeaseOutlived
    <3> QED
      BY <3>1, <3>2 DEF Job
  <2>3. /\ UNCHANGED <<status, attempts, phase>>
        /\ \A s \in Rows : s # r => due'[s] = due[s]
    BY <1>2 DEF LeaseOutlived, TypeOK
  <2>4. \A q \in Replicas, s \in Rows : StillInHand(q, s)
    BY <2>1, <2>3 DEF LeaseInv, OneBatchAtATime, StillInHand, Working
  <2>5. ASSUME NEW q \in Replicas, job[q][r].stage = "sending"
        PROVE  job'[q][r].lapsed
    <3>1. CASE Owns(q, r)
      <4>1. job[q][r].stage # "queued"
        BY <2>5
      <4> QED
        BY <2>2, <3>1, <4>1, Zenon
    <3>2. CASE ~Owns(q, r)
      <4>1. job[q][r].lapsed
        BY <2>5, <3>2, LatestOrEarlier DEF LeaseInv, OvertakenHaveLapsed, Overtaken
      <4> QED
        BY <2>2, <4>1, Zenon
    <3> QED
      BY <3>1, <3>2
  <2>6. \A q \in Replicas, s \in Rows :
          job'[q][s].stage = "sending" /\ Overtaken(q, s)' => job'[q][s].lapsed
    BY <2>1, <2>3, <2>5 DEF LeaseInv, OvertakenHaveLapsed, Overtaken
  <2> QED
    BY <2>3, <2>4, <2>6, NoClaim
<1>3. CASE Overdue(r)
  BY <1>3, TableKept DEF LeaseInv, OneBatchAtATime, Overdue
<1>4. CASE Released(r)
  BY <1>4, TableKept DEF LeaseInv, OneBatchAtATime, Released
<1>5. CASE Returned(r)
  <2>1. \A q \in Replicas, s \in Rows :
          /\ job'[q][s].stage = job[q][s].stage
          /\ job'[q][s].attempt = job[q][s].attempt
          /\ job'[q][s].lapsed = job[q][s].lapsed
    BY <1>5 DEF Returned, TypeOK, Job
  <2>2. UNCHANGED <<status, attempts, due, phase>>
    BY <1>5 DEF Returned
  <2>3. \A q \in Replicas, s \in Rows : StillInHand(q, s)
    BY <2>1, <2>2 DEF LeaseInv, OneBatchAtATime, StillInHand, Working
  <2> QED
    BY <2>1, <2>2, <2>3, NoClaim DEF LeaseInv, OvertakenHaveLapsed, Overtaken
<1>6. CASE Removed(r)
  <2>1. \A q \in Replicas, s \in Rows : StillInHand(q, s)
    BY <1>6 DEF LeaseInv, OneBatchAtATime, StillInHand, Removed, Working
  <2>2. \A s \in Rows : status'[s] \in {status[s], "gone"}
    BY <1>6 DEF Removed, TypeOK
  <2> QED
    BY <1>6, <2>1, <2>2, NoClaim
    DEF Removed, LeaseInv, OvertakenHaveLapsed, Overtaken
<1> QED
  BY <1>1, <1>2, <1>3, <1>4, <1>5, <1>6 DEF TimeNext

(* Every step keeps the lease.                                             *)
LEMMA LeaseStep == TypeOK /\ LeaseInv /\ [Next]_vars => LeaseInv'
<1> SUFFICES ASSUME TypeOK, LeaseInv, [Next]_vars PROVE LeaseInv'
  OBVIOUS
<1>1. CASE UNCHANGED vars
  BY <1>1, TableKept DEF LeaseInv, OneBatchAtATime, vars, table, drain
<1>2. CASE Next
  BY <1>2, DrainLease, RowLease, TimeLease DEF Next
<1> QED
  BY <1>1, <1>2

(* The types and the lease hold throughout.                                *)
LEMMA LeaseInvariant == Spec => [](TypeOK /\ LeaseInv)
<1>1. Init => TypeOK /\ LeaseInv
  BY TypeInit, LeaseInit
<1>2. TypeOK /\ LeaseInv /\ [Next]_vars => (TypeOK /\ LeaseInv)'
  BY TypeStep, LeaseStep
<1> QED
  BY <1>1, <1>2, PTL DEF Spec

(* Single flight: one batch at a time in each replica.                     *)
THEOREM SingleFlight == Spec => []OneBatchAtATime
BY LeaseInvariant, PTL DEF LeaseInv

(* The latest attempt of a push is in one hand, and no other settles it.   *)
THEOREM LatestCounts == Spec => []LatestAnswerCounts
<1>1. LeaseInv => LatestAnswerCounts
  BY DEF LeaseInv, OneHand, LatestIsOpen, LatestAnswerCounts, Owns, Working
<1> QED
  BY <1>1, LeaseInvariant, PTL

(* Two sends of one push overlap only past the lease of the earlier one.   *)
THEOREM OnlyOutlivedOverlap == Spec => []OnlyOutlivedSendsOverlap
<1>1. TypeOK /\ LeaseInv => OnlyOutlivedSendsOverlap
  <2> SUFFICES ASSUME TypeOK, LeaseInv, NEW p \in Replicas, NEW q \in Replicas,
                      NEW r \in Rows, job[p][r].stage = "sending",
                      job[q][r].stage = "sending",
                      job[p][r].attempt < job[q][r].attempt
               PROVE  job[p][r].lapsed
    BY DEF OnlyOutlivedSendsOverlap
  <2>1. job[p][r].attempt \in Nat /\ job[q][r].attempt \in Nat /\ attempts[r] \in Nat
    BY DEF TypeOK, Job
  <2>2. job[q][r].attempt <= attempts[r]
    BY DEF LeaseInv, LatestAttempt, Working
  <2>3. Overtaken(p, r)
    BY <2>1, <2>2 DEF Overtaken
  <2> QED
    BY <2>3 DEF LeaseInv, OvertakenHaveLapsed
<1> QED
  BY <1>1, LeaseInvariant, PTL

-----------------------------------------------------------------------------
(* Verdicts.                                                               *)

(* No step touches a settled push but for the loss of its device.          *)
LEMMA StatusStep == TypeOK /\ [Next]_vars => VerdictsKept
<1> SUFFICES ASSUME TypeOK, [Next]_vars PROVE VerdictsKept
  OBVIOUS
<1>1. CASE UNCHANGED status
  BY <1>1 DEF VerdictsKept
<1>2. ASSUME NEW p \in Replicas, DrainNext(p) PROVE VerdictsKept
  <2>1. CASE ExpireRows(p)
    BY <2>1 DEF ExpireRows, VerdictsKept, Waiting, Final
  <2>2. CASE Claim(p)
    <3>1. PICK batch \in SUBSET {r \in Rows : Claimable(r)} :
            status' = [r \in Rows |-> IF r \in batch THEN "sending" ELSE status[r]]
      BY <2>2 DEF Claim
    <3>2. \A r \in batch : status[r] \in Waiting
      BY DEF Claimable
    <3> QED
      BY <3>1, <3>2 DEF VerdictsKept, Waiting, Final
  <2>3. CASE ~ExpireRows(p) /\ ~Claim(p)
    <3>1. UNCHANGED status
      BY <1>2, <2>3
      DEF DrainNext, Tick, NothingToClaim, PassEnds, LoadStore, BatchEnds,
          DrainFails, Crash, table
    <3> QED
      BY <1>1, <3>1
  <2> QED
    BY <2>1, <2>2, <2>3
<1>3. ASSUME NEW p \in Replicas, NEW r \in Rows, RowNext(p, r) PROVE VerdictsKept
  <2>1. CASE Commit(p, r)
    BY <2>1 DEF Commit, VerdictsKept, Final, TypeOK
  <2>2. CASE Record(p, r)
    BY <2>2 DEF Record, Recordable, LeaseHeld, VerdictsKept, Final, TypeOK
  <2>3. CASE Prune(p, r)
    BY <2>3 DEF Prune, VerdictsKept, TypeOK
  <2>4. CASE ~Commit(p, r) /\ ~Record(p, r) /\ ~Prune(p, r)
    <3>1. UNCHANGED status
      BY <1>3, <2>4 DEF RowNext, Kick, StartSend, Answer, RowFails, table
    <3> QED
      BY <1>1, <3>1
  <2> QED
    BY <2>1, <2>2, <2>3, <2>4
<1>4. ASSUME NEW r \in Rows, TimeNext(r) PROVE VerdictsKept
  <2>1. CASE Removed(r)
    BY <2>1 DEF Removed, VerdictsKept, TypeOK
  <2>2. CASE ~Removed(r)
    <3>1. UNCHANGED status
      BY <1>4, <2>2
      DEF TimeNext, BecomesDue, LeaseOutlived, Overdue, Released, Returned, table
    <3> QED
      BY <1>1, <3>1
  <2> QED
    BY <2>1, <2>2
<1>5. CASE UNCHANGED vars
  BY <1>1, <1>5 DEF vars, table
<1> QED
  BY <1>2, <1>3, <1>4, <1>5 DEF Next

(* The verdict on a push stands for good.                                  *)
THEOREM VerdictsStand == Spec => FinalStaysFinal
<1>1. TypeOK /\ [Next]_vars => [VerdictsKept]_vars
  BY StatusStep
<1> QED
  BY <1>1, TypeCorrect, PTL DEF Spec, FinalStaysFinal

-----------------------------------------------------------------------------
(***************************************************************************)
(* The bound on attempts.  An attempt is cut short once the row may be     *)
(* claimed again before its verdict; every cut is charged to one fault or  *)
(* one outlived lease, ahead of the attempt that follows it.               *)
(***************************************************************************)

(* The replica will go on with the row's latest attempt.                   *)
Holds(p, r) == Owns(p, r) /\ ~(failed[p] /\ job[p][r].stage = "queued")

CutShort(r) ==
    status[r] = "sending" /\ (due[r] \/ \A p \in Replicas : ~Holds(p, r))

Charged(r) ==
    attempts[r] + (IF CutShort(r) THEN 1 ELSE 0) <= MaxAttempts + faults + outlived

FailedAreSending == \A p \in Replicas : failed[p] => phase[p] = "sending"

RetriesAreLeft ==
    /\ \A p \in Replicas, r \in Rows :
          job[p][r].stage \in {"queued", "answered"} /\ job[p][r].verdict = "pending"
              => job[p][r].attempt < MaxAttempts
    /\ \A r \in Rows :
          /\ status[r] = "absent" => attempts[r] = 0
          /\ status[r] = "pending" => attempts[r] < MaxAttempts

BoundInv == FailedAreSending /\ RetriesAreLeft /\ \A r \in Rows : Charged(r)

(* The charges hold at the start.                                          *)
LEMMA BoundInit == Init => BoundInv
BY DEF Init, BoundInv, FailedAreSending, RetriesAreLeft, Charged, CutShort, NoJob

(* A row stays charged if nothing new cuts its attempt short.              *)
LEMMA NothingCut ==
    ASSUME TypeOK, TypeOK', NEW r \in Rows, Charged(r),
           attempts'[r] = attempts[r], UNCHANGED <<faults, outlived>>,
           CutShort(r)' => CutShort(r)
    PROVE  Charged(r)'
BY DEF Charged, TypeOK

(* A fault or an outlived lease pays for whatever it cuts short.           *)
LEMMA CutIsPaid ==
    ASSUME TypeOK, TypeOK', NEW r \in Rows, Charged(r),
           attempts'[r] = attempts[r],
           faults' + outlived' = faults + outlived + 1
    PROVE  Charged(r)'
<1>1. /\ attempts[r] \in Nat /\ faults \in Nat /\ outlived \in Nat
      /\ faults' \in Nat /\ outlived' \in Nat /\ MaxAttempts \in Nat
  BY DEF TypeOK
<1>2. attempts[r] <= MaxAttempts + faults + outlived
  BY <1>1 DEF Charged
<1> QED
  BY <1>1, <1>2 DEF Charged

(* A step that touches neither the rows, the work nor the failures.        *)
LEMMA WorkKept ==
    ASSUME TypeOK, BoundInv,
           UNCHANGED <<status, attempts, due, job, failed, faults, outlived>>,
           \A p \in Replicas : failed[p] => phase'[p] = phase[p]
    PROVE  BoundInv'
BY DEF BoundInv, FailedAreSending, RetriesAreLeft, Charged, CutShort, Holds, Owns

(* A fault: some work is dropped, and no row changes.                      *)
LEMMA FaultBound ==
    ASSUME TypeOK, TypeOK', BoundInv, FailedAreSending',
           UNCHANGED <<status, attempts, outlived>>, faults' = faults + 1,
           \A p \in Replicas, r \in Rows :
              job'[p][r].stage = "none" \/ job'[p][r] = job[p][r]
    PROVE  BoundInv'
<1>1. RetriesAreLeft'
  BY DEF BoundInv, RetriesAreLeft
<1>2. faults' + outlived' = faults + outlived + 1
  BY DEF TypeOK
<1>3. \A r \in Rows : Charged(r)'
  BY <1>2, CutIsPaid DEF BoundInv
<1> QED
  BY <1>1, <1>3 DEF BoundInv

(* A claim spends what its row has been charged.                           *)
LEMMA ClaimBound ==
    ASSUME TypeOK, TypeOK', LeaseInv, BoundInv, NEW p \in Replicas, Claim(p)
    PROVE  BoundInv'
<1>1. PICK batch \in SUBSET Rows : Claims(p, batch)
  BY ClaimEffect
<1>2. UNCHANGED <<failed, faults, outlived>>
  BY DEF Claim, history
<1>3. ~failed[p] /\ FailedAreSending'
  BY <1>1, <1>2 DEF BoundInv, FailedAreSending, Claims
<1>4. \A q \in Replicas, r \in Rows :
        job[q][r].attempt \in Nat /\ attempts[r] \in Nat /\ attempts'[r] \in Nat
  BY DEF TypeOK, Job
<1>5. \A r \in Rows : job[p][r].stage = "none"
  BY <1>1 DEF LeaseInv, OneBatchAtATime, Claims, Working
<1>6. RetriesAreLeft'
  <2>1. ASSUME NEW q \in Replicas, NEW r \in Rows,
               job'[q][r].stage \in {"queued", "answered"}, job'[q][r].verdict = "pending"
        PROVE  job'[q][r].attempt < MaxAttempts
    BY <1>1, <2>1 DEF BoundInv, RetriesAreLeft, Claims
  <2>2. ASSUME NEW r \in Rows
        PROVE  /\ status'[r] = "absent" => attempts'[r] = 0
               /\ status'[r] = "pending" => attempts'[r] < MaxAttempts
    BY <1>1 DEF BoundInv, RetriesAreLeft, Claims
  <2> QED
    BY <2>1, <2>2 DEF RetriesAreLeft
<1>7. ASSUME NEW r \in Rows, r \in batch
      PROVE  Charged(r)'
  <2>1. status'[r] = "sending" /\ attempts'[r] = attempts[r] + 1 /\ ~due'[r]
    BY <1>1, <1>7 DEF Claims
  <2>2. Holds(p, r)'
    BY <1>1, <1>2, <1>3, <1>7, <2>1 DEF Claims, Holds, Owns
  <2>3. ~CutShort(r)'
    BY <2>1, <2>2 DEF CutShort
  <2>4. attempts[r] + 1 <= MaxAttempts + faults + outlived
    <3>1. status[r] \in Waiting /\ due[r]
      BY <1>1, <1>7 DEF Claims
    <3>2. CASE status[r] = "pending"
      BY <1>4, <3>2 DEF BoundInv, RetriesAreLeft, TypeOK
    <3>3. CASE status[r] = "sending"
      BY <3>1, <3>3 DEF BoundInv, Charged, CutShort
    <3> QED
      BY <3>1, <3>2, <3>3 DEF Waiting
  <2> QED
    BY <1>2, <1>4, <2>1, <2>3, <2>4 DEF Charged, TypeOK
<1>8. ASSUME NEW r \in Rows, r \notin batch
      PROVE  Charged(r)'
  <2>1. status'[r] = status[r] /\ attempts'[r] = attempts[r] /\ (due'[r] <=> due[r])
    BY <1>1, <1>8 DEF Claims
  <2>2. \A q \in Replicas : Holds(q, r) => Holds(q, r)'
    BY <1>1, <1>2, <1>5, <2>1 DEF Claims, Holds, Owns
  <2>3. CutShort(r)' => CutShort(r)
    BY <2>1, <2>2 DEF CutShort
  <2> QED
    BY <1>2, <2>1, <2>3, NothingCut DEF BoundInv
<1> QED
  BY <1>3, <1>6, <1>7, <1>8 DEF BoundInv

(* The steps of a drain keep the charges.                                  *)
LEMMA DrainBound ==
    ASSUME TypeOK, TypeOK', LeaseInv, BoundInv, NEW p \in Replicas, DrainNext(p)
    PROVE  BoundInv'
<1> USE DEF table, history
<1>1. CASE Tick(p)
  BY <1>1, WorkKept DEF BoundInv, FailedAreSending, Tick, Drain, TypeOK
<1>2. CASE ExpireRows(p)
  <2>1. UNCHANGED <<attempts, due, job, failed, faults, outlived>>
    BY <1>2 DEF ExpireRows
  <2>2. FailedAreSending'
    BY <1>2 DEF BoundInv, FailedAreSending, ExpireRows, TypeOK
  <2>3. \A r \in Rows : status'[r] \in {status[r], "expired"}
    BY <1>2 DEF ExpireRows
  <2>4. RetriesAreLeft'
    BY <2>1, <2>3 DEF BoundInv, RetriesAreLeft
  <2>5. \A r \in Rows : CutShort(r)' => CutShort(r)
    BY <2>1, <2>3 DEF CutShort, Holds, Owns
  <2>6. \A r \in Rows : Charged(r)'
    BY <2>1, <2>5, NothingCut DEF BoundInv
  <2> QED
    BY <2>2, <2>4, <2>6 DEF BoundInv
<1>3. CASE Claim(p)
  BY <1>3, ClaimBound
<1>4. CASE NothingToClaim(p)
  BY <1>4, WorkKept DEF BoundInv, FailedAreSending, NothingToClaim, TypeOK
<1>5. CASE PassEnds(p)
  BY <1>5, WorkKept DEF BoundInv, FailedAreSending, PassEnds, TypeOK
<1>6. CASE LoadStore(p)
  BY <1>6, WorkKept DEF BoundInv, FailedAreSending, LoadStore, TypeOK
<1>7. CASE BatchEnds(p)
  <2>1. /\ UNCHANGED <<status, attempts, due, faults, outlived>>
        /\ ~failed'[p]
        /\ \A r \in Rows : job'[p][r].stage = "none"
        /\ \A q \in Replicas : q # p =>
              phase'[q] = phase[q] /\ failed'[q] = failed[q] /\ job'[q] = job[q]
    BY <1>7, BatchEndsEffect
  <2>2. FailedAreSending'
    BY <2>1 DEF BoundInv, FailedAreSending
  <2>3. RetriesAreLeft'
    BY <2>1 DEF BoundInv, RetriesAreLeft
  <2>4. \A r \in Rows : ~Holds(p, r)
    BY <1>7 DEF BatchEnds, AllSettled, Working, Holds, Owns
  <2>5. \A q \in Replicas, r \in Rows : Holds(q, r) => Holds(q, r)'
    BY <2>1, <2>4 DEF Holds, Owns
  <2>6. \A r \in Rows : CutShort(r)' => CutShort(r)
    BY <2>1, <2>5 DEF CutShort
  <2>7. \A r \in Rows : Charged(r)'
    BY <2>1, <2>6, NothingCut DEF BoundInv
  <2> QED
    BY <2>2, <2>3, <2>7 DEF BoundInv
<1>8. CASE DrainFails(p)
  <2>1. FailedAreSending'
    BY <1>8 DEF BoundInv, FailedAreSending, DrainFails, TypeOK
  <2> QED
    BY <1>8, <2>1, JobsDropped, FaultBound DEF DrainFails, NoJob
<1>9. CASE Crash(p)
  <2>1. FailedAreSending'
    BY <1>9, Zenon DEF BoundInv, FailedAreSending, Crash, TypeOK
  <2> QED
    BY <1>9, <2>1, JobsDropped, FaultBound DEF Crash, NoJob
<1> QED
  BY <1>1, <1>2, <1>3, <1>4, <1>5, <1>6, <1>7, <1>8, <1>9 DEF DrainNext

(* The steps on one row keep the charges.                                  *)
LEMMA RowBound ==
    ASSUME TypeOK, TypeOK', LeaseInv, BoundInv, NEW p \in Replicas, NEW r \in Rows,
           RowNext(p, r)
    PROVE  BoundInv'
<1> USE DEF table, drain, kicks, history
<1>1. CASE Commit(p, r)
  <2>1. UNCHANGED <<attempts, job, phase, failed, faults, outlived>>
    BY <1>1 DEF Commit
  <2>2. /\ status[r] = "absent" /\ status'[r] = "pending"
        /\ \A s \in Rows : s # r => status'[s] = status[s] /\ due'[s] = due[s]
    BY <1>1 DEF Commit, TypeOK
  <2>3. RetriesAreLeft'
    BY <2>1, <2>2 DEF BoundInv, RetriesAreLeft
  <2>4. \A s \in Rows : CutShort(s)' => CutShort(s)
    BY <2>1, <2>2 DEF CutShort, Holds, Owns
  <2>5. \A s \in Rows : Charged(s)'
    BY <2>1, <2>4, NothingCut DEF BoundInv
  <2> QED
    BY <2>1, <2>3, <2>5 DEF BoundInv, FailedAreSending
<1>2. CASE Kick(p, r)
  BY <1>2, WorkKept DEF BoundInv, FailedAreSending, Kick, Drain, TypeOK
<1>3. CASE StartSend(p, r)
  <2>1. /\ job[p][r].stage = "queued"
        /\ UNCHANGED <<status, attempts, phase, failed, faults, outlived>>
        /\ \A s \in Rows : s # r => due'[s] = due[s]
        /\ due'[r] <=> due[r] /\ ~LeaseHeld(p, r)
        /\ OnlyJob(p, r)
        /\ \/ job'[p][r].stage = "none" /\ ~LeaseHeld(p, r)
           \/ /\ LeaseHeld(p, r)
              /\ job'[p][r].stage \in {"sending", "answered"}
              /\ job'[p][r].attempt = job[p][r].attempt
              /\ job'[p][r].verdict = job[p][r].verdict
    BY <1>3, StartSendEffect
  <2>2. RetriesAreLeft'
    BY <2>1 DEF BoundInv, RetriesAreLeft, OnlyJob
  <2>3. \A q \in Replicas, s \in Rows : s # r /\ Holds(q, s) => Holds(q, s)'
    BY <2>1 DEF Holds, Owns, OnlyJob
  <2>4. CASE LeaseHeld(p, r)
    <3>1. Holds(p, r)' /\ ~due'[r]
      BY <2>1, <2>4 DEF Holds, Owns, LeaseHeld
    <3>2. \A s \in Rows : CutShort(s)' => CutShort(s)
      BY <2>1, <2>3, <3>1 DEF CutShort
    <3> QED
      BY <2>1, <2>2, <3>2, NothingCut DEF BoundInv, FailedAreSending
  <2>5. CASE ~LeaseHeld(p, r)
    <3>1. status[r] = "sending" => ~Holds(p, r)
      BY <2>5 DEF Holds, Owns, LeaseHeld
    <3>2. \A q \in Replicas : q # p /\ Holds(q, r) => Holds(q, r)'
      BY <2>1 DEF Holds, Owns, OnlyJob
    <3>3. \A s \in Rows : CutShort(s)' => CutShort(s)
      BY <2>1, <2>3, <2>5, <3>1, <3>2 DEF CutShort
    <3> QED
      BY <2>1, <2>2, <3>3, NothingCut DEF BoundInv, FailedAreSending
  <2> QED
    BY <2>4, <2>5
<1>4. CASE \E result \in Results : Answer(p, r, result)
  <2>1. PICK result \in Results : Answer(p, r, result)
    BY <1>4
  <2>2. /\ job[p][r].stage = "sending"
        /\ UNCHANGED <<status, attempts, due, phase, failed, faults, outlived>>
        /\ OnlyJob(p, r)
        /\ job'[p][r].stage = "answered"
        /\ job'[p][r].attempt = job[p][r].attempt
        /\ job'[p][r].verdict = Verdict(r, result, job[p][r].attempt)
    BY <2>1, AnswerEffect
  <2>3. job'[p][r].verdict = "pending" => job[p][r].attempt < MaxAttempts
    <3>1. job[p][r].attempt \in Nat /\ MaxAttempts \in Nat /\ overdue[r] \in BOOLEAN
      BY DEF TypeOK, Job
    <3>2. Verdict(r, result, job[p][r].attempt) = "pending" =>
             ~OutOfAttempts(job[p][r].attempt)
      BY <3>1 DEF Verdict, Results
    <3> QED
      BY <2>2, <3>1, <3>2 DEF OutOfAttempts
  <2>4. RetriesAreLeft'
    BY <2>2, <2>3 DEF BoundInv, RetriesAreLeft, OnlyJob
  <2>5. \A q \in Replicas, s \in Rows : Holds(q, s) => Holds(q, s)'
    BY <2>2 DEF Holds, Owns, OnlyJob
  <2>6. \A s \in Rows : CutShort(s)' => CutShort(s)
    BY <2>2, <2>5 DEF CutShort
  <2> QED
    BY <2>2, <2>4, <2>6, NothingCut DEF BoundInv, FailedAreSending
<1>5. CASE Record(p, r)
  <2>1. /\ job[p][r].stage = "answered"
        /\ UNCHANGED <<attempts, phase, failed, faults, outlived>>
        /\ \A s \in Rows : s # r => status'[s] = status[s] /\ due'[s] = due[s]
        /\ \/ ~LeaseHeld(p, r) /\ status'[r] = status[r] /\ due'[r] = due[r]
           \/ LeaseHeld(p, r) /\ status'[r] = job[p][r].verdict /\ ~due'[r]
        /\ OnlyJob(p, r)
        /\ \/ job'[p][r].stage = "none"
           \/ /\ job'[p][r].stage = "pruning"
              /\ job'[p][r].attempt = job[p][r].attempt
    BY <1>5, RecordEffect
  <2>2. job[p][r].verdict \in Final \cup {"pending"}
    BY DEF TypeOK, Job
  <2>3. RetriesAreLeft'
    BY <2>1, <2>2 DEF BoundInv, RetriesAreLeft, OnlyJob, LeaseHeld, Final
  <2>4. \A q \in Replicas, s \in Rows :
          <<q, s>> # <<p, r>> /\ Holds(q, s) => Holds(q, s)'
    BY <2>1 DEF Holds, Owns, OnlyJob
  <2>5. \A s \in Rows : s # r => (CutShort(s)' => CutShort(s))
    BY <2>1, <2>4 DEF CutShort
  <2>6. CutShort(r)' => CutShort(r)
    <3>1. CASE LeaseHeld(p, r)
      BY <2>1, <2>2, <3>1 DEF CutShort, Final, LeaseHeld
    <3>2. CASE ~LeaseHeld(p, r)
      BY <2>1, <2>4, <3>2 DEF CutShort, Holds, Owns, LeaseHeld
    <3> QED
      BY <3>1, <3>2
  <2>7. \A s \in Rows : CutShort(s)' => CutShort(s)
    BY <2>5, <2>6
  <2> QED
    BY <2>1, <2>3, <2>7, NothingCut DEF BoundInv, FailedAreSending
<1>6. CASE Prune(p, r)
  <2>1. /\ job[p][r].stage = "pruning"
        /\ UNCHANGED <<attempts, due, phase, failed, faults, outlived>>
        /\ \A s \in Rows : status'[s] \in {status[s], "gone"}
    BY <1>6 DEF Prune, TypeOK
  <2>2. job'[p][r].stage = "none" /\ OnlyJob(p, r)
    BY <1>6, OneJobWritten, NoJobType DEF Prune, NoJob, OnlyJob
  <2>3. RetriesAreLeft'
    BY <2>1, <2>2 DEF BoundInv, RetriesAreLeft, OnlyJob
  <2>4. \A q \in Replicas, s \in Rows : Holds(q, s) => Holds(q, s)'
    BY <2>1, <2>2 DEF Holds, Owns, OnlyJob
  <2>5. \A s \in Rows : CutShort(s)' => CutShort(s)
    BY <2>1, <2>4 DEF CutShort
  <2> QED
    BY <2>1, <2>3, <2>5, NothingCut DEF BoundInv, FailedAreSending
<1>7. CASE RowFails(p, r)
  <2>1. job'[p][r].stage = "none" /\ OnlyJob(p, r)
    BY <1>7, OneJobWritten, NoJobType DEF RowFails, NoJob, OnlyJob
  <2>2. FailedAreSending'
    BY <1>7 DEF BoundInv, FailedAreSending, RowFails, TypeOK
  <2> QED
    BY <1>7, <2>1, <2>2, FaultBound DEF RowFails, OnlyJob
<1> QED
  BY <1>1, <1>2, <1>3, <1>4, <1>5, <1>6, <1>7 DEF RowNext

(* Time and the devices keep the charges.                                  *)
LEMMA TimeBound ==
    ASSUME TypeOK, TypeOK', BoundInv, NEW r \in Rows, TimeNext(r)
    PROVE  BoundInv'
<1> USE DEF table, drain, kicks, history
<1>1. CASE BecomesDue(r)
  <2>1. UNCHANGED <<status, attempts, job, phase, failed, faults, outlived>>
    BY <1>1 DEF BecomesDue
  <2>2. \A s \in Rows : s # r => due'[s] = due[s]
    BY <1>1 DEF BecomesDue, TypeOK
  <2>3. \A q \in Replicas : ~Holds(q, r)
    BY <1>1 DEF BecomesDue, Holds
  <2>4. RetriesAreLeft'
    BY <2>1 DEF BoundInv, RetriesAreLeft
  <2>5. \A q \in Replicas, s \in Rows : Holds(q, s) => Holds(q, s)'
    BY <2>1 DEF Holds, Owns
  <2>6. \A s \in Rows : CutShort(s)' => CutShort(s)
    BY <2>1, <2>2, <2>3, <2>5 DEF CutShort
  <2> QED
    BY <2>1, <2>4, <2>6, NothingCut DEF BoundInv, FailedAreSending
<1>2. CASE LeaseOutlived(r)
  <2>1. UNCHANGED <<status, attempts, phase, failed, faults>> /\ outlived' = outlived + 1
    BY <1>2 DEF LeaseOutlived
  <2>2. \A q \in Replicas, s \in Rows :
          /\ job'[q][s].stage = job[q][s].stage
          /\ job'[q][s].attempt = job[q][s].attempt
          /\ job'[q][s].verdict = job[q][s].verdict
    BY <1>2, StampEffect
  <2>3. RetriesAreLeft'
    BY <2>1, <2>2 DEF BoundInv, RetriesAreLeft
  <2>4. faults' + outlived' = faults + outlived + 1
    BY <2>1 DEF TypeOK
  <2> QED
    BY <2>1, <2>3, <2>4, CutIsPaid DEF BoundInv, FailedAreSending
<1>3. CASE Overdue(r)
  BY <1>3, WorkKept DEF Overdue
<1>4. CASE Released(r)
  BY <1>4, WorkKept DEF Released
<1>5. CASE Returned(r)
  <2>1. UNCHANGED <<status, attempts, due, phase, failed, faults, outlived>>
    BY <1>5 DEF Returned
  <2>2. \A q \in Replicas, s \in Rows :
          /\ job'[q][s].stage = job[q][s].stage
          /\ job'[q][s].attempt = job[q][s].attempt
          /\ job'[q][s].verdict = job[q][s].verdict
    BY <1>5, StampEffect
  <2>3. RetriesAreLeft'
    BY <2>1, <2>2 DEF BoundInv, RetriesAreLeft
  <2>4. \A s \in Rows : CutShort(s)' => CutShort(s)
    BY <2>1, <2>2 DEF CutShort, Holds, Owns
  <2> QED
    BY <2>1, <2>3, <2>4, NothingCut DEF BoundInv, FailedAreSending
<1>6. CASE Removed(r)
  <2>1. UNCHANGED <<attempts, due, job, phase, failed, faults, outlived>>
    BY <1>6 DEF Removed
  <2>2. \A s \in Rows : status'[s] \in {status[s], "gone"}
    BY <1>6 DEF Removed, TypeOK
  <2>3. RetriesAreLeft'
    BY <2>1, <2>2 DEF BoundInv, RetriesAreLeft
  <2>4. \A s \in Rows : CutShort(s)' => CutShort(s)
    BY <2>1, <2>2 DEF CutShort, Holds, Owns
  <2> QED
    BY <2>1, <2>3, <2>4, NothingCut DEF BoundInv, FailedAreSending
<1> QED
  BY <1>1, <1>2, <1>3, <1>4, <1>5, <1>6 DEF TimeNext

(* Every step keeps the charges.                                           *)
LEMMA BoundStep == TypeOK /\ TypeOK' /\ LeaseInv /\ BoundInv /\ [Next]_vars => BoundInv'
<1> SUFFICES ASSUME TypeOK, TypeOK', LeaseInv, BoundInv, [Next]_vars PROVE BoundInv'
  OBVIOUS
<1>1. CASE UNCHANGED vars
  BY <1>1, WorkKept DEF vars, table, drain, history
<1>2. CASE Next
  BY <1>2, DrainBound, RowBound, TimeBound DEF Next
<1> QED
  BY <1>1, <1>2

(* A push is tried past its limit only by the attempts that were cut short.*)
THEOREM AttemptsBounded == Spec => []AttemptsAreBounded
<1>1. Init => BoundInv
  BY BoundInit
<1>2. TypeOK /\ TypeOK' /\ LeaseInv /\ BoundInv /\ [Next]_vars => BoundInv'
  BY BoundStep
<1>3. TypeOK /\ BoundInv => AttemptsAreBounded
  <2> SUFFICES ASSUME TypeOK, BoundInv, NEW r \in Rows
               PROVE  attempts[r] <= MaxAttempts + faults + outlived
    BY DEF AttemptsAreBounded
  <2>1. attempts[r] \in Nat /\ faults \in Nat /\ outlived \in Nat /\ MaxAttempts \in Nat
    BY DEF TypeOK
  <2> QED
    BY <2>1 DEF BoundInv, Charged
<1> QED
  BY <1>1, <1>2, <1>3, LeaseInvariant, PTL DEF Spec

-----------------------------------------------------------------------------
(***************************************************************************)
(* What a drain leaves behind and what it rechecks.                        *)
(***************************************************************************)
(***************************************************************************)
(* Rechecks.  A job whose device has been away since before its claim finds*)
(* the device away in the snapshot, which is read after the claim.         *)
(***************************************************************************)
BarredAreAway ==
    \A p \in Replicas, r \in Rows :
        Working(p, r) /\ job[p][r].barred => ~addressed[r]

BarredAreSeen ==
    \A p \in Replicas, r \in Rows :
        Working(p, r) /\ job[p][r].barred /\ phase[p] = "sending"
            => r \notin snapshot[p] /\ job[p][r].stage # "sending"

SendsFollowTheSnapshot ==
    \A p \in Replicas, r \in Rows :
        job[p][r].stage \notin {"none", "queued"} => phase[p] = "sending"

RecheckInv == BarredAreAway /\ BarredAreSeen /\ SendsFollowTheSnapshot

(* Work that goes on, in the same phase, with the same snapshot, and has   *)
(* not begun to send.                                                      *)
GoesOn(p, r) ==
    job'[p][r].stage # "none" =>
        /\ Working(p, r)
        /\ job'[p][r].barred => job[p][r].barred
        /\ phase'[p] = phase[p] /\ snapshot'[p] = snapshot[p]
        /\ job'[p][r].stage \in {job[p][r].stage, "answered", "pruning"}
        /\ job'[p][r].stage # job[p][r].stage => phase[p] = "sending"

(* Work that only goes on, with no device returning, keeps the rechecks.   *)
LEMMA RecheckKept ==
    ASSUME TypeOK, RecheckInv,
           \A r \in Rows : addressed'[r] => addressed[r],
           \A p \in Replicas, r \in Rows : GoesOn(p, r)
    PROVE  RecheckInv'
<1>1. BarredAreAway'
  BY DEF RecheckInv, BarredAreAway, GoesOn, Working
<1>2. BarredAreSeen'
  BY DEF RecheckInv, BarredAreSeen, GoesOn, Working
<1>3. SendsFollowTheSnapshot'
  BY DEF RecheckInv, SendsFollowTheSnapshot, GoesOn, Working
<1> QED
  BY <1>1, <1>2, <1>3 DEF RecheckInv

(* The rechecks hold at the start.                                         *)
LEMMA RecheckInit == Init => RecheckInv
BY DEF Init, RecheckInv, BarredAreAway, BarredAreSeen, SendsFollowTheSnapshot,
       Working, NoJob

(* A claim: what is barred is away.                                        *)
LEMMA ClaimRecheck ==
    ASSUME TypeOK, RecheckInv, NEW p \in Replicas, Claim(p)
    PROVE  RecheckInv'
<1>1. PICK batch \in SUBSET Rows : Claims(p, batch)
  BY ClaimEffect
<1>2. UNCHANGED <<addressed, snapshot>>
  BY DEF Claim
<1>3. \A r \in Rows : job'[p][r].stage \in {"none", "queued"}
  BY <1>1 DEF Claims
<1>4. \A r \in Rows : Working(p, r)' => (job'[p][r].barred <=> ~addressed[r])
  BY <1>1 DEF Claims, Working
<1>5. \A q \in Replicas, r \in Rows :
        q # p => job'[q][r] = job[q][r] /\ phase'[q] = phase[q]
  BY <1>1 DEF Claims
<1>6. phase'[p] = "loading"
  BY <1>1 DEF Claims
<1>7. BarredAreAway'
  BY <1>2, <1>4, <1>5 DEF RecheckInv, BarredAreAway, Working
<1>8. BarredAreSeen'
  BY <1>2, <1>5, <1>6 DEF RecheckInv, BarredAreSeen, Working
<1>9. SendsFollowTheSnapshot'
  BY <1>3, <1>5 DEF RecheckInv, SendsFollowTheSnapshot
<1> QED
  BY <1>7, <1>8, <1>9 DEF RecheckInv

(* The snapshot sees what is away.                                         *)
LEMMA LoadRecheck ==
    ASSUME TypeOK, RecheckInv, NEW p \in Replicas, LoadStore(p)
    PROVE  RecheckInv'
<1>1. /\ UNCHANGED <<addressed, job>>
      /\ phase[p] = "loading" /\ phase'[p] = "sending"
      /\ snapshot'[p] = {r \in Rows : addressed[r]}
      /\ \A q \in Replicas : q # p => phase'[q] = phase[q] /\ snapshot'[q] = snapshot[q]
  BY DEF LoadStore, SnapshotOfBatch, TypeOK
<1>2. BarredAreAway'
  BY <1>1 DEF RecheckInv, BarredAreAway, Working
<1>3. SendsFollowTheSnapshot'
  BY <1>1 DEF RecheckInv, SendsFollowTheSnapshot
<1>4. ASSUME NEW q \in Replicas, NEW r \in Rows,
             Working(q, r)', job'[q][r].barred, phase'[q] = "sending"
      PROVE  r \notin snapshot'[q] /\ job'[q][r].stage # "sending"
  <2>1. CASE q = p
    BY <1>1, <1>4, <2>1
    DEF RecheckInv, BarredAreAway, SendsFollowTheSnapshot, Working
  <2>2. CASE q # p
    BY <1>1, <1>4, <2>2 DEF RecheckInv, BarredAreSeen, Working
  <2> QED
    BY <2>1, <2>2
<1> QED
  BY <1>2, <1>3, <1>4 DEF RecheckInv, BarredAreSeen

(* The steps of a drain keep the rechecks.                                 *)
LEMMA DrainRecheck ==
    ASSUME TypeOK, LeaseInv, RecheckInv, NEW p \in Replicas, DrainNext(p)
    PROVE  RecheckInv'
<1> USE DEF table
<1>1. CASE Claim(p) \/ LoadStore(p)
  BY <1>1, ClaimRecheck, LoadRecheck
<1>2. CASE Tick(p)
  BY <1>2, RecheckKept
  DEF LeaseInv, OneBatchAtATime, GoesOn, Tick, Drain, TypeOK, drain, Working
<1>3. CASE ExpireRows(p)
  BY <1>3, RecheckKept
  DEF LeaseInv, OneBatchAtATime, GoesOn, ExpireRows, TypeOK, Working
<1>4. CASE NothingToClaim(p)
  BY <1>4, RecheckKept
  DEF LeaseInv, OneBatchAtATime, GoesOn, NothingToClaim, TypeOK, Working
<1>5. CASE PassEnds(p)
  BY <1>5, RecheckKept
  DEF LeaseInv, OneBatchAtATime, GoesOn, PassEnds, TypeOK, Working
<1>6. CASE BatchEnds(p)
  <2>1. \A q \in Replicas : q # p => snapshot'[q] = snapshot[q]
    BY <1>6 DEF BatchEnds, TypeOK
  <2>2. \A q \in Replicas, r \in Rows : GoesOn(q, r)
    BY <1>6, <2>1, BatchEndsEffect DEF GoesOn, Working
  <2> QED
    BY <1>6, <2>2, RecheckKept DEF BatchEnds
<1>7. CASE DrainFails(p)
  <2>1. \A q \in Replicas : q # p => phase'[q] = phase[q] /\ snapshot'[q] = snapshot[q]
    BY <1>7 DEF DrainFails, TypeOK
  <2>2. \A q \in Replicas, r \in Rows : GoesOn(q, r)
    BY <1>7, <2>1, JobsDropped DEF DrainFails, GoesOn, Working, NoJob
  <2> QED
    BY <1>7, <2>2, RecheckKept DEF DrainFails
<1>8. CASE Crash(p)
  <2>1. \A q \in Replicas : q # p => phase'[q] = phase[q] /\ snapshot'[q] = snapshot[q]
    BY <1>8 DEF Crash, TypeOK
  <2>2. \A q \in Replicas, r \in Rows : GoesOn(q, r)
    BY <1>8, <2>1, JobsDropped DEF Crash, GoesOn, Working, NoJob
  <2> QED
    BY <1>8, <2>2, RecheckKept DEF Crash
<1> QED
  BY <1>1, <1>2, <1>3, <1>4, <1>5, <1>6, <1>7, <1>8 DEF DrainNext

(* The steps on one row keep the rechecks.                                 *)
LEMMA RowRecheck ==
    ASSUME TypeOK, LeaseInv, RecheckInv, NEW p \in Replicas, NEW r \in Rows, RowNext(p, r)
    PROVE  RecheckInv'
<1> USE DEF table, drain
<1>1. CASE Commit(p, r)
  BY <1>1, RecheckKept DEF GoesOn, Commit, Working
<1>2. CASE Kick(p, r)
  BY <1>2, RecheckKept
  DEF LeaseInv, OneBatchAtATime, GoesOn, Kick, Drain, TypeOK, Working
<1>3. CASE StartSend(p, r)
  <2>1. /\ phase[p] = "sending" /\ job[p][r].stage = "queued"
        /\ OnlyJob(p, r)
        /\ \/ job'[p][r].stage = "none"
           \/ /\ job'[p][r].stage \in {"sending", "answered"}
              /\ job'[p][r].stage = "sending" => r \in snapshot[p]
              /\ job'[p][r].barred = job[p][r].barred
    BY <1>3, StartSendEffect
  <2>2. UNCHANGED <<addressed, phase, snapshot>>
    BY <1>3 DEF StartSend
  <2>3. Working(p, r)
    BY <2>1 DEF Working
  <2>4. BarredAreAway'
    BY <2>1, <2>2, <2>3 DEF RecheckInv, BarredAreAway, OnlyJob, Working
  <2>5. BarredAreSeen'
    BY <2>1, <2>2, <2>3 DEF RecheckInv, BarredAreSeen, OnlyJob, Working
  <2>6. SendsFollowTheSnapshot'
    BY <2>1, <2>2 DEF RecheckInv, SendsFollowTheSnapshot, OnlyJob
  <2> QED
    BY <2>4, <2>5, <2>6 DEF RecheckInv
<1>4. CASE \E result \in Results : Answer(p, r, result)
  <2>1. /\ job[p][r].stage = "sending"
        /\ OnlyJob(p, r)
        /\ job'[p][r].stage = "answered"
        /\ job'[p][r].barred = job[p][r].barred
    BY <1>4, AnswerEffect
  <2>2. UNCHANGED <<addressed, phase, snapshot>>
    BY <1>4 DEF Answer
  <2>3. \A q \in Replicas, s \in Rows : GoesOn(q, s)
    BY <2>1, <2>2 DEF GoesOn, OnlyJob, Working, RecheckInv, SendsFollowTheSnapshot
  <2> QED
    BY <2>2, <2>3, RecheckKept
<1>5. CASE Record(p, r)
  <2>1. /\ job[p][r].stage = "answered"
        /\ OnlyJob(p, r)
        /\ \/ job'[p][r].stage = "none"
           \/ job'[p][r].stage = "pruning" /\ job'[p][r].barred = job[p][r].barred
    BY <1>5, RecordEffect
  <2>2. UNCHANGED <<addressed, phase, snapshot>>
    BY <1>5 DEF Record
  <2>3. \A q \in Replicas, s \in Rows : GoesOn(q, s)
    BY <2>1, <2>2 DEF GoesOn, OnlyJob, Working, RecheckInv, SendsFollowTheSnapshot
  <2> QED
    BY <2>2, <2>3, RecheckKept
<1>6. CASE Prune(p, r) \/ RowFails(p, r)
  <2>1. job'[p][r].stage = "none" /\ OnlyJob(p, r)
    BY <1>6, OneJobWritten, NoJobType DEF Prune, RowFails, NoJob, OnlyJob
  <2>2. UNCHANGED <<addressed, phase, snapshot>>
    BY <1>6 DEF Prune, RowFails
  <2>3. \A q \in Replicas, s \in Rows : GoesOn(q, s)
    BY <2>1, <2>2 DEF GoesOn, OnlyJob, Working
  <2> QED
    BY <2>2, <2>3, RecheckKept
<1> QED
  BY <1>1, <1>2, <1>3, <1>4, <1>5, <1>6 DEF RowNext

(* Time and the devices keep the rechecks.                                 *)
LEMMA TimeRecheck ==
    ASSUME TypeOK, RecheckInv, NEW r \in Rows, TimeNext(r)
    PROVE  RecheckInv'
<1> USE DEF table, drain
<1>1. CASE LeaseOutlived(r)
  BY <1>1, StampEffect, RecheckKept DEF GoesOn, LeaseOutlived, Working
<1>2. CASE Returned(r)
  <2>1. UNCHANGED <<phase, snapshot>>
    BY <1>2 DEF Returned
  <2>2. \A q \in Replicas, s \in Rows :
          /\ job'[q][s].stage = job[q][s].stage
          /\ job'[q][s].barred => job[q][s].barred
    BY <1>2, StampEffect
  <2>3. \A s \in Rows : s # r => addressed'[s] = addressed[s]
    BY <1>2 DEF Returned, TypeOK
  <2>4. \A q \in Replicas : ~job'[q][r].barred
    <3>1. ASSUME NEW q \in Replicas PROVE ~job'[q][r].barred
      <4>1. job'[q] = [job[q] EXCEPT ![r].barred = FALSE]
        BY <1>2 DEF Returned
      <4>2. job[q] \in [Rows -> Job] /\ job[q][r] \in Job
        BY DEF TypeOK
      <4> QED
        BY <4>1, <4>2 DEF Job
    <3> QED
      BY <3>1
  <2>5. BarredAreAway'
    BY <2>2, <2>3, <2>4 DEF RecheckInv, BarredAreAway, Working
  <2>6. BarredAreSeen'
    BY <2>1, <2>2 DEF RecheckInv, BarredAreSeen, Working
  <2>7. SendsFollowTheSnapshot'
    BY <2>1, <2>2 DEF RecheckInv, SendsFollowTheSnapshot
  <2> QED
    BY <2>5, <2>6, <2>7 DEF RecheckInv
<1>3. CASE BecomesDue(r) \/ Overdue(r)
  BY <1>3, RecheckKept DEF GoesOn, BecomesDue, Overdue, Working
<1>4. CASE Released(r) \/ Removed(r)
  <2>1. \A s \in Rows : addressed'[s] => addressed[s]
    BY <1>4 DEF Released, Removed, TypeOK
  <2> QED
    BY <1>4, <2>1, RecheckKept DEF GoesOn, Released, Removed, Working
<1> QED
  BY <1>1, <1>2, <1>3, <1>4 DEF TimeNext

(* Every step keeps the rechecks.                                          *)
LEMMA RecheckStep == TypeOK /\ LeaseInv /\ RecheckInv /\ [Next]_vars => RecheckInv'
<1> SUFFICES ASSUME TypeOK, LeaseInv, RecheckInv, [Next]_vars PROVE RecheckInv'
  OBVIOUS
<1>1. CASE UNCHANGED vars
  BY <1>1, RecheckKept DEF GoesOn, vars, drain, Working
<1>2. CASE Next
  BY <1>2, DrainRecheck, RowRecheck, TimeRecheck DEF Next
<1> QED
  BY <1>1, <1>2

(* Nothing is sent to a device that stopped being the user's before the    *)
(* claim and has not come back.                                            *)
THEOREM RechecksSee == Spec => []RechecksSeeReleases
<1>1. Init => RecheckInv
  BY RecheckInit
<1>2. RecheckInv => RechecksSeeReleases
  BY DEF RecheckInv, BarredAreSeen, SendsFollowTheSnapshot, RechecksSeeReleases, Working
<1> QED
  BY <1>1, <1>2, RecheckStep, LeaseInvariant, PTL DEF Spec

-----------------------------------------------------------------------------
(***************************************************************************)
(* Kicks.  A row nobody has tried is due, so a claim that finds nothing    *)
(* has not overlooked it; one that is committed later finds the drain still*)
(* busy and has it make one more pass.                                     *)
(***************************************************************************)
Untried(r) == status[r] = "pending" /\ attempts[r] = 0

WorkIsAnAttempt ==
    \A p \in Replicas, r \in Rows : Working(p, r) => job[p][r].attempt >= 1

UntriedAreDue == \A r \in Rows : Untried(r) => due[r]

OnlyCommittedAreAsked ==
    \A p \in Replicas, r \in Rows :
        status[r] = "absent" => r \notin unkicked[p] \cup asked[p]

(* The drain will come to the row, in this pass or in the next.            *)
WillTake(p) == phase[p] # "idle" /\ (phase[p] = "finishing" => again[p])

AskedAreTaken ==
    \A p \in Replicas, r \in Rows :
        r \in asked[p] /\ Untried(r) /\ ~overdue[r] => WillTake(p)

KickInv == WorkIsAnAttempt /\ UntriedAreDue /\ OnlyCommittedAreAsked /\ AskedAreTaken

(* The kicks hold at the start.                                            *)
LEMMA KickInit == Init => KickInv
BY DEF Init, KickInv, WorkIsAnAttempt, UntriedAreDue, OnlyCommittedAreAsked,
       AskedAreTaken, Untried, Working, NoJob

(* What a step does to one row: it does not take it back to being untried, *)
(* or to before its commit, and does not put it off.                       *)
GetsOn(r) ==
    /\ Untried(r)' => Untried(r) /\ (due[r] => due'[r])
    /\ overdue[r] => overdue'[r]
    /\ status'[r] = "absent" => status[r] = "absent"

(* A step under which rows get on and drains stay on their way.            *)
LEMMA KickKept ==
    ASSUME TypeOK, KickInv,
           \A r \in Rows : GetsOn(r),
           \A p \in Replicas, r \in Rows :
              Working(p, r)' => Working(p, r) /\ job'[p][r].attempt = job[p][r].attempt,
           \A p \in Replicas :
              /\ unkicked'[p] \subseteq unkicked[p] /\ asked'[p] \subseteq asked[p]
              /\ asked'[p] # {} => (WillTake(p) => WillTake(p)')
    PROVE  KickInv'
<1>1. WorkIsAnAttempt'
  BY DEF KickInv, WorkIsAnAttempt
<1>2. UntriedAreDue'
  BY DEF KickInv, UntriedAreDue, GetsOn
<1>3. OnlyCommittedAreAsked'
  BY DEF KickInv, OnlyCommittedAreAsked, GetsOn
<1>4. AskedAreTaken'
  <2> SUFFICES ASSUME NEW p \in Replicas, NEW r \in Rows,
                      r \in asked'[p], Untried(r)', ~overdue'[r]
               PROVE  WillTake(p)'
    BY DEF AskedAreTaken
  <2>1. r \in asked[p] /\ Untried(r) /\ ~overdue[r]
    BY DEF GetsOn
  <2>2. asked'[p] # {}
    OBVIOUS
  <2> QED
    BY <2>1, <2>2 DEF KickInv, AskedAreTaken
<1> QED
  BY <1>1, <1>2, <1>3, <1>4 DEF KickInv

(* A drain goes on from its claim: what it was asked for is still ahead.   *)
LEMMA ClaimKick ==
    ASSUME TypeOK, KickInv, NEW p \in Replicas, Claim(p)
    PROVE  KickInv'
<1>1. PICK batch \in SUBSET Rows : Claims(p, batch)
  BY ClaimEffect
<1>2. UNCHANGED <<overdue, again, unkicked, asked>>
  BY DEF Claim, kicks
<1>3. \A r \in Rows : attempts[r] \in Nat
  BY DEF TypeOK
<1>4. \A r \in Rows : GetsOn(r)
  BY <1>1, <1>2, <1>3 DEF Claims, GetsOn, Untried
<1>5. WorkIsAnAttempt'
  BY <1>1, <1>3 DEF Claims, KickInv, WorkIsAnAttempt, Working
<1>6. UntriedAreDue'
  BY <1>4 DEF KickInv, UntriedAreDue, GetsOn
<1>7. OnlyCommittedAreAsked'
  BY <1>2, <1>4 DEF KickInv, OnlyCommittedAreAsked, GetsOn
<1>8. AskedAreTaken'
  BY <1>1, <1>2, <1>4 DEF Claims, KickInv, AskedAreTaken, GetsOn, WillTake
<1> QED
  BY <1>5, <1>6, <1>7, <1>8 DEF KickInv

(* A claim that finds nothing leaves no untried row behind.                *)
LEMMA NothingKick ==
    ASSUME TypeOK, LeaseInv, KickInv, NEW p \in Replicas, NothingToClaim(p)
    PROVE  KickInv'
<1>1. UNCHANGED <<status, attempts, due, overdue, again, job, unkicked, asked>>
  BY DEF NothingToClaim, table, kicks
<1>2. ASSUME NEW r \in Rows, Untried(r), ~overdue[r]
      PROVE  FALSE
  <2>1. Claimable(r)
    BY <1>2 DEF KickInv, UntriedAreDue, Untried, Claimable, Waiting
  <2>2. PICK q \in Replicas : Working(q, r)
    BY <2>1 DEF NothingToClaim
  <2>3. job[q][r].attempt <= attempts[r] /\ job[q][r].attempt >= 1
    BY <2>2 DEF LeaseInv, LatestAttempt, KickInv, WorkIsAnAttempt
  <2>4. job[q][r].attempt \in Nat /\ attempts[r] = 0
    BY <1>2 DEF TypeOK, Job, Untried
  <2> QED
    BY <2>3, <2>4
<1> QED
  BY <1>1, <1>2
  DEF KickInv, WorkIsAnAttempt, UntriedAreDue, OnlyCommittedAreAsked, AskedAreTaken,
      Untried, Working

(* The steps of a drain keep the kicks.                                    *)
LEMMA DrainKick ==
    ASSUME TypeOK, LeaseInv, KickInv, NEW p \in Replicas, DrainNext(p)
    PROVE  KickInv'
<1> USE DEF table, kicks
<1>1. CASE Claim(p) \/ NothingToClaim(p)
  BY <1>1, ClaimKick, NothingKick
<1>2. CASE Tick(p)
  <2>1. \A q \in Replicas : WillTake(q) => WillTake(q)'
    BY <1>2 DEF Tick, Drain, WillTake, TypeOK
  <2> QED
    BY <1>2, <2>1, KickKept DEF Tick, GetsOn, Untried, Working
<1>3. CASE ExpireRows(p)
  <2>1. \A q \in Replicas : WillTake(q) => WillTake(q)'
    BY <1>3 DEF ExpireRows, WillTake, TypeOK
  <2>2. \A r \in Rows : status'[r] \in {status[r], "expired"}
    BY <1>3 DEF ExpireRows
  <2>3. UNCHANGED <<attempts, due, overdue, job, unkicked, asked>>
    BY <1>3 DEF ExpireRows
  <2> QED
    BY <2>1, <2>2, <2>3, KickKept DEF GetsOn, Untried, Working
<1>4. CASE PassEnds(p)
  <2>1. UNCHANGED <<status, attempts, due, overdue, job, unkicked, asked>>
    BY <1>4 DEF PassEnds
  <2>2. \A q \in Replicas : WillTake(q) => WillTake(q)'
    BY <1>4 DEF PassEnds, AfterPass, WillTake, TypeOK
  <2> QED
    BY <2>1, <2>2, KickKept DEF GetsOn, Untried, Working
<1>5. CASE LoadStore(p)
  <2>1. \A q \in Replicas : WillTake(q) => WillTake(q)'
    BY <1>5 DEF LoadStore, WillTake, TypeOK
  <2> QED
    BY <1>5, <2>1, KickKept DEF LoadStore, GetsOn, Untried, Working
<1>6. CASE BatchEnds(p)
  <2>1. UNCHANGED <<status, attempts, due, overdue, unkicked>>
    BY <1>6 DEF BatchEnds
  <2>2. \A q \in Replicas, r \in Rows :
          Working(q, r)' => Working(q, r) /\ job'[q][r].attempt = job[q][r].attempt
    BY <1>6, BatchEndsEffect DEF Working
  <2>3. \A q \in Replicas :
          /\ asked'[q] \subseteq asked[q]
          /\ asked'[q] # {} => (WillTake(q) => WillTake(q)')
    BY <1>6 DEF BatchEnds, WillTake, TypeOK
  <2> QED
    BY <2>1, <2>2, <2>3, KickKept DEF GetsOn, Untried
<1>7. CASE DrainFails(p)
  <2>1. UNCHANGED <<status, attempts, due, overdue, unkicked>>
    BY <1>7 DEF DrainFails
  <2>2. \A q \in Replicas, r \in Rows :
          Working(q, r)' => Working(q, r) /\ job'[q][r].attempt = job[q][r].attempt
    BY <1>7, JobsDropped DEF DrainFails, Working, NoJob
  <2>3. \A q \in Replicas :
          /\ asked'[q] \subseteq asked[q]
          /\ asked'[q] # {} => (WillTake(q) => WillTake(q)')
    BY <1>7 DEF DrainFails, WillTake, TypeOK
  <2> QED
    BY <2>1, <2>2, <2>3, KickKept DEF GetsOn, Untried
<1>8. CASE Crash(p)
  <2>1. UNCHANGED <<status, attempts, due, overdue>>
    BY <1>8 DEF Crash
  <2>2. \A q \in Replicas, r \in Rows :
          Working(q, r)' => Working(q, r) /\ job'[q][r].attempt = job[q][r].attempt
    BY <1>8, JobsDropped DEF Crash, Working, NoJob
  <2>3. \A q \in Replicas :
          /\ unkicked'[q] \subseteq unkicked[q] /\ asked'[q] \subseteq asked[q]
          /\ asked'[q] # {} => (WillTake(q) => WillTake(q)')
    BY <1>8 DEF Crash, WillTake, TypeOK
  <2> QED
    BY <2>1, <2>2, <2>3, KickKept DEF GetsOn, Untried
<1> QED
  BY <1>1, <1>2, <1>3, <1>4, <1>5, <1>6, <1>7, <1>8 DEF DrainNext

(* The steps on one row keep the kicks.                                    *)
LEMMA RowKick ==
    ASSUME TypeOK, LeaseInv, KickInv, NEW p \in Replicas, NEW r \in Rows, RowNext(p, r)
    PROVE  KickInv'
<1> USE DEF table, drain
<1>1. CASE Commit(p, r)
  <2>1. UNCHANGED <<attempts, overdue, phase, again, job, asked>>
    BY <1>1 DEF Commit
  <2>2. /\ status[r] = "absent" /\ status'[r] = "pending" /\ due'[r]
        /\ \A s \in Rows : s # r => status'[s] = status[s] /\ due'[s] = due[s]
    BY <1>1 DEF Commit, TypeOK
  <2>3. \A q \in Replicas, s \in Rows :
          s \in unkicked'[q] \cup asked'[q] => s \in unkicked[q] \cup asked[q] \/ s = r
    BY <1>1 DEF Commit, TypeOK
  <2>4. \A q \in Replicas : r \notin asked[q]
    BY <2>2 DEF KickInv, OnlyCommittedAreAsked
  <2>5. WorkIsAnAttempt'
    BY <2>1 DEF KickInv, WorkIsAnAttempt, Working
  <2>6. UntriedAreDue'
    BY <2>1, <2>2 DEF KickInv, UntriedAreDue, Untried
  <2>7. OnlyCommittedAreAsked'
    BY <2>2, <2>3 DEF KickInv, OnlyCommittedAreAsked
  <2>8. AskedAreTaken'
    BY <2>1, <2>2, <2>4 DEF KickInv, AskedAreTaken, Untried, WillTake
  <2> QED
    BY <2>5, <2>6, <2>7, <2>8 DEF KickInv
<1>2. CASE Kick(p, r)
  <2>1. UNCHANGED <<status, attempts, due, overdue, job>>
    BY <1>2 DEF Kick
  <2>2. \A q \in Replicas, s \in Rows :
          /\ s \in unkicked'[q] \cup asked'[q] => s \in unkicked[q] \cup asked[q]
          /\ s \in asked'[q] => s \in asked[q] \/ q = p
    BY <1>2 DEF Kick, TypeOK
  <2>3. WillTake(p)' /\ \A q \in Replicas : WillTake(q) => WillTake(q)'
    BY <1>2 DEF Kick, Drain, WillTake, TypeOK
  <2>4. AskedAreTaken'
    BY <2>1, <2>2, <2>3 DEF KickInv, AskedAreTaken, Untried
  <2> QED
    BY <2>1, <2>2, <2>4
    DEF KickInv, WorkIsAnAttempt, UntriedAreDue, OnlyCommittedAreAsked, Untried, Working
<1>3. CASE StartSend(p, r)
  <2>1. /\ OnlyJob(p, r) /\ job[p][r].stage = "queued"
        /\ UNCHANGED <<status, attempts>>
        /\ \A s \in Rows : s # r => due'[s] = due[s]
        /\ due'[r] <=> due[r] /\ ~LeaseHeld(p, r)
        /\ \/ job'[p][r].stage = "none"
           \/ job'[p][r].attempt = job[p][r].attempt
    BY <1>3, StartSendEffect
  <2>2. UNCHANGED <<overdue, phase, again, unkicked, asked>>
    BY <1>3 DEF StartSend, kicks
  <2>3. \A s \in Rows : GetsOn(s)
    BY <2>1, <2>2 DEF GetsOn, Untried, LeaseHeld
  <2>4. \A q \in Replicas, s \in Rows :
          Working(q, s)' => Working(q, s) /\ job'[q][s].attempt = job[q][s].attempt
    BY <2>1 DEF OnlyJob, Working
  <2> QED
    BY <2>2, <2>3, <2>4, KickKept DEF WillTake
<1>4. CASE \E result \in Results : Answer(p, r, result)
  <2>1. /\ OnlyJob(p, r) /\ job[p][r].stage = "sending"
        /\ UNCHANGED <<status, attempts, due>>
        /\ job'[p][r].attempt = job[p][r].attempt
    BY <1>4, AnswerEffect
  <2>2. UNCHANGED <<overdue, phase, again, unkicked, asked>>
    BY <1>4 DEF Answer, kicks
  <2>3. \A q \in Replicas, s \in Rows :
          Working(q, s)' => Working(q, s) /\ job'[q][s].attempt = job[q][s].attempt
    BY <2>1 DEF OnlyJob, Working
  <2> QED
    BY <2>1, <2>2, <2>3, KickKept DEF WillTake, GetsOn, Untried
<1>5. CASE Record(p, r)
  <2>1. /\ OnlyJob(p, r) /\ job[p][r].stage = "answered"
        /\ UNCHANGED attempts
        /\ \A s \in Rows : s # r => status'[s] = status[s] /\ due'[s] = due[s]
        /\ \/ status'[r] = status[r] /\ due'[r] = due[r]
           \/ LeaseHeld(p, r) /\ status'[r] = job[p][r].verdict
        /\ \/ job'[p][r].stage = "none"
           \/ job'[p][r].attempt = job[p][r].attempt
    BY <1>5, RecordEffect
  <2>2. UNCHANGED <<overdue, phase, again, unkicked, asked>>
    BY <1>5 DEF Record, kicks
  <2>3. LeaseHeld(p, r) => attempts[r] # 0
    BY <2>1 DEF LeaseHeld, KickInv, WorkIsAnAttempt, Working
  <2>4. job[p][r].verdict # "absent"
    <3>1. job[p][r] \in Job
      BY DEF TypeOK
    <3> QED
      BY <3>1, Zenon DEF Job, Final
  <2>5. \A s \in Rows : GetsOn(s)
    BY <2>1, <2>2, <2>3, <2>4 DEF GetsOn, Untried
  <2>6. \A q \in Replicas, s \in Rows :
          Working(q, s)' => Working(q, s) /\ job'[q][s].attempt = job[q][s].attempt
    BY <2>1 DEF OnlyJob, Working
  <2> QED
    BY <2>2, <2>5, <2>6, KickKept DEF WillTake
<1>6. CASE Prune(p, r) \/ RowFails(p, r)
  <2>1. job'[p][r].stage = "none" /\ OnlyJob(p, r)
    BY <1>6, OneJobWritten, NoJobType DEF Prune, RowFails, NoJob, OnlyJob
  <2>2. \A s \in Rows : status'[s] \in {status[s], "gone"}
    BY <1>6 DEF Prune, RowFails, TypeOK
  <2>3. UNCHANGED <<attempts, due, overdue, phase, again, unkicked, asked>>
    BY <1>6 DEF Prune, RowFails, kicks
  <2>4. \A s \in Rows : GetsOn(s)
    BY <2>2, <2>3 DEF GetsOn, Untried
  <2>5. \A q \in Replicas, s \in Rows :
          Working(q, s)' => Working(q, s) /\ job'[q][s].attempt = job[q][s].attempt
    BY <2>1 DEF OnlyJob, Working
  <2> QED
    BY <2>3, <2>4, <2>5, KickKept DEF WillTake
<1> QED
  BY <1>1, <1>2, <1>3, <1>4, <1>5, <1>6 DEF RowNext

(* Time and the devices keep the kicks.                                    *)
LEMMA TimeKick ==
    ASSUME TypeOK, KickInv, NEW r \in Rows, TimeNext(r)
    PROVE  KickInv'
<1> USE DEF table, drain, kicks
<1>1. CASE LeaseOutlived(r) \/ Returned(r)
  <2>1. UNCHANGED <<status, attempts, overdue, phase, again, unkicked, asked>>
    BY <1>1 DEF LeaseOutlived, Returned
  <2>2. \A s \in Rows : due[s] => due'[s]
    BY <1>1 DEF LeaseOutlived, Returned, TypeOK
  <2>3. \A q \in Replicas, s \in Rows :
          Working(q, s)' => Working(q, s) /\ job'[q][s].attempt = job[q][s].attempt
    BY <1>1, StampEffect DEF Working
  <2> QED
    BY <2>1, <2>2, <2>3, KickKept DEF GetsOn, Untried, WillTake
<1>2. CASE BecomesDue(r) \/ Overdue(r) \/ Released(r) \/ Removed(r)
  <2>1. UNCHANGED <<attempts, phase, again, job, unkicked, asked>>
    BY <1>2 DEF BecomesDue, Overdue, Released, Removed
  <2>2. \A s \in Rows :
          /\ due[s] => due'[s]
          /\ overdue[s] => overdue'[s]
          /\ status'[s] \in {status[s], "gone"}
    BY <1>2 DEF BecomesDue, Overdue, Released, Removed, TypeOK
  <2>3. \A s \in Rows : GetsOn(s)
    BY <2>1, <2>2 DEF GetsOn, Untried
  <2> QED
    BY <2>1, <2>3, KickKept DEF WillTake, Working
<1> QED
  BY <1>1, <1>2 DEF TimeNext

(* Every step keeps the kicks.                                             *)
LEMMA KickStep == TypeOK /\ LeaseInv /\ KickInv /\ [Next]_vars => KickInv'
<1> SUFFICES ASSUME TypeOK, LeaseInv, KickInv, [Next]_vars PROVE KickInv'
  OBVIOUS
<1>1. CASE UNCHANGED vars
  BY <1>1, KickKept DEF GetsOn, Untried, WillTake, Working, vars, table, drain, kicks
<1>2. CASE Next
  BY <1>2, DrainKick, RowKick, TimeKick DEF Next
<1> QED
  BY <1>1, <1>2

(* No drain comes to rest over a row it was asked for that nobody tried.   *)
THEOREM KickedAreTaken == Spec => []KickedPushesAreTaken
<1>1. KickInv => KickedPushesAreTaken
  BY DEF KickInv, AskedAreTaken, Untried, WillTake, KickedPushesAreTaken
<1> QED
  BY <1>1, KickInit, KickStep, LeaseInvariant, PTL DEF Spec

=============================================================================
