----------------------------- MODULE MailQueue ------------------------------
(***************************************************************************)
(* The mail queue.  Services queue mails, one or a batch, as jobs kept in  *)
(* Redis (mail-queue.service.ts); the workers of the server take them      *)
(* (mail.processor.ts) and send them from the active account, keeping one  *)
(* email log per attempt (mail.service.ts).  An attempt that throws is     *)
(* repeated later, and an officer can resend a log that is FAILED.  The    *)
(* server can crash between any two steps: Redis and the database keep     *)
(* what was written, the workers and the requests are gone.                *)
(***************************************************************************)
EXTENDS Sums, Sequences

CONSTANTS
  MaxJobs,     \* bound: how many mails are queued
  MaxBatch,    \* bound: how many mails are queued together
  Attempts,    \* how often a job is tried: attempts of the job's options
  Concurrency, \* how many jobs are processed at the same time
  MaxStalls,   \* how often the queue gives a job back that lost its worker
  MaxCrashes,  \* bound: how often the server crashes
  MaxCopies,   \* bound: a log that was sent this often is not sent again
  MaxResends   \* bound: officers' requests to resend a mail at the same time

ASSUME MailAssumption ==
  /\ {MaxJobs, MaxBatch, Attempts, Concurrency} \subseteq Nat \ {0}
  /\ {MaxStalls, MaxCrashes, MaxCopies, MaxResends} \subseteq Nat

Jobs == 1 .. MaxJobs

VARIABLES
  job,     \* the jobs in Redis
  batch,   \* the jobs being queued together, and the next one of them
  worker,  \* where the worker that has taken a job stands
  logs,    \* email_logs of each job, one per attempt
  paused,  \* the queue is paused
  crashes, \* how often the server has crashed
  faulty,  \* history: jobs interrupted or resent, or whose answer was lost
  resentTwice \* history: two requests were resending the same log at once

mailVars == <<job, batch, worker, logs, paused, crashes, faulty, resentTwice>>

JobStates == {"NEW", "WAITING", "DELAYED", "ACTIVE", "COMPLETED", "FAILED", "CLEANED"}

WorkerSteps == {"NONE", "TAKEN", "LOGGED", "ACCEPTED", "RETURNED", "THROWN"}

\* One attempt: its log, the copies that went out, and the requests that
\* have read the log to resend it.
Log == [status : {"PENDING", "SENT", "FAILED"}, copies : Nat, resends : 0 .. MaxResends]

NewLog == [status |-> "PENDING", copies |-> 0, resends |-> 0]

NoBatch == [first |-> 0, next |-> 0, last |-> 0]

\* No job is begun more often than it is tried and given back, so no job has
\* more logs.
MailTypeOK ==
  /\ job \in [Jobs -> [state : JobStates, attemptsMade : 0 .. Attempts, stalls : 0 .. MaxStalls + 1]]
  /\ batch \in [first : 0 .. MaxJobs, next : 0 .. MaxJobs, last : 0 .. MaxJobs]
  /\ worker \in [Jobs -> WorkerSteps]
  /\ \A j \in Jobs :
       /\ logs[j] \in Seq(Log)
       /\ Len(logs[j]) <= Attempts + MaxStalls
  /\ paused \in BOOLEAN
  /\ crashes \in 0 .. MaxCrashes
  /\ faulty \subseteq Jobs
  /\ resentTwice \in BOOLEAN

MailInit ==
  /\ job = [j \in Jobs |-> [state |-> "NEW", attemptsMade |-> 0, stalls |-> 0]]
  /\ batch = NoBatch
  /\ worker = [j \in Jobs |-> "NONE"]
  /\ logs = [j \in Jobs |-> <<>>]
  /\ paused = FALSE
  /\ crashes = 0
  /\ faulty = {}
  /\ resentTwice = FALSE

-----------------------------------------------------------------------------
\* addToQueue and addBulkToQueue: the mails of a batch are added one after
\* the other, the first at once and the others with a delay.
BeginBatch(n) ==
  LET new == {j \in Jobs : job[j].state = "NEW"}
  IN  /\ batch = NoBatch
      /\ n <= Cardinality(new)
      /\ batch' = [first |-> Min(new), next |-> Min(new), last |-> Min(new) + n - 1]
      /\ UNCHANGED <<job, worker, logs, paused, crashes, faulty, resentTwice>>

AddToQueue ==
  /\ batch # NoBatch
  /\ job' = [job EXCEPT ![batch.next].state =
                IF batch.next = batch.first THEN "WAITING" ELSE "DELAYED"]
  /\ batch' = IF batch.next = batch.last THEN NoBatch ELSE [batch EXCEPT !.next = @ + 1]
  /\ UNCHANGED <<worker, logs, paused, crashes, faulty, resentTwice>>

\* Redis cannot be reached: the caller logs the error, and the rest of the
\* batch is not added.
AddFails ==
  /\ batch # NoBatch
  /\ batch' = NoBatch
  /\ UNCHANGED <<job, worker, logs, paused, crashes, faulty, resentTwice>>

-----------------------------------------------------------------------------
\* The queue's own steps.
InState(s) == {j \in Jobs : job[j].state = s}

Promote(j) ==
  /\ j \in InState("DELAYED")
  /\ job' = [job EXCEPT ![j].state = "WAITING"]
  /\ UNCHANGED <<batch, worker, logs, paused, crashes, faulty, resentTwice>>

Take(j) ==
  /\ j \in InState("WAITING")
  /\ ~paused
  /\ Cardinality({i \in Jobs : worker[i] # "NONE"}) < Concurrency
  /\ job' = [job EXCEPT ![j].state = "ACTIVE"]
  /\ worker' = [worker EXCEPT ![j] = "TAKEN"]
  /\ UNCHANGED <<batch, logs, paused, crashes, faulty, resentTwice>>

\* A job whose worker is gone is given back, or given up.
Recover(j) ==
  /\ j \in InState("ACTIVE")
  /\ worker[j] = "NONE"
  /\ job' = [job EXCEPT ![j].stalls = @ + 1,
                        ![j].state = IF job[j].stalls < MaxStalls THEN "WAITING" ELSE "FAILED"]
  /\ UNCHANGED <<batch, worker, logs, paused, crashes, faulty, resentTwice>>

\* Mutant: the processor logs the error and does not throw it again.
AfterWorkSwallowed(step, made) == "COMPLETED"

\* Mutant: the attempts are not counted.
AfterWorkForever(step, made) == IF step = "RETURNED" THEN "COMPLETED" ELSE "DELAYED"

\* Mutant: a mail that was sent is tried again.
AfterWorkAgain(step, made) == IF made + 1 < Attempts THEN "DELAYED" ELSE "FAILED"

AfterWork(step, made) ==
  IF step = "RETURNED" THEN "COMPLETED"
  ELSE IF made + 1 < Attempts THEN "DELAYED" ELSE "FAILED"

\* Mutant: the worker of a mail that was refused does not come back.
EndedReturned == {"RETURNED"}

Ended == {"RETURNED", "THROWN"}

\* The worker returns or throws, and the queue moves the job.
Finish(j) ==
  /\ worker[j] \in Ended
  /\ job' = [job EXCEPT ![j].attemptsMade = @ + 1,
                        ![j].state = AfterWork(worker[j], job[j].attemptsMade)]
  /\ worker' = [worker EXCEPT ![j] = "NONE"]
  /\ UNCHANGED <<batch, logs, paused, crashes, faulty, resentTwice>>

-----------------------------------------------------------------------------
\* sendInternalMail of the worker.
Work(j, from, to) ==
  /\ worker[j] = from
  /\ worker' = [worker EXCEPT ![j] = to]
  /\ UNCHANGED <<job, batch, paused, crashes, resentTwice>>

\* Without an active account, or when the log cannot be written, it throws.
CreateLog(j) ==
  /\ \/ /\ Work(j, "TAKEN", "LOGGED")
        /\ logs' = [logs EXCEPT ![j] = Append(@, NewLog)]
     \/ /\ Work(j, "TAKEN", "THROWN")
        /\ UNCHANGED logs
  /\ UNCHANGED faulty

\* Mutant: the log says SENT whatever happened.
StatusAfterSent(accepted) == "SENT"

StatusAfter(accepted) == IF accepted THEN "SENT" ELSE "FAILED"

\* What the mail server did with log i of job j and what is then written:
\* it accepts the mail, refuses it, or accepts it and the answer is lost.
\* SENT is written inside the try block, so that a mail whose log could not
\* be written counts as refused; writing FAILED can fail as well.
Refused(j, i) ==
  \E copy \in {0, 1}, status \in {StatusAfter(FALSE), logs[j][i].status} :
    /\ logs' = [logs EXCEPT ![j][i].copies = @ + copy, ![j][i].status = status]
    /\ faulty' = IF copy = 0 THEN faulty ELSE faulty \cup {j}

Newest(j) == Len(logs[j])

SendMail(j) ==
  \/ /\ Work(j, "LOGGED", "ACCEPTED")
     /\ logs' = [logs EXCEPT ![j][Newest(j)].copies = @ + 1]
     /\ UNCHANGED faulty
  \/ /\ Work(j, "LOGGED", "THROWN")
     /\ Refused(j, Newest(j))

LogSent(j) ==
  /\ Work(j, "ACCEPTED", "RETURNED")
  /\ logs' = [logs EXCEPT ![j][Newest(j)].status = StatusAfter(TRUE)]
  /\ UNCHANGED faulty

-----------------------------------------------------------------------------
\* resendFailedEmail: an officer sends a log again.

\* Mutant: any log can be resent.
ResendableAny(log) == TRUE

Resendable(log) == log.status = "FAILED"

Resending ==
  SumOf([j \in Jobs |-> SumOf([i \in DOMAIN logs[j] |-> logs[j][i].resends])])

BeginResend(j, i) ==
  /\ i \in DOMAIN logs[j]
  /\ Resendable(logs[j][i])
  /\ logs[j][i].copies < MaxCopies
  /\ Resending < MaxResends
  /\ logs' = [logs EXCEPT ![j][i].resends = @ + 1]
  /\ faulty' = faulty \cup {j}
  /\ resentTwice' = (resentTwice \/ logs[j][i].resends > 0)
  /\ UNCHANGED <<job, batch, worker, paused, crashes>>

Resend(j, i) ==
  /\ i \in DOMAIN logs[j]
  /\ logs[j][i].resends > 0
  /\ \E copy \in {0, 1} :
       \E status \in {logs[j][i].status, StatusAfter(FALSE), StatusAfter(copy = 1)} :
         logs' = [logs EXCEPT ![j][i] = [status |-> status, copies |-> @.copies + copy,
                                         resends |-> @.resends - 1]]
  /\ UNCHANGED <<job, batch, worker, paused, crashes, faulty, resentTwice>>

-----------------------------------------------------------------------------
Pause(p) ==
  /\ paused' = p
  /\ UNCHANGED <<job, batch, worker, logs, crashes, faulty, resentTwice>>

\* cleanOldJobs, removeOnComplete and removeOnFail.
Clean(j) ==
  /\ job[j].state \in {"COMPLETED", "FAILED"}
  /\ job' = [job EXCEPT ![j].state = "CLEANED"]
  /\ UNCHANGED <<batch, worker, logs, paused, crashes, faulty, resentTwice>>

\* The server crashes and is started again.
Crash ==
  /\ crashes < MaxCrashes
  /\ crashes' = crashes + 1
  /\ batch' = NoBatch
  /\ faulty' = faulty \cup {j \in Jobs : worker[j] # "NONE"}
  /\ worker' = [j \in Jobs |-> "NONE"]
  /\ logs' = [j \in Jobs |-> [i \in DOMAIN logs[j] |-> [logs[j][i] EXCEPT !.resends = 0]]]
  /\ UNCHANGED <<job, paused, resentTwice>>

Worker(j) == CreateLog(j) \/ SendMail(j) \/ LogSent(j) \/ Finish(j)

MailNext ==
  \/ \E n \in 1 .. MaxBatch : BeginBatch(n)
  \/ AddToQueue \/ AddFails
  \/ \E j \in Jobs : Promote(j) \/ Take(j) \/ Recover(j) \/ Worker(j) \/ Clean(j)
  \/ \E j \in Jobs, i \in 1 .. Attempts + MaxStalls : BeginResend(j, i) \/ Resend(j, i)
  \/ Pause(TRUE) \/ Pause(FALSE)
  \/ Crash

\* The queue moves delayed and stalled jobs by its own timers, and its
\* workers take the next job and see it through; officers and services owe
\* nothing.
Fairness ==
  \A j \in Jobs :
    WF_mailVars(Promote(j)) /\ WF_mailVars(Take(j)) /\ WF_mailVars(Recover(j)) /\ WF_mailVars(Worker(j))

MailSpec == MailInit /\ [][MailNext]_mailVars /\ Fairness

-----------------------------------------------------------------------------
CopiesOf(j) == SumOf([i \in DOMAIN logs[j] |-> logs[j][i].copies])

(* The email log tells what happened: SENT means that the mail went out,   *)
(* and FAILED that it did not, unless an answer was lost, the log could    *)
(* not be written, or the mail was resent.                                 *)
LogsAreTrue ==
  \A j \in Jobs : \A i \in DOMAIN logs[j] :
    /\ logs[j][i].status = "SENT" => logs[j][i].copies > 0
    /\ logs[j][i].status = "FAILED" /\ j \notin faulty => logs[j][i].copies = 0

(* The retries alone do not send a mail twice: a second copy needs a crash *)
(* in the middle of an attempt, a lost answer, a log that could not be     *)
(* written, or an officer.                                                 *)
SingleCopy == \A j \in Jobs \ faulty : CopiesOf(j) <= 1

(* Without faults the log and the recipient agree: each mail goes out at   *)
(* most once, and the log says whether it did.                             *)
CopiesAreKnown == LogsAreTrue /\ SingleCopy

(* A log that says SENT is not changed any more, neither by the retries of *)
(* its job nor by an officer, unless two requests resend it at once.       *)
SentStays ==
  [][\A j \in Jobs : \A i \in DOMAIN logs[j] :
       logs[j][i].status = "SENT" /\ ~resentTwice' => logs'[j][i].status = "SENT"]_mailVars

StatusOf(j) ==
  CASE job[j].state \in {"WAITING", "DELAYED", "ACTIVE"} -> "QUEUED"
    [] job[j].state = "CLEANED" -> "FORGOTTEN"
    [] OTHER -> job[j].state

(* Every mail that was queued is sent or given up, through retries, missing *)
(* accounts and crashes, unless the queue is paused again and again.       *)
EveryMailSettles ==
  <>[]~paused =>
    \A j \in Jobs : StatusOf(j) = "QUEUED" ~> StatusOf(j) # "QUEUED"

(* The queue, its workers and the officers together keep the promise of    *)
(* MailDelivery.                                                           *)
Delivery == INSTANCE MailDelivery WITH
  Mails <- Jobs,
  status <- [j \in Jobs |-> StatusOf(j)],
  copies <- [j \in Jobs |-> CopiesOf(j)]

Delivers == Delivery!Spec

=============================================================================
