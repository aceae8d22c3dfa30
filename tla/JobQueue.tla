------------------------------ MODULE JobQueue ------------------------------
(***************************************************************************)
(* The durable review queue: the rows of review_jobs, the web processes    *)
(* that admit jobs, the workers that claim and finish them, the stale-row  *)
(* recovery and the operator's commands.                                   *)
(*                                                                         *)
(* A database transaction is one step, except the two that hold the        *)
(* singleton row of global_review_settings (claim_next and enqueue): they  *)
(* are a step that takes the lock and reads, and a step that writes and    *)
(* commits, so that transactions which do not take the lock can fall in    *)
(* between.  Time is not counted: GoStale and GoAncient let a timestamp    *)
(* pass its cutoff.                                                        *)
(***************************************************************************)
EXTENDS Naturals, FiniteSets

CONSTANTS
    Workers,        \* worker processes (app.jobs.worker)
    Webs,           \* concurrent webhook requests that may admit a job
    Repos,          \* repositories
    Pulls,          \* pull requests
    RepoOf,         \* the repository of a pull request
    Heads,          \* head commits
    Comments,       \* issue comments that carry /review
    None,           \* "no comment", "nobody holds the lock", "no such row"
    MaxJobs,        \* bound: rows of review_jobs in a behaviour
    MaxAttempts,    \* settings.worker_max_attempts
    GlobalLimit,    \* settings.review_global_concurrency
    RepoLimit,      \* settings.review_repository_concurrency
    MaxPending,     \* settings.max_pending_jobs
    MaxRepoPending, \* settings.max_repository_pending_jobs
    MaxCancels,     \* bound: cancellations of a worker's task in a behaviour
    Zombies,        \* may a live worker's job pass stale_running_seconds?
    Commands        \* the operator commands that are issued

ASSUME SetsAssumption ==
    /\ IsFiniteSet(Workers) /\ IsFiniteSet(Webs)
    /\ RepoOf \in [Pulls -> Repos]
    /\ None \notin Workers \cup Webs \cup Comments
    /\ Workers \cap Webs = {}

ASSUME LimitsAssumption ==
    /\ MaxJobs \in Nat /\ MaxCancels \in Nat
    /\ MaxAttempts \in Nat \ {0}
    /\ GlobalLimit \in Nat \ {0} /\ RepoLimit \in Nat \ {0}
    /\ MaxPending \in Nat \ {0} /\ MaxRepoPending \in Nat \ {0}
    /\ Zombies \in BOOLEAN
    /\ Commands \subseteq {"retry", "skip", "pause", "enable"}

VARIABLES
    last,       \* how many rows have been inserted; ids are 1..last
    info,       \* the columns of a row that never change
    status,     \* ReviewJob.status, "ABSENT" before the insert
    attempts,   \* ReviewJob.attempts
    execution,  \* ReviewJob.execution_id: 0 for NULL, else the claim it was drawn at
    outcome,    \* ReviewJob.terminal_outcome
    stale,      \* RUNNING rows whose started_at is before the stale cutoff
    ancient,    \* rows 1..ancient were created before the watchdog's pending cutoff
    paused,     \* GlobalReviewSettings.processing_paused
    enabled,    \* repositories installed and enabled for AUTO and COMMAND jobs
    lock,       \* who holds the row lock of GlobalReviewSettings id 1
    wpc, wjob, wattempts, wexec,    \* a worker and its in-memory copy of the job
    ereq,       \* the admission a web request has begun, or None
    wdpc,       \* where the watchdog run is
    cancels     \* cancellations so far

rows  == <<last, info, status, attempts, execution, outcome>>
clock == <<stale, ancient>>
policy == <<paused, enabled>>
workers == <<wpc, wjob, wattempts, wexec>>
vars == <<rows, clock, policy, lock, workers, ereq, wdpc, cancels>>

-----------------------------------------------------------------------------
Jobs == 1..MaxJobs
Terminal == {"SUCCEEDED", "FAILED", "SKIPPED"}
Active == {"PENDING", "RUNNING"}
Triggers == {"AUTO", "COMMAND", "RETRY"}
JobStatus == {"ABSENT"} \cup Active \cup Terminal
Outcomes == {"NONE", "SUCCEEDED", "SKIPPED", "FAILED_FINAL", "UNKNOWN_OUTCOME"}

Info == [trigger : Triggers, pull : Pulls, head : Heads,
         comment : Comments \cup {None}, retryOf : 0..MaxJobs]

ASSUME NoneAssumption == None \notin Info

RepositoryOf(j) == RepoOf[info[j].pull]
SameHead(r, s) == r.pull = s.pull /\ r.head = s.head
WithStatus(s) == {j \in Jobs : status[j] = s}
WithStatusIn(s, r) == {j \in WithStatus(s) : RepositoryOf(j) = r}

\* A row that a claim holds FOR UPDATE: other writers of the row wait.
RowFree(j) == \A w \in Workers : ~(wpc[w] = "claiming" /\ wjob[w] = j)

\* A worker that will still write the row of job j.
Holds(w, j) == wpc[w] \in {"claimed", "working"} /\ wjob[w] = j
Held(j) == \E w \in Workers : Holds(w, j)

RowTypes ==
    /\ last \in 0..MaxJobs
    /\ info \in [Jobs -> Info \cup {None}]
    /\ status \in [Jobs -> JobStatus]
    /\ attempts \in [Jobs -> Nat]
    /\ execution \in [Jobs -> Nat]
    /\ outcome \in [Jobs -> Outcomes]

WorkerTypes ==
    /\ wpc \in [Workers -> {"down", "idle", "claiming", "claimed", "working"}]
    /\ wjob \in [Workers -> 0..MaxJobs]
    /\ wattempts \in [Workers -> Nat]
    /\ wexec \in [Workers -> Nat]

OtherTypes ==
    /\ stale \subseteq Jobs
    /\ ancient \in 0..MaxJobs
    /\ enabled \subseteq Repos
    /\ lock \in Workers \cup Webs \cup {None}
    /\ ereq \in [Webs -> {None} \cup Info]
    /\ wdpc \in {"idle", "recovered"}
    /\ cancels \in 0..MaxCancels

TypeOK == RowTypes /\ WorkerTypes /\ OtherTypes /\ paused \in BOOLEAN

Init ==
    /\ last = 0
    /\ info = [j \in Jobs |-> None]
    /\ status = [j \in Jobs |-> "ABSENT"]
    /\ attempts = [j \in Jobs |-> 0]
    /\ execution = [j \in Jobs |-> 0]
    /\ outcome = [j \in Jobs |-> "NONE"]
    /\ stale = {} /\ ancient = 0
    /\ paused = FALSE /\ enabled = Repos
    /\ lock = None
    /\ wpc = [w \in Workers |-> "down"]
    /\ wjob = [w \in Workers |-> 0]
    /\ wattempts = [w \in Workers |-> 0]
    /\ wexec = [w \in Workers |-> 0]
    /\ ereq = [e \in Webs |-> None]
    /\ wdpc = "idle"
    /\ cancels = 0

-----------------------------------------------------------------------------
(* Admission: JobRepository.enqueue, called by the webhook handler.        *)

\* PENDING AUTO rows of the same pull request and another head.
Superseded(r) ==
    IF r.trigger = "AUTO"
    THEN {j \in WithStatus("PENDING") :
            info[j].trigger = "AUTO" /\ info[j].pull = r.pull /\ info[j].head # r.head}
    ELSE {}

\* Mutant: a COMMAND job that a worker has claimed is overlooked.
ExistingPending(r) ==
    {j \in 1..last :
        /\ SameHead(info[j], r)
        /\ \/ r.trigger = "COMMAND" /\ status[j] = "PENDING"
           \/ r.trigger = "AUTO" /\ info[j].trigger = "AUTO"}

\* The COMMAND and AUTO look-ups that return an existing row.
Existing(r) ==
    {j \in 1..last :
        /\ SameHead(info[j], r)
        /\ \/ r.trigger = "COMMAND" /\ status[j] \in Active
           \/ r.trigger = "AUTO" /\ info[j].trigger = "AUTO"}

HasCapacity(r) ==
    LET waiting == WithStatus("PENDING") \ Superseded(r)
        here == WithStatusIn("PENDING", RepoOf[r.pull]) \ Superseded(r)
    IN  Cardinality(waiting) < MaxPending /\ Cardinality(here) < MaxRepoPending

\* The unique constraints of review_jobs: source_comment_id, and one AUTO and
\* one RETRY row per head.
Unique(r) ==
    \A j \in 1..last :
        /\ r.comment # None => info[j].comment # r.comment
        /\ r.trigger # "COMMAND" =>
             ~(info[j].trigger = r.trigger /\ SameHead(info[j], r))

Insert(r) ==
    /\ last < MaxJobs
    /\ last' = last + 1
    /\ info' = [info EXCEPT ![last + 1] = r]
    /\ UNCHANGED <<attempts, execution, outcome>>

\* Mutant: the look-ups and the counts without the lock on the singleton.
EnqueueBeginUnlocked(e, r) ==
    /\ ereq[e] = None
    /\ last < MaxJobs
    /\ Existing(r) = {}
    /\ HasCapacity(r)
    /\ lock' = e
    /\ ereq' = [ereq EXCEPT ![e] = r]
    /\ UNCHANGED <<rows, clock, policy, workers, wdpc, cancels>>

\* The global row is locked and nothing speaks against the job.  A request that
\* meets an existing row or a full queue ends here and changes nothing.
EnqueueBegin(e, r) ==
    /\ ereq[e] = None
    /\ lock = None
    /\ last < MaxJobs
    /\ Existing(r) = {}
    /\ HasCapacity(r)
    /\ lock' = e
    /\ ereq' = [ereq EXCEPT ![e] = r]
    /\ UNCHANGED <<rows, clock, policy, workers, wdpc, cancels>>

\* Mutant: the supersede update is forgotten.
EnqueueCommitOnly(e) ==
    /\ ereq[e] # None
    /\ Unique(ereq[e])
    /\ Insert(ereq[e])
    /\ status' = [status EXCEPT ![last + 1] = "PENDING"]
    /\ lock' = None
    /\ ereq' = [ereq EXCEPT ![e] = None]
    /\ UNCHANGED <<clock, policy, workers, wdpc, cancels>>

\* The insert and the supersede update, then the commit.
EnqueueCommit(e) ==
    /\ ereq[e] # None
    /\ Unique(ereq[e])
    /\ Insert(ereq[e])
    /\ status' = [j \in Jobs |->
                    IF j \in Superseded(ereq[e]) THEN "SKIPPED"
                    ELSE IF j = last + 1 THEN "PENDING" ELSE status[j]]
    /\ lock' = None
    /\ ereq' = [ereq EXCEPT ![e] = None]
    /\ UNCHANGED <<clock, policy, workers, wdpc, cancels>>

\* An IntegrityError, or the end of the web process: the transaction rolls back.
EnqueueRollback(e) ==
    /\ ereq[e] # None
    /\ lock' = None
    /\ ereq' = [ereq EXCEPT ![e] = None]
    /\ UNCHANGED <<rows, clock, policy, workers, wdpc, cancels>>

Requests ==
    [trigger : {"AUTO"}, pull : Pulls, head : Heads, comment : {None}, retryOf : {0}]
    \cup
    [trigger : {"COMMAND"}, pull : Pulls, head : Heads, comment : Comments, retryOf : {0}]

-----------------------------------------------------------------------------
(* Claiming: JobRepository.claim_next.                                     *)

\* claim_statement: neither branch of the trigger condition names RETRY.
Eligible(j) ==
    /\ status[j] = "PENDING"
    /\ ~paused
    /\ RepositoryOf(j) \in enabled
    /\ info[j].trigger \in {"AUTO", "COMMAND"}

WithinLimits(j) ==
    /\ Cardinality(WithStatus("RUNNING")) < GlobalLimit
    /\ Cardinality(WithStatusIn("RUNNING", RepositoryOf(j))) < RepoLimit

\* FOR UPDATE SKIP LOCKED passes over a row that another claim holds.
Claimable(j) == Eligible(j) /\ RowFree(j) /\ WithinLimits(j)

\* Mutant: the count and the select without the lock on the singleton.
ClaimSelectUnlocked(w, j) ==
    /\ wpc[w] = "idle"
    /\ Claimable(j)
    /\ \A i \in 1..(j - 1) : ~Claimable(i)
    /\ lock' = w
    /\ wpc' = [wpc EXCEPT ![w] = "claiming"]
    /\ wjob' = [wjob EXCEPT ![w] = j]
    /\ UNCHANGED <<rows, clock, policy, wattempts, wexec, ereq, wdpc, cancels>>

\* The lock on the singleton and the select ordered by created_at, id.
ClaimSelect(w, j) ==
    /\ wpc[w] = "idle"
    /\ lock = None
    /\ Claimable(j)
    /\ \A i \in 1..(j - 1) : ~Claimable(i)
    /\ lock' = w
    /\ wpc' = [wpc EXCEPT ![w] = "claiming"]
    /\ wjob' = [wjob EXCEPT ![w] = j]
    /\ UNCHANGED <<rows, clock, policy, wattempts, wexec, ereq, wdpc, cancels>>

ClaimCommit(w) ==
    LET j == wjob[w] IN
    /\ wpc[w] = "claiming"
    /\ status' = [status EXCEPT ![j] = "RUNNING"]
    /\ attempts' = [attempts EXCEPT ![j] = @ + 1]
    /\ stale' = stale \ {j}
    /\ lock' = None
    /\ wpc' = [wpc EXCEPT ![w] = "claimed"]
    /\ wattempts' = [wattempts EXCEPT ![w] = attempts[j] + 1]
    /\ wexec' = [wexec EXCEPT ![w] = execution[j]]
    /\ UNCHANGED <<last, info, execution, outcome, ancient, policy, wjob, ereq, wdpc, cancels>>

-----------------------------------------------------------------------------
(* The worker: run_worker between a claim and the next one.                *)

\* The in-memory copy of the job is dropped and the worker goes to pc.
Leave(w, pc) ==
    /\ wpc' = [wpc EXCEPT ![w] = pc]
    /\ wjob' = [wjob EXCEPT ![w] = 0]
    /\ wattempts' = [wattempts EXCEPT ![w] = 0]
    /\ wexec' = [wexec EXCEPT ![w] = 0]

\* Mutant: every claim draws a new identity.
BindAnew(w) ==
    LET j == wjob[w] IN
    /\ wpc[w] = "claimed"
    /\ RowFree(j)
    /\ execution' = [execution EXCEPT ![j] = wattempts[w]]
    /\ wexec' = [wexec EXCEPT ![w] = wattempts[w]]
    /\ wpc' = [wpc EXCEPT ![w] = "working"]
    /\ UNCHANGED <<last, info, status, attempts, outcome, clock, policy, lock,
                   wjob, wattempts, ereq, wdpc, cancels>>

\* The execution identity is committed before any executor request, unless the
\* claimed row already had one.
Bind(w) ==
    LET j == wjob[w] IN
    /\ wpc[w] = "claimed"
    /\ RowFree(j)
    /\ IF wexec[w] = 0
       THEN /\ execution' = [execution EXCEPT ![j] = wattempts[w]]
            /\ wexec' = [wexec EXCEPT ![w] = wattempts[w]]
       ELSE UNCHANGED <<execution, wexec>>
    /\ wpc' = [wpc EXCEPT ![w] = "working"]
    /\ UNCHANGED <<last, info, status, attempts, outcome, clock, policy, lock,
                   wjob, wattempts, ereq, wdpc, cancels>>

\* What the worker writes to its row, whatever the row says by now.
Write(w, s, o) ==
    LET j == wjob[w] IN
    /\ RowFree(j)
    /\ status' = [status EXCEPT ![j] = s]
    /\ outcome' = [outcome EXCEPT ![j] = o]
    /\ stale' = stale \ {j}
    /\ UNCHANGED <<last, info, attempts, execution, ancient, policy, lock, ereq, wdpc>>

\* ReviewService.execute returned.
Succeed(w) ==
    /\ wpc[w] = "working"
    /\ Write(w, "SUCCEEDED", "SUCCEEDED")
    /\ Leave(w, "idle")
    /\ UNCHANGED cancels

\* ReviewSkipped.
Skip(w) ==
    /\ wpc[w] = "working"
    /\ Write(w, "SKIPPED", "SKIPPED")
    /\ Leave(w, "idle")
    /\ UNCHANGED cancels

\* A final error, or a retryable one on the last attempt.  Before the identity
\* is bound only EXECUTOR_NOT_CONFIGURED and a failed commit end here.
Fail(w) ==
    /\ wpc[w] \in {"claimed", "working"}
    /\ Write(w, "FAILED", "FAILED_FINAL")
    /\ Leave(w, "idle")
    /\ UNCHANGED cancels

\* Mutant: the last attempt is requeued too.
RequeueOnceMore(w) ==
    /\ wpc[w] = "working"
    /\ wattempts[w] <= MaxAttempts
    /\ Write(w, "PENDING", outcome[wjob[w]])
    /\ Leave(w, "idle")
    /\ UNCHANGED cancels

\* A retryable error with attempts left: the identity stays on the row.
Requeue(w) ==
    /\ wpc[w] = "working"
    /\ wattempts[w] < MaxAttempts
    /\ Write(w, "PENDING", outcome[wjob[w]])
    /\ Leave(w, "idle")
    /\ UNCHANGED cancels

\* asyncio.CancelledError: PENDING whatever the number of attempts, and the
\* process ends.
Cancel(w) ==
    /\ wpc[w] \in {"claimed", "working"}
    /\ cancels < MaxCancels
    /\ Write(w, "PENDING", outcome[wjob[w]])
    /\ Leave(w, "down")
    /\ cancels' = cancels + 1

\* The process ends: its transaction rolls back and its lock is freed.
Crash(w) ==
    /\ wpc[w] # "down"
    /\ lock' = IF lock = w THEN None ELSE lock
    /\ Leave(w, "down")
    /\ UNCHANGED <<rows, clock, policy, ereq, wdpc, cancels>>

-----------------------------------------------------------------------------
(* Stale-row recovery: JobRepository.recover_stale, run when a worker      *)
(* starts and by the watchdog.                                             *)

\* Mutant: recovery without the cutoff.
AllRunning == WithStatus("RUNNING")

Overdue == stale \cap WithStatus("RUNNING")
Requeueable == {j \in Overdue : attempts[j] < MaxAttempts /\ execution[j] = 0}

\* Mutant: the last attempt is not exhausted yet.
PastExhausted == {j \in Overdue : attempts[j] > MaxAttempts}

Exhausted == {j \in Overdue : attempts[j] >= MaxAttempts}
UnknownOutcome == {j \in Overdue : attempts[j] < MaxAttempts /\ execution[j] # 0}

\* Mutant: the terminal outcome is written to the status column.
RecoverStaleByOutcome ==
    /\ status' = [j \in Jobs |->
                    IF j \in Requeueable THEN "PENDING"
                    ELSE IF j \in Exhausted THEN "FAILED"
                    ELSE IF j \in UnknownOutcome THEN "UNKNOWN_OUTCOME"
                    ELSE status[j]]
    /\ stale' = stale \ Overdue
    /\ UNCHANGED <<last, info, attempts, execution, outcome, ancient>>

RecoverStale ==
    /\ status' = [j \in Jobs |->
                    IF j \in Requeueable THEN "PENDING"
                    ELSE IF j \in Exhausted \cup UnknownOutcome THEN "FAILED"
                    ELSE status[j]]
    /\ outcome' = [j \in Jobs |->
                    IF j \in UnknownOutcome THEN "UNKNOWN_OUTCOME" ELSE outcome[j]]
    /\ stale' = stale \ Overdue
    /\ UNCHANGED <<last, info, attempts, execution, ancient>>

Start(w) ==
    /\ wpc[w] = "down"
    /\ RecoverStale
    /\ Leave(w, "idle")
    /\ UNCHANGED <<policy, lock, ereq, wdpc, cancels>>

\* inspect_and_recover(apply=True): recovery commits first ...
WatchdogRecover ==
    /\ wdpc = "idle"
    /\ RecoverStale
    /\ wdpc' = "recovered"
    /\ UNCHANGED <<policy, lock, workers, ereq, cancels>>

\* ... then PENDING rows created before the cutoff fail, paused or not.
TooOld == {j \in WithStatus("PENDING") : j <= ancient}

WatchdogFailPending ==
    /\ wdpc = "recovered"
    /\ \A j \in TooOld : RowFree(j)
    /\ status' = [j \in Jobs |-> IF j \in TooOld THEN "FAILED" ELSE status[j]]
    /\ outcome' = [j \in Jobs |-> IF j \in TooOld THEN "FAILED_FINAL" ELSE outcome[j]]
    /\ wdpc' = "idle"
    /\ UNCHANGED <<last, info, attempts, execution, clock, policy, lock, workers,
                   ereq, cancels>>

-----------------------------------------------------------------------------
(* Operators.                                                              *)

\* JobRepository.retry: no lock; a second RETRY row of the head is refused by
\* the unique index.
RetryOf(j) == [trigger |-> "RETRY", pull |-> info[j].pull, head |-> info[j].head,
               comment |-> None, retryOf |-> j]

Retry(j) ==
    /\ "retry" \in Commands
    /\ status[j] \in {"FAILED", "SKIPPED"}
    /\ \A i \in 1..last :
          /\ ~(SameHead(info[i], info[j]) /\ status[i] = "SUCCEEDED")
          /\ info[i].retryOf # j
    /\ Unique(RetryOf(j))
    /\ Insert(RetryOf(j))
    /\ status' = [status EXCEPT ![last + 1] = "PENDING"]
    /\ UNCHANGED <<clock, policy, lock, workers, ereq, wdpc, cancels>>

\* JobRepository.skip_pending.
SkipPending(j) ==
    /\ "skip" \in Commands
    /\ status[j] = "PENDING"
    /\ RowFree(j)
    /\ status' = [status EXCEPT ![j] = "SKIPPED"]
    /\ UNCHANGED <<last, info, attempts, execution, outcome, clock, policy, lock,
                   workers, ereq, wdpc, cancels>>

\* Mutant: the pause does not wait for a claim under way.
SetPausedUnlocked(b) ==
    /\ "pause" \in Commands
    /\ paused' = b
    /\ UNCHANGED <<rows, clock, enabled, lock, workers, ereq, wdpc, cancels>>

\* set_processing_state writes under the lock of the global row.
SetPaused(b) ==
    /\ "pause" \in Commands
    /\ lock = None
    /\ paused' = b
    /\ UNCHANGED <<rows, clock, enabled, lock, workers, ereq, wdpc, cancels>>

\* Installation events and repository policy do not take that lock.
SetEnabled(S) ==
    /\ "enable" \in Commands
    /\ enabled' = S
    /\ UNCHANGED <<rows, clock, paused, lock, workers, ereq, wdpc, cancels>>

-----------------------------------------------------------------------------
(* Time.  stale_running_seconds and watchdog_pending_seconds are equal in  *)
(* the shipped settings and a row is created before it is started, so a    *)
(* row that is stale has been created before the pending cutoff, and so    *)
(* have the rows before it.                                                *)
GoStale(j) ==
    /\ status[j] = "RUNNING"
    /\ j \notin stale
    /\ Zombies \/ ~Held(j)
    /\ stale' = stale \cup {j}
    /\ ancient' = IF j > ancient THEN j ELSE ancient
    /\ UNCHANGED <<rows, policy, lock, workers, ereq, wdpc, cancels>>

GoAncient ==
    /\ ancient < last
    /\ ancient' = ancient + 1
    /\ UNCHANGED <<rows, stale, policy, lock, workers, ereq, wdpc, cancels>>

-----------------------------------------------------------------------------
WorkerStep(w) ==
    \/ Start(w)
    \/ \E j \in Jobs : ClaimSelect(w, j)
    \/ ClaimCommit(w)
    \/ Bind(w)
    \/ Succeed(w)
    \/ Skip(w)
    \/ Fail(w)
    \/ Requeue(w)

WebStep(e) ==
    \/ \E r \in Requests : EnqueueBegin(e, r)
    \/ EnqueueCommit(e)
    \/ EnqueueRollback(e)

Operator ==
    \/ \E j \in Jobs : Retry(j) \/ SkipPending(j)
    \/ \E b \in BOOLEAN : SetPaused(b)
    \/ \E S \in SUBSET Repos : SetEnabled(S)

Next ==
    \/ \E w \in Workers : WorkerStep(w) \/ Cancel(w) \/ Crash(w)
    \/ \E e \in Webs : WebStep(e)
    \/ WatchdogRecover \/ WatchdogFailPending
    \/ Operator
    \/ \E j \in Jobs : GoStale(j)
    \/ GoAncient

Spec == Init /\ [][Next]_vars

-----------------------------------------------------------------------------
(* Safety.                                                                 *)

\* review_global_concurrency and review_repository_concurrency bound the RUNNING
\* rows although every worker counts them by itself: the counts of two claims
\* never interleave, because claim_next holds the row of the global settings.
RunningWithinLimits ==
    /\ Cardinality(WithStatus("RUNNING")) <= GlobalLimit
    /\ \A r \in Repos : Cardinality(WithStatusIn("RUNNING", r)) <= RepoLimit

\* Jobs the webhook has admitted and nobody has claimed.  Re-queued jobs and the
\* operator's retries are PENDING rows too, but no capacity check counts them in.
Fresh == {j \in WithStatus("PENDING") : attempts[j] = 0 /\ info[j].trigger # "RETRY"}

\* Two webhooks admitted at the same time never fill the queue beyond
\* max_pending_jobs or max_repository_pending_jobs: enqueue counts and inserts
\* under one lock, and the rows it supersedes leave in the same transaction.
FreshWithinCapacity ==
    /\ Cardinality(Fresh) <= MaxPending
    /\ \A r \in Repos : Cardinality({j \in Fresh : RepositoryOf(j) = r}) <= MaxRepoPending

\* Of one pull request at most one unclaimed AUTO job waits: a new head leaves
\* no older one behind, also when two pushes are handled at once.
OneFreshAutoPerPull ==
    \A i, j \in Fresh :
        (info[i].trigger = "AUTO" /\ info[j].trigger = "AUTO" /\ info[i].pull = info[j].pull)
            => i = j

\* After set_processing_state has committed a pause no job starts: a claim that
\* had read "not paused" holds the lock the pause waits for.
NoStartWhilePaused ==
    [][\A j \in Jobs : status[j] # "RUNNING" /\ status'[j] = "RUNNING" => ~paused]_vars

\* What the code relies on when no worker outlives stale_running_seconds: a row
\* a worker is going to write is RUNNING and still its own, with the attempt and
\* the identity of its in-memory copy.  The unguarded writes are safe for this
\* reason only.
Ownership ==
    \A w \in Workers, j \in Jobs : Holds(w, j) =>
        /\ status[j] = "RUNNING"
        /\ wattempts[w] = attempts[j]
        /\ wexec[w] = execution[j]
        /\ \A v \in Workers : Holds(v, j) => v = w

\* No job is started more than worker_max_attempts times by crashes, recoveries
\* and retryable errors together; only a cancelled task adds one.
AttemptsBounded == \A j \in Jobs : attempts[j] <= MaxAttempts + cancels

\* Two /review comments never have work under way for the same head: enqueue
\* looks for an active job under the lock, and nothing but an insert makes a
\* job active again.
OneCommandPerHead ==
    \A i, j \in {k \in Jobs : status[k] \in Active /\ info[k].trigger = "COMMAND"} :
        SameHead(info[i], info[j]) => i = j

\* The queue implements the life cycle of a job.
Lifecycle == INSTANCE JobLifecycle
LifecycleSpec == Lifecycle!Spec

-----------------------------------------------------------------------------
(* Liveness.  A worker process that is up takes its next step and a dead   *)
(* one is restarted (restart policy of the service), an open web           *)
(* transaction ends, timestamps age, and the timer runs the watchdog       *)
(* (deploy/inryeok-bot-watchdog.timer), whose update waits in the row      *)
(* locks' queues and so is not overtaken for ever.                         *)
Fairness ==
    /\ \A w \in Workers : WF_vars(WorkerStep(w))
    /\ \A e \in Webs : WF_vars(EnqueueCommit(e) \/ EnqueueRollback(e))
    /\ \A j \in Jobs : WF_vars(GoStale(j))
    /\ WF_vars(GoAncient)
    /\ WF_vars(WatchdogRecover)
    /\ SF_vars(WatchdogFailPending)

FairSpec == Spec /\ Fairness

\* Every admitted job comes to a terminal state, through worker crashes, lost
\* claims, pauses and disabled repositories: recovery or the watchdog ends what
\* no worker does.
EveryJobSettles ==
    \A j \in Jobs : (status[j] \in Active) ~> (status[j] \in Terminal)

-----------------------------------------------------------------------------
(* What the documents say and the code does not do.                        *)

\* docs/unattended-operations.md: a stale job that has an execution identity is
\* classified UNKNOWN_OUTCOME.  On its last attempt it becomes MAX_ATTEMPTS.
StaleIdentityIsUnknown ==
    [][\A j \in Jobs :
          (j \in Overdue /\ execution[j] # 0 /\ status'[j] = "FAILED")
              => outcome'[j] = "UNKNOWN_OUTCOME"]_vars

\* docs/admin-guide.md: failed jobs can be retried.  No RETRY row is ever eligible,
\* whatever the policy says: it waits until the watchdog fails it.
RetriesAreEligible ==
    \A j \in WithStatus("PENDING") :
        (info[j].trigger = "RETRY" /\ ~paused /\ RepositoryOf(j) \in enabled) => Eligible(j)
=============================================================================
