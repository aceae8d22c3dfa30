---------------------------- MODULE ReviewService ----------------------------
\* What a worker does with a claimed job: ReviewService.execute and the passes it
\* asks the executor for (app/review/service.py, app/review/passes.py), up to the
\* Review on GitHub (app/github/client.py).  The executor is the module Executor;
\* the queue is reduced to what decides which jobs run at the same time.
\*
\* A job takes one step from one commit, or one call to another system, to the
\* next.  Its process can end between any two of them.

EXTENDS Integers, Sequences, FiniteSets

CONSTANTS
    Jobs,         \* review_jobs rows
    Commands,     \* those that a /review comment asked for
    Pulls,        \* pull requests, each of a repository of its own
    Heads,        \* heads of a pull request: 1..n, in the order they are pushed
    Policies,     \* settings that go into the prompt
    None,
    MaxPasses,    \* passes of a review; the first is GENERAL
    Budget,       \* review_processes_per_hour, for the one window of the model
    GlobalLimit,  \* review_global_concurrency
    RepoLimit,    \* review_repository_concurrency
    MaxAttempts,  \* worker_max_attempts
    PostAttempts, \* attempts of GitHubClient._request
    MaxLost,      \* bound on the Reviews whose answer is lost
    MaxCrashes,   \* bound on the workers that end in the middle of a job
    MaxRecords, Aging, MaxOrphans, MaxRestarts, MaxFaults   \* of the executor

ASSUME ServiceAssumption ==
    /\ IsFiniteSet(Jobs)
    /\ Commands \subseteq Jobs /\ Heads = 1..Cardinality(Heads) /\ 1 \in Heads
    /\ None \notin Jobs \cup Policies \cup (Jobs \X (1..MaxPasses))
    /\ {MaxPasses, MaxAttempts, PostAttempts, GlobalLimit, RepoLimit, MaxRecords} \subseteq Nat \ {0}
    /\ {Budget, MaxLost, MaxCrashes, MaxOrphans, MaxRestarts, MaxFaults} \subseteq Nat
    /\ Aging \in BOOLEAN

VARIABLES
    \* GitHub and the operator
    pull,     \* pull request of each job
    head,     \* head_sha of each job
    tip,      \* the current head of each pull request
    reviews,  \* the Reviews on GitHub; the id of a Review is its place here
    policy,   \* the settings in force
    \* the database
    status, attempts,
    pass,     \* review_passes: state and fingerprint of each pass of each job
    saved,    \* the job has a committed ReviewRun
    gid,      \* its github_review_id, 0 for NULL
    lock,     \* the job whose worker holds the row lock on global_review_settings
    \* the worker
    pc,       \* where the worker of the job is
    at,       \* the pass it is at
    mine,     \* the settings it read
    reason,   \* why its pass will not be run
    tries,    \* attempts of the current request to GitHub
    found,    \* the id that it will record
    \* bounds
    lost, crashes,
    \* the executor
    record, newer, seen, running, net, call, procs, life, ran, pruned, restarts, faults

E == INSTANCE Executor WITH Ids <- Jobs \X (1..MaxPasses), Digests <- Policies, Callers <- Jobs

executor == <<record, newer, seen, running, net, call, procs, life, ran, pruned, restarts, faults>>
world == <<pull, head, tip, policy>>
rows == <<status, attempts, pass, saved, gid>>
worker == <<pc, at, mine, reason, tries, found>>
service == <<world, reviews, rows, lock, worker, lost, crashes>>
vars == <<service, executor>>

PassStates == {"NONE", "RESERVED", "SUCCEEDED", "FAILED", "UNKNOWN", "SKIPPED"}
Pcs == {"idle", "down", "gate", "pass", "reserve", "call", "answer", "recheck", "look",
        "list", "post", "fallback", "record", "finish"}
Reasons == {"NONE", "PROCESS_BUDGET", "JOB_TIMEOUT_BUDGET"}

TypeOK ==
    /\ pull \in [Jobs -> Pulls] /\ head \in [Jobs -> Heads]
    /\ tip \in [Pulls -> Heads] /\ policy \in Policies
    /\ reviews \in Seq([pull : Pulls, head : Heads, by : Jobs])
    /\ status \in [Jobs -> {"PENDING", "RUNNING", "SUCCEEDED", "SKIPPED", "FAILED"}]
    /\ attempts \in [Jobs -> 0..MaxAttempts + MaxCrashes]
    /\ pass \in [Jobs -> [1..MaxPasses -> [state : PassStates, digest : Policies \cup {None}]]]
    /\ saved \in [Jobs -> BOOLEAN] /\ gid \in [Jobs -> 0..Len(reviews)]
    /\ lock \in Jobs \cup {None}
    /\ pc \in [Jobs -> Pcs] /\ at \in [Jobs -> 1..MaxPasses + 1]
    /\ mine \in [Jobs -> Policies \cup {None}] /\ reason \in [Jobs -> Reasons]
    /\ tries \in [Jobs -> 1..PostAttempts] /\ found \in [Jobs -> 0..Len(reviews)]
    /\ lost \in 0..MaxLost /\ crashes \in 0..MaxCrashes

Init ==
    /\ pull \in [Jobs -> Pulls] /\ head \in [Jobs -> Heads]
    /\ tip = [p \in Pulls |-> 1] /\ policy \in Policies /\ reviews = <<>>
    /\ status = [j \in Jobs |-> "PENDING"] /\ attempts = [j \in Jobs |-> 0]
    /\ pass = [j \in Jobs |-> [p \in 1..MaxPasses |-> [state |-> "NONE", digest |-> None]]]
    /\ saved = [j \in Jobs |-> FALSE] /\ gid = [j \in Jobs |-> 0]
    /\ lock = None
    /\ pc = [j \in Jobs |-> "idle"] /\ at = [j \in Jobs |-> 1]
    /\ mine = [j \in Jobs |-> None] /\ reason = [j \in Jobs |-> "NONE"]
    /\ tries = [j \in Jobs |-> 1] /\ found = [j \in Jobs |-> 0]
    /\ lost = 0 /\ crashes = 0
    /\ E!Init

-----------------------------------------------------------------------------
\* Shared parts of the steps.

SameHead(j, k) == pull[j] = pull[k] /\ head[j] = head[k]

\* The worker of j goes on at l.
Goto(j, l) == pc' = [pc EXCEPT ![j] = l]

Local == <<at, mine, reason, tries, found>>

\* The worker forgets j.
Leave(j) ==
    /\ at' = [at EXCEPT ![j] = 1] /\ mine' = [mine EXCEPT ![j] = None]
    /\ reason' = [reason EXCEPT ![j] = "NONE"]
    /\ tries' = [tries EXCEPT ![j] = 1] /\ found' = [found EXCEPT ![j] = 0]

\* The worker is done with j; it leaves the row as s.
Stop(j, s) ==
    /\ status' = [status EXCEPT ![j] = s]
    /\ Goto(j, "idle") /\ Leave(j)

\* A GitHub error: a retryable one leaves the job for its next attempt, if it
\* has one.
AfterError(j, retryable) ==
    Stop(j, IF retryable /\ attempts[j] < MaxAttempts THEN "PENDING" ELSE "FAILED")

Settle(j, p, s) == pass' = [pass EXCEPT ![j][p].state = s]

NextPass(j) ==
    /\ at' = [at EXCEPT ![j] = @ + 1]
    /\ Goto(j, "pass")
    /\ UNCHANGED <<mine, reason, tries, found>>

Stale(j) == j \in Commands /\ tip[pull[j]] # head[j]

\* The executor has no part in the step, nor have the bounds on failures.
Quiet == UNCHANGED <<executor, lost, crashes, world>>

-----------------------------------------------------------------------------
\* From the claim to the passes.

\* The head of the job exists, its repository and the workers are free, and so
\* is the row that claims lock, too.
Claim(j) ==
    /\ status[j] = "PENDING" /\ head[j] <= tip[pull[j]]
    /\ lock = None
    /\ Cardinality({k \in Jobs : status[k] = "RUNNING" /\ pull[k] = pull[j]}) < RepoLimit
    /\ Cardinality({k \in Jobs : status[k] = "RUNNING"}) < GlobalLimit
    /\ status' = [status EXCEPT ![j] = "RUNNING"]
    /\ attempts' = [attempts EXCEPT ![j] = @ + 1]
    /\ Goto(j, "gate")
    /\ UNCHANGED <<Local, pass, saved, gid, lock, reviews>> /\ Quiet

\* Mutant: only the job's own Review counts.
ReviewedByItself(j) == gid[j] # 0

\* A Review of this head is on record.
Reviewed(j) == \E k \in Jobs : SameHead(j, k) /\ gid[k] # 0

\* execute() up to the checkout: a command for a head that was replaced, and a
\* head that has its Review, are skipped.  The settings are read here.
Gate(j) ==
    /\ pc[j] = "gate"
    /\ IF Stale(j) \/ Reviewed(j)
       THEN Stop(j, "SKIPPED")
       ELSE /\ mine' = [mine EXCEPT ![j] = policy]
            /\ Goto(j, "pass")
            /\ UNCHANGED <<status, at, reason, tries, found>>
    /\ UNCHANGED <<attempts, pass, saved, gid, lock, reviews>> /\ Quiet

\* The repository or the model was disabled, or the pull request is closed or a
\* draft.
Unreviewable(j) ==
    /\ pc[j] = "gate" \/ pc[j] = "recheck"
    /\ Stop(j, "SKIPPED")
    /\ UNCHANGED <<attempts, pass, saved, gid, lock, reviews>> /\ Quiet

\* A read from GitHub fails, or the checkout, or the validation of the findings.
ReadFails(j) ==
    /\ pc[j] \in {"gate", "recheck", "list"} \/ (pc[j] = "pass" /\ at[j] > MaxPasses)
    /\ \E retryable \in BOOLEAN :
          /\ retryable => pc[j] # "pass"
          /\ AfterError(j, retryable)
    /\ UNCHANGED <<attempts, pass, saved, gid, lock, reviews>> /\ Quiet

-----------------------------------------------------------------------------
\* The passes.

AtPass(j) == pc[j] = "pass" /\ at[j] <= MaxPasses

\* Mutant: a pass that an earlier attempt reserved is taken for done.
ResumeAny(j) ==
    /\ AtPass(j)
    /\ pass[j][at[j]].state # "NONE"
    /\ NextPass(j)
    /\ UNCHANGED <<status, attempts, pass, saved, gid, lock, reviews>> /\ Quiet

\* Mutant: a pass that is reserved is left to whoever reserved it.
ResumeWaiting(j) ==
    /\ AtPass(j)
    /\ pass[j][at[j]].state \notin {"NONE", "RESERVED"}
    /\ IF pass[j][at[j]] = [state |-> "SUCCEEDED", digest |-> mine[j]]
       THEN Goto(j, "call") /\ UNCHANGED <<status, Local>>
       ELSE Stop(j, "FAILED")
    /\ UNCHANGED <<attempts, pass, saved, gid, lock, reviews>> /\ Quiet

\* A pass that an earlier attempt of the job reserved: only one that succeeded,
\* on the same inputs, is asked for again.
ResumePass(j) ==
    /\ AtPass(j)
    /\ pass[j][at[j]].state # "NONE"
    /\ IF pass[j][at[j]] = [state |-> "SUCCEEDED", digest |-> mine[j]]
       THEN Goto(j, "call") /\ UNCHANGED <<status, Local>>
       ELSE Stop(j, "FAILED")
    /\ UNCHANGED <<attempts, pass, saved, gid, lock, reviews>> /\ Quiet

Reserved == {i \in Jobs \X (1..MaxPasses) : pass[i[1]][i[2]].state \notin {"NONE", "SKIPPED"}}

\* What speaks against one more pass: the processes of the last hour, or the time
\* that is left of the job's own.
Grounds == IF Cardinality(Reserved) >= Budget THEN {"PROCESS_BUDGET"}
                                              ELSE {"NONE", "JOB_TIMEOUT_BUDGET"}

\* Mutant: the processes are counted without the lock.
CountBudgetUnlocked(j) ==
    /\ AtPass(j)
    /\ pass[j][at[j]].state = "NONE"
    /\ \E r \in Grounds : reason' = [reason EXCEPT ![j] = r]
    /\ Goto(j, "reserve")
    /\ UNCHANGED <<rows, reviews, lock, at, mine, tries, found>> /\ Quiet

\* Under the row lock of the settings the processes of the last hour are
\* counted.
CountBudget(j) ==
    /\ AtPass(j)
    /\ pass[j][at[j]].state = "NONE"
    /\ lock = None /\ lock' = j
    /\ \E r \in Grounds : reason' = [reason EXCEPT ![j] = r]
    /\ Goto(j, "reserve")
    /\ UNCHANGED <<rows, reviews, at, mine, tries, found>> /\ Quiet

\* The pass is committed as reserved or skipped, which frees the lock.  Without
\* the GENERAL pass there is no review.
Reserve(j) ==
    /\ pc[j] = "reserve"
    /\ pass' = [pass EXCEPT ![j][at[j]] =
                   [state |-> IF reason[j] = "NONE" THEN "RESERVED" ELSE "SKIPPED",
                    digest |-> mine[j]]]
    /\ lock' = IF lock = j THEN None ELSE lock
    /\ CASE reason[j] = "NONE" -> Goto(j, "call") /\ UNCHANGED <<status, Local>>
         [] reason[j] # "NONE" /\ at[j] = 1 -> Stop(j, "FAILED")
         [] OTHER -> NextPass(j) /\ UNCHANGED status
    /\ UNCHANGED <<attempts, saved, gid, reviews>> /\ Quiet

\* runner.run: the identity of a pass is drawn from that of the job.
Call(j) ==
    /\ pc[j] = "call"
    /\ E!Send(j, <<j, at[j]>>, mine[j])
    /\ Goto(j, "answer")
    /\ UNCHANGED <<world, reviews, rows, lock, Local, lost, crashes>>

\* The archive is too large, or the executor does not listen.
NoCall(j) ==
    /\ pc[j] = "call"
    /\ Settle(j, at[j], "UNKNOWN")
    /\ Stop(j, "FAILED")
    /\ UNCHANGED <<attempts, saved, gid, lock, reviews>> /\ Quiet

\* What an error of the executor makes of the pass.  Codes that are safe for a
\* partial review, and known hard ones, come back as stored errors.
Failures(reply) ==
    CASE reply = "CONFLICT" -> {"FAILED"}
      [] reply = "ERROR" -> {"FAILED", "UNKNOWN"}
      [] OTHER -> {"UNKNOWN"}

\* The answer is in and committed to the pass.  A pass after the GENERAL one may
\* fail safely and leave the review partial; every other failure is final.
Answered(j) ==
    /\ pc[j] = "answer"
    /\ E!Take(j)
    /\ LET reply == call[j].reply
           p == at[j]
       IN  IF reply = "RESULT"
           THEN Settle(j, p, "SUCCEEDED") /\ NextPass(j) /\ UNCHANGED status
           ELSE \E s \in Failures(reply) :
                   /\ Settle(j, p, s)
                   /\ \/ Stop(j, "FAILED")
                      \/ reply = "ERROR" /\ s = "FAILED" /\ p > 1 /\ NextPass(j) /\ UNCHANGED status
    /\ UNCHANGED <<world, reviews, attempts, saved, gid, lock, lost, crashes>>

\* The client's timeout, or a broken connection, while the executor works on.
TimesOut(j) ==
    /\ pc[j] = "answer"
    /\ E!Abandon(j)
    /\ Settle(j, at[j], "UNKNOWN")
    /\ Stop(j, "FAILED")
    /\ UNCHANGED <<world, reviews, attempts, saved, gid, lock, lost, crashes>>

-----------------------------------------------------------------------------
\* From the passes to the Review.

\* The ReviewRun is committed before anything is written to GitHub.
Persist(j) ==
    /\ pc[j] = "pass" /\ at[j] > MaxPasses
    /\ saved' = [saved EXCEPT ![j] = TRUE]
    /\ Goto(j, IF j \in Commands THEN "recheck" ELSE "look")
    /\ UNCHANGED <<status, attempts, pass, gid, lock, reviews, Local>> /\ Quiet

Recheck(j) ==
    /\ pc[j] = "recheck"
    /\ IF Stale(j) THEN Stop(j, "SKIPPED")
                   ELSE Goto(j, "look") /\ UNCHANGED <<status, Local>>
    /\ UNCHANGED <<attempts, pass, saved, gid, lock, reviews>> /\ Quiet

\* An AUTO job of the same head has published in the meantime.
AutoReviewed(j) ==
    j \notin Commands /\ \E k \in Jobs \ (Commands \cup {j}) : SameHead(j, k) /\ gid[k] # 0

Look(j) ==
    /\ pc[j] = "look"
    /\ Goto(j, IF AutoReviewed(j) THEN "record" ELSE "list")
    /\ UNCHANGED <<rows, lock, reviews, Local>> /\ Quiet

\* Mutant: the marker does not name the head.
MarkedPull(j) == {n \in 1..Len(reviews) : reviews[n].pull = pull[j]}

\* Mutant: the marker names the job.
MarkedByJob(j) == {n \in 1..Len(reviews) : reviews[n].by = j}

\* The Reviews that carry the marker of the job's pull request and head.
Marked(j) == {n \in 1..Len(reviews) : reviews[n].pull = pull[j] /\ reviews[n].head = head[j]}


\* The Reviews are listed: the first with the marker is taken for the job's own.
List(j) ==
    /\ pc[j] = "list"
    /\ IF Marked(j) = {}
       THEN Goto(j, "post") /\ UNCHANGED Local
       ELSE /\ \E n \in Marked(j) :
                  /\ \A m \in Marked(j) : n <= m
                  /\ found' = [found EXCEPT ![j] = n]
            /\ Goto(j, "record")
            /\ UNCHANGED <<at, mine, reason, tries>>
    /\ UNCHANGED <<rows, lock, reviews>> /\ Quiet

-----------------------------------------------------------------------------
\* The Review.

Posting(j) == pc[j] \in {"post", "fallback"}

\* GitHub creates the Review.
Created(j) == reviews' = Append(reviews, [pull |-> pull[j], head |-> head[j], by |-> j])

\* Mutant: one attempt too many.
AgainOnceMore(j) ==
    IF tries[j] <= PostAttempts
    THEN /\ tries' = [tries EXCEPT ![j] = @ + 1]
         /\ UNCHANGED <<status, pc, at, mine, reason, found>>
    ELSE AfterError(j, TRUE)

\* The same request is sent again, or the attempts are used up.
Again(j) ==
    IF tries[j] < PostAttempts
    THEN /\ tries' = [tries EXCEPT ![j] = @ + 1]
         /\ UNCHANGED <<status, pc, at, mine, reason, found>>
    ELSE AfterError(j, TRUE)

Post(j) ==
    /\ Posting(j)
    /\ Created(j)
    /\ found' = [found EXCEPT ![j] = Len(reviews) + 1]
    /\ Goto(j, "record")
    /\ UNCHANGED <<rows, lock, at, mine, reason, tries>> /\ Quiet

\* The Review is created and the answer is lost, or is a 5xx.
PostLost(j) ==
    /\ Posting(j) /\ lost < MaxLost
    /\ lost' = lost + 1
    /\ Created(j)
    /\ Again(j)
    /\ UNCHANGED <<attempts, pass, saved, gid, lock, world, crashes, executor>>

\* Nothing is created: a network error, a 5xx, a rate limit.
PostFails(j) ==
    /\ Posting(j)
    /\ Again(j)
    /\ UNCHANGED <<attempts, pass, saved, gid, lock, reviews>> /\ Quiet

\* GitHub refuses: a location that is no longer valid makes a summary of the
\* Review, once; anything else ends the job.
PostRefused(j) ==
    /\ Posting(j)
    /\ \/ Stop(j, "FAILED")
       \/ /\ pc[j] = "post" /\ Goto(j, "fallback")
          /\ tries' = [tries EXCEPT ![j] = 1]
          /\ UNCHANGED <<status, at, mine, reason, found>>
    /\ UNCHANGED <<attempts, pass, saved, gid, lock, reviews>> /\ Quiet

\* The id of the Review is committed with the findings.
Record(j) ==
    /\ pc[j] = "record"
    /\ gid' = [gid EXCEPT ![j] = found[j]]
    /\ Goto(j, "finish")
    /\ UNCHANGED <<status, attempts, pass, saved, lock, reviews, Local>> /\ Quiet

\* JobRepository.finish.
Finish(j) ==
    /\ pc[j] = "finish"
    /\ Stop(j, "SUCCEEDED")
    /\ UNCHANGED <<attempts, pass, saved, gid, lock, reviews>> /\ Quiet

-----------------------------------------------------------------------------
\* Ends in the middle, and the world around.

\* What is left of the worker's call when its process ends.
HangUp(j) ==
    CASE pc[j] # "answer" -> UNCHANGED executor
      [] pc[j] = "answer" /\ call[j].st = "answered" -> E!Take(j)
      [] OTHER -> E!Abandon(j)

\* The process ends: its transaction is rolled back.
Ends(j) ==
    /\ pc[j] \notin {"idle", "down"} /\ crashes < MaxCrashes
    /\ crashes' = crashes + 1
    /\ HangUp(j)
    /\ lock' = IF lock = j THEN None ELSE lock
    /\ UNCHANGED <<world, reviews, attempts, pass, saved, gid, lost>>

Crash(j) == Ends(j) /\ Goto(j, "down") /\ Leave(j) /\ UNCHANGED status

\* asyncio.CancelledError: the job goes back to the queue.
Cancel(j) == Ends(j) /\ Stop(j, "PENDING")

\* Recovery finds the row stale; its identity was bound before the service ran.
Recover(j) ==
    /\ pc[j] = "down"
    /\ Stop(j, "FAILED")
    /\ UNCHANGED <<attempts, pass, saved, gid, lock, reviews>> /\ Quiet

Push(p) ==
    /\ tip[p] + 1 \in Heads
    /\ tip' = [tip EXCEPT ![p] = @ + 1]
    /\ UNCHANGED <<pull, head, policy, reviews, rows, lock, worker, lost, crashes>> /\ UNCHANGED executor

ChangePolicy(q) ==
    /\ policy # q /\ policy' = q
    /\ UNCHANGED <<pull, head, tip, reviews, rows, lock, worker, lost, crashes>> /\ UNCHANGED executor

\* The steps of the executor itself.
ExecutorStep ==
    \/ \E q \in net : E!Receive(q)
    \/ E!Reject \/ E!Spawn \/ E!Restart
    \/ \E s \in {"SUCCEEDED", "FAILED"} : E!Finish(s) \/ E!FinishNotDurable(s)

Work(j) ==
    \/ Gate(j) \/ Unreviewable(j) \/ ReadFails(j)
    \/ ResumePass(j) \/ CountBudget(j) \/ Reserve(j)
    \/ Call(j) \/ NoCall(j) \/ Answered(j) \/ TimesOut(j)
    \/ Persist(j) \/ Recheck(j) \/ Look(j) \/ List(j)
    \/ Post(j) \/ PostLost(j) \/ PostFails(j) \/ PostRefused(j) \/ Record(j) \/ Finish(j)

Next ==
    \/ \E j \in Jobs : Claim(j) \/ Work(j) \/ Crash(j) \/ Cancel(j) \/ Recover(j)
    \/ \E p \in Pulls : Push(p)
    \/ \E q \in Policies : ChangePolicy(q)
    \/ ExecutorStep /\ UNCHANGED service

Spec == Init /\ [][Next]_vars

\* A worker goes on: each of its calls returns or times out.  The watchdog's timer
\* finds the jobs of the workers that ended.  The executor gets to its requests,
\* which stands for the timeouts that MaxOrphans cuts off.
Received == (\E q \in net : E!Receive(q)) /\ UNCHANGED service

Fairness ==
    /\ \A j \in Jobs : WF_vars(Work(j)) /\ WF_vars(Recover(j))
    /\ WF_vars(Received)

FairSpec == Spec /\ Fairness

-----------------------------------------------------------------------------
\* Properties.

\* How many Reviews there are beyond one for each head.
Duplicates ==
    Len(reviews) - Cardinality({<<reviews[n].pull, reviews[n].head>> : n \in 1..Len(reviews)})

\* Crashes, retries, a refused location, and a command for the head of an AUTO
\* job make no second Review of a head: only a lost answer to the POST does.
DuplicatesAreLost == Duplicates <= lost

\* "Duplicate publication for the same head is prevented by the marker"
\* (docs/admin-guide.md), without that exception.
MarkerPreventsDuplicates == Duplicates = 0

\* A Review on GitHub rests on a committed ReviewRun, and on a process of its
\* GENERAL pass that ran with the inputs that the pass was reserved for.
ReviewIsBacked ==
    \A n \in 1..Len(reviews) :
        LET j == reviews[n].by
        IN  saved[j] /\ pass[j][1].digest \in ran[<<j, 1>>]

\* "A repeated /review for the same head must not spend another Codex execution":
\* once the Review of a head is on record no job of that head asks the executor.
NoRunForReviewedHead ==
    \A j \in Jobs : pc[j] \in {"call", "answer"} => \A k \in Jobs : SameHead(j, k) => gid[k] = 0

\* A job that succeeded has recorded the id of a Review of its own head.
SuccessIsVisible ==
    \A j \in Jobs : status[j] = "SUCCEEDED" =>
        /\ gid[j] # 0
        /\ reviews[gid[j]].pull = pull[j] /\ reviews[gid[j]].head = head[j]

\* The executor starts processes for at most as many passes as the budget allows,
\* and one for each pass while its record is kept, whatever passes of whatever
\* jobs are admitted, resumed or repeated at the same time.
BudgetHolds ==
    /\ Cardinality({i \in DOMAIN procs : procs[i] > 0}) <= Budget
    /\ \A i \in DOMAIN procs \ pruned : procs[i] <= 1

\* A job that was claimed comes to an end or back to the queue.
JobsEnd == \A j \in Jobs : status[j] = "RUNNING" ~> status[j] # "RUNNING"
=============================================================================
