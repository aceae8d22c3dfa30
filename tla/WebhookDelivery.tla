---------------------------- MODULE WebhookDelivery ----------------------------
\* The deliveries of GitHub and what becomes of them: the handler with its steps
\* between two calls of GitHub or two commits (app/github/webhook.py), the admission
\* of its job (app/jobs/repository.py), the checks of the worker before a review
\* (app/review/service.py), the notices (app/jobs/worker.py) and the watchdog
\* (app/ops/watchdog.py).  One repository and one pull request.
\*
\* The queue and the review have modules of their own, JobQueue and ReviewService;
\* here a job is what the policy, the notices and the deliveries see of it.

EXTENDS ReviewPolicy, Sequences

CONSTANTS
    Deliveries,     \* delivery ids
    Handlers,       \* requests that the web process handles side by side
    MaxHead,        \* bound: heads of the pull request
    MaxPending,     \* settings.max_pending_jobs
    MaxAttempts     \* max_attempts of recover_stale_deliveries

ASSUME DeliveryAssumption == {MaxHead, MaxPending, MaxAttempts} \subseteq Nat \ {0}

VARIABLES
    deliveries,  \* delivery id |-> its row, or None
    handler,     \* handler |-> the request it is at, or None
    jobs,        \* the sequence of jobs
    notices,     \* <<code, head>> |-> its row and the comments on GitHub
    head         \* the head of the pull request

webhooks == <<deliveries, handler, jobs, notices, head>>

Events == {"opened", "synchronize", "command", "suspended", "restored"}
Heads == 1..MaxHead
Codes == {"REVIEWED", "IN_PROGRESS", "FAILED"}
DeliveryStates == {"PROCESSING", "PROCESSED", "IGNORED", "FAILED_RETRYABLE", "FAILED_FINAL"}
DeliveryRow == [event : Events, head : Heads, status : DeliveryStates, attempts : Nat \ {0}]

ASSUME RowAssumption == None \notin DeliveryRow

Trigger(event) == IF event = "command" THEN "COMMAND" ELSE "AUTO"

DeliveriesInit ==
    /\ deliveries = [d \in Deliveries |-> None]
    /\ handler = [h \in Handlers |-> None]
    /\ jobs = <<>>
    /\ notices = [n \in Codes \X Heads |-> [row |-> FALSE, posted |-> 0, known |-> FALSE, lost |-> 0]]
    /\ head = 1

-----------------------------------------------------------------------------
\* The handler.

At(h, step) == handler[h] # None /\ handler[h].step = step
Event(h) == deliveries[handler[h].delivery].event

\* The request goes on at a step, or it ends with a state of the delivery.
Continue(h, step) == handler' = [handler EXCEPT ![h].step = step]
Finish(h, status) ==
    /\ deliveries' = [deliveries EXCEPT ![handler[h].delivery].status = status]
    /\ handler' = [handler EXCEPT ![h] = None]

Request(d, step) == [delivery |-> d, step |-> step, head |-> 0, attempts |-> 0,
                     model |-> None, effort |-> None, code |-> None, result |-> None]

\* _record_delivery(): the first request with an id inserts its row.  A late event
\* carries an older head.
Receive(h, d, event, at) ==
    /\ handler[h] = None /\ deliveries[d] = None /\ at <= head
    /\ deliveries' = [deliveries EXCEPT ![d] = [event |-> event, head |-> at, status |-> "PROCESSING", attempts |-> 1]]
    /\ handler' = [handler EXCEPT ![h] = [Request(d, "policy") EXCEPT !.head = at]]
    /\ UNCHANGED <<policyVars, jobs, notices, head>>

\* A later one finds it.  It goes on only after a failure that may be tried again;
\* the row that was read and the row that is written are not compared.
Redeliver(h, d) ==
    /\ handler[h] = None /\ deliveries[d] # None /\ deliveries[d].status = "FAILED_RETRYABLE"
    /\ handler' = [handler EXCEPT ![h] = [Request(d, "reserve") EXCEPT
                     !.head = deliveries[d].head, !.attempts = deliveries[d].attempts]]
    /\ UNCHANGED <<policyVars, deliveries, jobs, notices, head>>

Reserve(h) ==
    /\ At(h, "reserve")
    /\ deliveries' = [deliveries EXCEPT ![handler[h].delivery].status = "PROCESSING",
                                        ![handler[h].delivery].attempts = handler[h].attempts + 1]
    /\ Continue(h, "policy")
    /\ UNCHANGED <<policyVars, jobs, notices, head>>

\* The policy of the moment: it may not resolve, it may ignore the event, or the
\* request goes on with its model and effort.  A push is only observed.
Admitted(h) ==
    /\ TriggerEnabled(global, repository, Trigger(Event(h)))
    /\ Event(h) = "opened" => Chosen(global, repository, "opened")
    /\ Event(h) # "synchronize"

ReadPolicy(h) ==
    /\ At(h, "policy") /\ Event(h) \in {"opened", "synchronize", "command"}
    /\ IF ~Resolvable(catalog, global, repository) THEN Finish(h, "FAILED_RETRYABLE")
       ELSE IF ~Admitted(h) THEN Finish(h, "IGNORED")
       ELSE /\ handler' = [handler EXCEPT
                 ![h].step = IF Event(h) = "command" THEN "pull" ELSE "enqueue",
                 ![h].model = Chosen(global, repository, "model"),
                 ![h].effort = Chosen(global, repository, "effort")]
            /\ UNCHANGED deliveries
    /\ UNCHANGED <<policyVars, jobs, notices, head>>

\* The sender is a bot or may not write, the pull request is closed or a draft.
IgnoreSender(h) ==
    /\ At(h, "policy") \/ At(h, "pull")
    /\ Event(h) \in {"opened", "command"}
    /\ Finish(h, "IGNORED")
    /\ UNCHANGED <<policyVars, jobs, notices, head>>

\* A command is about the head of now.
PullRequest(h) ==
    /\ At(h, "pull")
    /\ handler' = [handler EXCEPT ![h].step = "checks", ![h].head = head]
    /\ UNCHANGED <<policyVars, deliveries, jobs, notices, head>>

\* GitHub does not answer: the permission of the sender, or the pull request.
GitHubFails(h) ==
    /\ (At(h, "policy") /\ Event(h) = "command") \/ At(h, "pull")
    /\ Finish(h, "FAILED_RETRYABLE")
    /\ UNCHANGED <<policyVars, jobs, notices, head>>

Active == {"PENDING", "RUNNING", "REVIEWING"}
Has(at, statuses) == \E j \in DOMAIN jobs : jobs[j].head = at /\ jobs[j].status \in statuses

\* A command for a head that is reviewed or at work gets a notice instead of a job.
Checks(h) ==
    /\ At(h, "checks")
    /\ LET Answered(code) == [handler EXCEPT ![h].step = "notice", ![h].code = code]
       IN  handler' = IF Has(handler[h].head, {"SUCCEEDED"}) THEN Answered("REVIEWED")
                      ELSE IF Has(handler[h].head, Active) THEN Answered("IN_PROGRESS")
                      ELSE [handler EXCEPT ![h].step = "enqueue"]
    /\ UNCHANGED <<policyVars, deliveries, jobs, notices, head>>

\* status_notice(): the row is committed before the comment is posted, once, and the
\* request is ignored whether or not that works.
Key(h) == <<handler[h].code, handler[h].head>>

\* Mutant: the row is written when the comment has been posted.
NoticeUnrecorded(h) ==
    /\ At(h, "notice")
    /\ IF notices[Key(h)].row THEN Finish(h, "IGNORED")
       ELSE Continue(h, "post") /\ UNCHANGED deliveries
    /\ UNCHANGED <<policyVars, jobs, notices, head>>

Notice(h) ==
    /\ At(h, "notice")
    /\ IF notices[Key(h)].row THEN Finish(h, "IGNORED") /\ UNCHANGED notices
       ELSE /\ notices' = [notices EXCEPT ![Key(h)].row = TRUE]
            /\ Continue(h, "post") /\ UNCHANGED deliveries
    /\ UNCHANGED <<policyVars, jobs, head>>

Post(h) ==
    /\ At(h, "post")
    /\ \E n \in {0, 1} : notices' = [notices EXCEPT ![Key(h)].row = TRUE, ![Key(h)].posted = @ + n]
    /\ handler' = [handler EXCEPT ![h].step = "finish", ![h].result = "IGNORED"]
    /\ UNCHANGED <<policyVars, deliveries, jobs, head>>

\* JobRepository.enqueue() under the lock of the singleton: the job that is there
\* already, the capacity, the pending jobs of other heads, the unique columns.
Existing(h) ==
    IF Event(h) = "command" THEN Has(handler[h].head, Active)
    ELSE \E j \in DOMAIN jobs : jobs[j].head = handler[h].head /\ jobs[j].trigger = "AUTO"
Superseded(h, job) ==
    Event(h) # "command" /\ job.status = "PENDING" /\ job.trigger = "AUTO" /\ job.head # handler[h].head
Full(h) ==
    Cardinality({j \in DOMAIN jobs : jobs[j].status = "PENDING" /\ ~Superseded(h, jobs[j])}) >= MaxPending
UsedDelivery(d) == \E j \in DOMAIN jobs : jobs[j].delivery = d

NewJob(h) == [delivery |-> handler[h].delivery, trigger |-> Trigger(Event(h)), head |-> handler[h].head,
              status |-> "PENDING", model |-> handler[h].model, effort |-> handler[h].effort, untold |-> FALSE]
WithJob(h) ==
    Append([j \in DOMAIN jobs |->
              IF Superseded(h, jobs[j]) THEN [jobs[j] EXCEPT !.status = "SKIPPED"] ELSE jobs[j]], NewJob(h))

\* Mutant: no column is unique.
EnqueueAgain(h) ==
    /\ At(h, "enqueue")
    /\ IF ~Existing(h) /\ Full(h) THEN Finish(h, "FAILED_RETRYABLE") /\ UNCHANGED jobs
       ELSE /\ jobs' = IF Existing(h) THEN jobs ELSE WithJob(h)
            /\ handler' = [handler EXCEPT ![h].step = "finish", ![h].result = "PROCESSED"]
            /\ UNCHANGED deliveries
    /\ UNCHANGED <<policyVars, notices, head>>

Enqueue(h) ==
    /\ At(h, "enqueue")
    /\ IF ~Existing(h) /\ Full(h) THEN Finish(h, "FAILED_RETRYABLE") /\ UNCHANGED jobs
       ELSE /\ jobs' = IF Existing(h) \/ UsedDelivery(handler[h].delivery) THEN jobs ELSE WithJob(h)
            /\ handler' = [handler EXCEPT ![h].step = "finish", ![h].result = "PROCESSED"]
            /\ UNCHANGED deliveries
    /\ UNCHANGED <<policyVars, notices, head>>

\* Access of the App ends, or comes back after GitHub has listed the repositories; the
\* settings stay, but the old columns follow an inherited switch again.
Suspend(h) ==
    /\ At(h, "policy") /\ Event(h) = "suspended"
    /\ repository' = [repository EXCEPT !.installed = FALSE]
    /\ handler' = [handler EXCEPT ![h].step = "finish", ![h].result = "PROCESSED"]
    /\ UNCHANGED <<models, global, session, overtaken, deliveries, jobs, notices, head>>

List(h) ==
    /\ At(h, "policy") /\ Event(h) = "restored"
    /\ Continue(h, "restore")
    /\ UNCHANGED <<policyVars, deliveries, jobs, notices, head>>

Restore(h) ==
    /\ At(h, "restore")
    /\ repository' = [repository EXCEPT
          !.installed = TRUE,
          !.legacy = [f \in {"enabled", "auto"} |-> repository.legacy[f] \/ repository.values[f] = None]]
    /\ handler' = [handler EXCEPT ![h].step = "finish", ![h].result = "PROCESSED"]
    /\ UNCHANGED <<models, global, session, overtaken, deliveries, jobs, notices, head>>

Finished(h) ==
    /\ At(h, "finish")
    /\ Finish(h, handler[h].result)
    /\ UNCHANGED <<policyVars, jobs, notices, head>>

\* The process ends, the client goes away, or GitHub fails where nothing catches it.
HandlerEnds(h) ==
    /\ handler[h] # None
    /\ handler' = [handler EXCEPT ![h] = None]
    /\ UNCHANGED <<policyVars, deliveries, jobs, notices, head>>

HandlerStep(h) ==
    \/ Reserve(h) \/ ReadPolicy(h) \/ PullRequest(h) \/ Checks(h) \/ Notice(h) \/ Post(h)
    \/ Enqueue(h) \/ Suspend(h) \/ List(h) \/ Restore(h) \/ Finished(h)

Push ==
    /\ head < MaxHead
    /\ head' = head + 1
    /\ UNCHANGED <<policyVars, deliveries, handler, jobs, notices>>

-----------------------------------------------------------------------------
\* The worker.

Job(j, status) == jobs' = [jobs EXCEPT ![j].status = status]

Claim(j) ==
    /\ jobs[j].status = "PENDING" /\ ClaimGate(global, repository, jobs[j].trigger)
    /\ \A i \in DOMAIN jobs : jobs[i].status \notin {"RUNNING", "REVIEWING"} /\ ~jobs[i].untold
    /\ Job(j, "RUNNING")
    /\ UNCHANGED <<policyVars, deliveries, handler, notices, head>>

\* execute() until the checkout: the model of the job, the policy of now, the head.
Obsolete(j) ==
    \/ jobs[j].trigger = "COMMAND" /\ jobs[j].head # head
    \/ Has(jobs[j].head, {"SUCCEEDED"})
Skips(j) == ~WorkerEnabled(global, repository) \/ Obsolete(j)

\* Mutant: the model that the job was given is not looked up again.
StartBlind(j) ==
    /\ jobs[j].status = "RUNNING"
    /\ jobs' = IF ~Resolvable(catalog, global, repository)
                    THEN [jobs EXCEPT ![j].status = "FAILED", ![j].untold = TRUE]
               ELSE [jobs EXCEPT ![j].status = IF Skips(j) THEN "SKIPPED" ELSE "REVIEWING"]
    /\ UNCHANGED <<policyVars, deliveries, handler, notices, head>>

Start(j) ==
    /\ jobs[j].status = "RUNNING"
    /\ jobs' = IF jobs[j].model # None /\ ~Selectable(catalog, jobs[j].model)
                    THEN [jobs EXCEPT ![j].status = "SKIPPED"]
               ELSE IF ~Resolvable(catalog, global, repository)
                    THEN [jobs EXCEPT ![j].status = "FAILED", ![j].untold = TRUE]
               ELSE [jobs EXCEPT ![j].status = IF Skips(j) THEN "SKIPPED" ELSE "REVIEWING"]
    /\ UNCHANGED <<policyVars, deliveries, handler, notices, head>>

\* The end of a review: ReviewService.
EndReview(j, status) ==
    /\ jobs[j].status = "REVIEWING"
    /\ jobs' = [jobs EXCEPT ![j].status = status, ![j].untold = status = "FAILED"]
    /\ UNCHANGED <<policyVars, deliveries, handler, notices, head>>

\* publish_failure_notice(): the row, the comment unless its id is known, its id.
Tell(j) ==
    LET key == <<"FAILED", jobs[j].head>>
    IN  /\ jobs[j].untold
        /\ jobs' = [jobs EXCEPT ![j].untold = FALSE]
        /\ \/ /\ ~notices[key].known
              /\ \E known \in BOOLEAN : notices' = [notices EXCEPT ![key] =
                    [row |-> TRUE, posted |-> @.posted + 1, known |-> known,
                     lost |-> @.lost + (IF known THEN 0 ELSE 1)]]
           \/ notices' = [notices EXCEPT ![key].row = TRUE]
        /\ UNCHANGED <<policyVars, deliveries, handler, head>>

-----------------------------------------------------------------------------
\* The watchdog.

\* Mutant: a stale delivery that has no job is reported and left.
RecoverEnqueued(d) ==
    /\ deliveries[d] # None /\ deliveries[d].status = "PROCESSING" /\ UsedDelivery(d)
    /\ deliveries' = [deliveries EXCEPT ![d].status = "PROCESSED", ![d].attempts = @ + 1]
    /\ UNCHANGED <<policyVars, handler, jobs, notices, head>>

\* Mutant: every stale delivery is taken for processed.
RecoverAll(d) ==
    /\ deliveries[d] # None /\ deliveries[d].status = "PROCESSING"
    /\ deliveries' = [deliveries EXCEPT ![d].status = "PROCESSED", ![d].attempts = @ + 1]
    /\ UNCHANGED <<policyVars, handler, jobs, notices, head>>

\* recover_stale_deliveries(), also while a slow handler is still at work.
Recover(d) ==
    /\ deliveries[d] # None /\ deliveries[d].status = "PROCESSING"
    /\ deliveries' = [deliveries EXCEPT
          ![d].status = IF deliveries[d].attempts < MaxAttempts /\ UsedDelivery(d) THEN "PROCESSED"
                        ELSE "FAILED_FINAL",
          ![d].attempts = @ + 1]
    /\ UNCHANGED <<policyVars, handler, jobs, notices, head>>

\* Mutant: a job behind a closed gate is left pending.
StalePendingOpen(j) ==
    /\ jobs[j].status = "PENDING" /\ ClaimGate(global, repository, jobs[j].trigger)
    /\ Job(j, "FAILED")
    /\ UNCHANGED <<policyVars, deliveries, handler, notices, head>>

\* A job that is pending for too long, whatever holds it back.
StalePending(j) ==
    /\ jobs[j].status = "PENDING"
    /\ Job(j, "FAILED")
    /\ UNCHANGED <<policyVars, deliveries, handler, notices, head>>

-----------------------------------------------------------------------------
\* Properties.

Steps == {"reserve", "policy", "pull", "checks", "notice", "post", "enqueue", "restore", "finish"}
DeliveriesTypeOK ==
    /\ deliveries \in [Deliveries -> {None} \cup DeliveryRow]
    /\ handler \in [Handlers -> {None} \cup
          [delivery : Deliveries, step : Steps, head : Heads, attempts : Nat, model : Models \cup {None},
           effort : Efforts \cup {None}, code : Codes \cup {None}, result : DeliveryStates \cup {None}]]
    /\ jobs \in Seq([delivery : Deliveries, trigger : {"AUTO", "COMMAND"}, head : Heads,
                     status : Active \cup {"SUCCEEDED", "FAILED", "SKIPPED"},
                     model : Models \cup {None}, effort : Efforts, untold : BOOLEAN])
    /\ notices \in [Codes \X Heads -> [row : BOOLEAN, posted : Nat, known : BOOLEAN, lost : Nat]]
    /\ head \in Heads

\* However often a delivery is sent, and by however many requests at a time it is
\* handled, it makes one job.
OneJobPerDelivery ==
    \A i, j \in DOMAIN jobs : jobs[i].delivery = jobs[j].delivery => i = j

\* A delivery ends as processed only when the review it asked for has a job: the one
\* it made, or another of the head that its request was about.
ProcessedIsBacked ==
    [][\A d \in Deliveries :
          /\ deliveries[d] # None /\ deliveries[d].event \in {"opened", "command"}
          /\ deliveries[d].status # "PROCESSED" /\ deliveries'[d].status = "PROCESSED"
          => \E j \in DOMAIN jobs :
                \/ jobs[j].delivery = d
                \/ \E h \in Handlers : At(h, "finish") /\ handler[h].delivery = d
                                       /\ jobs[j].head = handler[h].head]_webhooks

\* A head gets one comment per kind of notice from requests side by side and from
\* jobs that fail one after the other; a failure is told again only when the id of
\* its comment was lost.
NoticesOnce ==
    \A n \in Codes \X Heads : notices[n].posted <= 1 + (IF n[1] = "FAILED" THEN notices[n].lost ELSE 0)

\* A review starts with a model that is in use and an effort it was verified with,
\* although both were chosen before the job waited and the settings and the catalog
\* may have changed since.
ReviewsUseVerifiedPair ==
    [][\A j \in DOMAIN jobs :
          jobs[j].status = "RUNNING" /\ jobs'[j].status = "REVIEWING" =>
             ValidPair(catalog, jobs[j].model, jobs[j].effort)]_jobs

\* No delivery stays in processing for good: its request ends it, or the watchdog does.
InProcess(d) == deliveries[d] # None /\ deliveries[d].status = "PROCESSING"
EveryDeliverySettles == \A d \in Deliveries : InProcess(d) ~> ~InProcess(d)

\* Every admitted job ends, also one whose gate was closed after its admission.
EveryAdmittedJobEnds ==
    \A d \in Deliveries :
        UsedDelivery(d) ~> \E j \in DOMAIN jobs : jobs[j].delivery = d /\ jobs[j].status \notin Active

-----------------------------------------------------------------------------
\* What the documents say and the code does not do.

\* docs/admin-control-plane-v2.md: the webhook and the claim use the same rule.  A job
\* that waits behind a global switch which its repository overrides is eligible for the
\* one, and never claimed by the other.
ClaimFollowsPolicy ==
    \A j \in DOMAIN jobs : jobs[j].status = "PENDING" =>
        (ClaimGate(global, repository, jobs[j].trigger) <=> ReviewEligible(global, repository, jobs[j].trigger))

\* docs/admin-control-plane-v2.md: the old columns are no source of truth of their own.
\* The worker refuses a job for an old column that an inherited switch left off.
RefusalsFollowPolicy ==
    [][\A j \in DOMAIN jobs :
          jobs[j].status = "RUNNING" /\ jobs'[j].status = "SKIPPED" =>
             \/ ~Enabled(global, repository)
             \/ jobs[j].model # None /\ ~Selectable(catalog, jobs[j].model)
             \/ Obsolete(j)]_jobs
=============================================================================
