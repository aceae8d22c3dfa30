# Verification of the review bot

TLA+ models of the review bot, the TLC runs that check them on small instances,
and TLAPS proofs of what matters most for every instance. The source is the
reference: every definition is a translation of code, and `PROJECT.json` maps
each one to its lines.

## 1. The system and its parts

A GitHub App receives webhooks, turns them into jobs in PostgreSQL, and a worker
turns each job into one pull-request Review with the help of a separate executor
process that runs the model. There is no message broker: the table `review_jobs`
is the queue, and rows are the only thing the processes share.

| Component | State it keeps | Operations | Talks to |
|---|---|---|---|
| Review job queue (`app/jobs/repository.py`) | rows of `review_jobs`: status, attempts, execution_id, timestamps; the row `global_review_settings` id 1 as a lock | `enqueue`, `claim_next`, `finish`, `recover_stale`, `retry`, `skip_pending` | everybody, through transactions |
| Worker (`app/jobs/worker.py`) | an in-memory copy of the claimed row | recover at start, claim, bind the identity, execute, write the end | queue, review service |
| Watchdog (`app/ops/watchdog.py`, a systemd timer) | none | recover stale jobs, fail ancient pending jobs, recover deliveries, record an incident | queue, deliveries, incidents |
| Webhook handler (`app/github/webhook.py`) | rows of `webhook_deliveries`, status notices, installations, repository rows | reserve a delivery, decide, enqueue, react, finish the delivery | GitHub, queue, policy |
| Review service (`app/review/service.py`) | `review_runs`, findings, comments | checkout, head checks, passes, publish one Review | GitHub, executor client |
| Multi-pass reviewer (`app/review/passes.py`) | `review_passes` as a process budget | plan, reserve, run required and optional passes | executor client |
| Executor (`app/codex/executor.py`) | execution records on disk and in memory, one gate | accept, run, remember, answer a repeated request | executor client |
| GitHub client (`app/github/client.py`, `auth.py`) | token cache | requests with retries | GitHub |
| Policy control plane (`app/admin/control_plane.py`, `app/review/settings.py`) | global row, repository overrides, versions | resolve, patch, pause and resume | claim gate, webhook |
| Model catalog (`app/review/model_catalog*.py`) | catalog entries and verifications | add, verify, annotate, disable | policy, scripts |
| Incidents (`app/ops/alerts.py`) | keyed incidents | record with cool-down; resolve (called from nowhere) | watchdog |
| Validation and diffs (`app/review/validator.py`, `diff.py`, ...) | none | parse the diff, validate, rank and limit findings | review service |
| Administration (`app/admin/routes.py`, `oauth.py`, ...) | sessions, audit log | pages, forms, retry | queue, policy |

What is hard, and what makes each part correct:

* **Queue.** Any number of processes act on the rows, only two operations take
  the singleton lock, the others rely on row locks or on nothing. Correct means:
  limits on running and waiting jobs hold, a job moves only along its life
  cycle, a job whose executor may have been asked is not run again, attempts are
  bounded, every job ends.
* **Worker.** Its terminal writes check neither status nor attempt, so they are
  correct only while it owns the row. It may die at any point.
* **Watchdog.** Runs beside live workers; what it calls stale must not be
  somebody's work.
* **Webhook handler.** Deliveries are repeated, processes die between the job's
  commit and the delivery's, GitHub calls fail. Correct means: a delivery makes
  at most one job, and no accepted delivery is forgotten silently.
* **Review service.** A Review cannot be taken back. Correct means: at most one
  Review per job and head with its marker, nothing published for an outdated
  command head, a published Review is always recorded or found again.
* **Passes and executor.** Budgets are counted and spent by several processes; a
  result must be reused by its identity, never computed twice, also after a
  restart.
* **Policy.** The same switches are evaluated in SQL (the claim) and in Python
  (the resolver), and are changed under an optimistic version that is compared with
  a row read earlier. Correct means: the gates use one rule, a form never writes over what
  its page did not show, a stored model and effort are a verified pair.
* **Catalog.** A verification takes minutes, its entry may change meanwhile. Correct
  means: an effort is offered only after a success, and a late or repeated result
  brings nothing back.
* **Validation and diffs.** Findings pass a long chain of checks, two sorts, a
  de-duplication and several limits. Correct means: each is published or rejected with a
  reason, comments stand on added lines, no limit silences a defect for less.

`PROJECT.json` lists these hazards one by one with their lines, and for each the
properties that cover it or the reason why none does yet.

## 2. Modules

| Module | Contents |
|---|---|
| `JobQueue` | the queue with all its actors: web requests, workers, watchdog, operator, time |
| `JobLifecycle` | the abstract specification: what the queue promises for each job |
| `MCJobQueue` | constants and symmetry for TLC |
| `JobQueueProofs` | theorems that need no assumption on time: types, limits, pause, admission |
| `JobOwnershipProofs` | theorems for workers that do not outlive the stale cutoff: ownership, attempts, life cycle, one command per head |
| `Executor` | the executor process: its records on a volume, its lock, its process, and the calls of its clients |
| `MCExecutor` | the instance for TLC |
| `ExecutorProofs` | theorems: types, one process per identity, results belong to their requests and last |
| `ReviewService` | what a worker does with a claimed job, from the claim to the recorded Review; instantiates `Executor` with the passes of the jobs as identities |
| `MCReviewService` | symmetry and a constraint for TLC |
| `ReviewServiceProofs` | theorems: the service implements `Executor`, the budget of processes holds |
| `ReviewPublicationProofs` | theorems: types, what a Review rests on, one Review of a head |
| `Nullable` | the constant `None`, shared by the modules below |
| `ModelCatalog` | the entries of the model catalog and their verifications |
| `ReviewPolicy` | the settings rows, the policy resolved from them, the gates, and the sessions that write them; extends `ModelCatalog` |
| `WebhookDelivery` | deliveries and their handlers, the jobs they make, the worker's checks of a job, notices, the watchdog; extends `ReviewPolicy` |
| `Findings` | one review from the diff and the model's findings to the comments |
| `Intake` | the composition of the last four, with the inputs from outside bounded by cases |
| `MCReviewCases`, `MCFindings`, `MCIntake` | diffs and findings, the review alone, and the cases for TLC |
| `IntakeProofs` | theorems of `Intake`: catalog, deliveries, notices |
| `SettingsProofs` | theorems of `Intake`: the stored and the reviewed model are verified pairs, an override decides what the worker does, no form writes over what its page did not show; what each column holds |
| `FindingsProofs` | theorems of `Intake`: each finding is accounted for, comments stand on added lines, duplicates and budgets drop nothing worse; all types |

`ReviewService` composes the service, the passes, the GitHub client and the
executor. It reduces the queue to what decides which jobs run at the same time;
`JobQueue` has the queue in full and, the other way round, only the ends of the
service. The seam between the two is the identity: the life cycle of `JobQueue` draws
it once per job and never changes it, its recovery fails a job that has one instead
of re-queueing it (`Recover` of `ReviewService` takes that over), and
`ExecutorProofs` shows that an identity starts one process.

`Intake` composes the other half, from the settings to the comments. Its seam with
the first half is the job: in `WebhookDelivery` a job is what the policy, the notices
and the deliveries see of it. Admission is that of `JobQueue`, taken as one step
because `JobQueue` shows what its two steps guarantee; a claim is of one worker at a
time; and what `ReviewService` does between the checkout and the recorded Review is
one step that succeeds or fails, or `Findings` in full for the jobs that the case says.

### JobQueue

State. `info`, `status`, `attempts`, `execution`, `outcome` are the columns of
the rows 1..`last`; an identity is the number of the claim at which it was drawn
(0 for NULL), enough to tell a kept identity from a new one. `stale` and
`ancient` stand for `started_at` and `created_at` being older than the two
cutoffs. `lock` is the row lock on `global_review_settings` id 1. `wpc`, `wjob`,
`wattempts`, `wexec` are a worker and its in-memory copy of the row; `ereq` is
the job an open web transaction is about to insert.

Steps. One transaction is one step, with two exceptions: `claim_next` and
`enqueue` are a step that takes the lock and reads (`ClaimSelect`,
`EnqueueBegin`) and a step that writes and commits (`ClaimCommit`,
`EnqueueCommit`), because transactions that do not take the lock run in
between. A claim's `FOR UPDATE` makes the other writers of its row wait
(`RowFree`). `Bind` commits the identity before the executor is asked. `Succeed`,
`Skip`, `Fail`, `Requeue` and `Cancel` are the ends of `run_worker`'s try
statement, grouped by what they write; like the code they write whatever the row
says by now. `Crash` ends the process anywhere. `Start` recovers stale rows and
enters the loop. `WatchdogRecover` and `WatchdogFailPending` are the two commits of
`inspect_and_recover`. `Retry`, `SkipPending`, `SetPaused` are the operator,
`SetEnabled` stands for the installation events and policy changes that open or
close a repository to claims.

Time. `GoStale` and `GoAncient` let a timestamp pass its cutoff. The two cutoffs
are equal in the shipped settings (1800 s), so a stale row is also ancient. The
constant `Zombies` says whether a row may turn stale under a living worker. The
settings do not exclude it: a review may take up to `review_timeout_seconds` + 60
per pass, several passes and GitHub calls on top, and nothing renews
`started_at`. What then still holds is proved with `Zombies` free
(limits, pause, capacity, the supersede rule), and that every job ends is checked with
it; what needs it to be FALSE says so.

Abstracted: `not_before` (no live path sets it), the texts and codes of errors,
the owner/name spelling of repositories, rows momentarily locked by one-step
transactions (SKIP LOCKED passes over them for one poll), failure notices and
reactions (they write other tables, or a column nothing reads). An error inside an
exception handler ends the process; that is `Crash`.

### JobLifecycle

Per job: ABSENT, PENDING, RUNNING, and the terminal states; terminal states are
final, `attempts` counts exactly the starts, the identity is drawn once, while
the job runs, as the number of the attempt, and never changes. At most one job
starts in a step.

### Executor

State. `record` is the file of each identity (state, digest of the request),
`newer` the order in which the files were written, enough for the limits on number
and age. `seen`, `running`, `net` live in the executor's memory: the admitted
identities, the request that holds the lock with its process, the requests in the
socket. `call` is what each connection of a worker waits for or was told. `procs`,
`life`, `ran` and `pruned` are history.

Steps. Up to the lock the handler `review()` has no await, so `Receive` decides on a
request in one step: the file is unreadable (`Unreadable`), the same request is
answered from its file (`Replay`), another one is refused (`Conflict`,
`InProgress`, `Busy`), a new one is recorded and admitted (`Admit`) or, if the record
cannot be written, forgotten (`AdmitFails`). Then `Spawn`, and `Finish` or
`FinishNotDurable`; an exception between the two leaves the record as it is
(`Reject`). A failed write (`WriteFails`) happened before or after the file was replaced.
A write also removes old files (`Removable`). A caller may give up (`Abandon`) while
its request, or its handler, lives on. `Restart` loses the memory and keeps the
volume.

Abstracted: requests that fail validation (executor.py:201-220) change nothing and
never enter the net; what the process prints; the clock, by `Aging` (a removal may
take any number of the oldest files). When old files cannot be removed after the new
one is in place, the write counts as failed and removes none, as it stops at the
first error; a partial removal followed by an error is left out.

### ReviewService

State. The world: `tip` (the head of each pull request, which only grows), `policy`
(the settings that enter the prompt), `reviews` (what is on GitHub, its id is its
place). The rows: `status`, `attempts`, `pass` (state and fingerprint of each
`review_passes` row), `saved` (a committed ReviewRun), `gid` (its
`github_review_id`). The worker: `pc`, the pass it is `at`, the settings it read, the
verdict on its budget, the attempts of its request, the Review it found. `lock` is
again the row lock on the settings.

Steps. A job takes one step from one commit, or one call to another system, to the
next, and its process can end between any two of them (`Crash`, which leaves the row
to `Recover`; `Cancel`, which puts it back). `Gate` is `execute` up to the
checkout; `ResumePass`, `CountBudget`, `Reserve`, `Call`, `Answered` are
`execute_passes`, with the row lock held from the count to the commit; `Persist`,
`Recheck`, `Look`, `List`, `Post` and its failures, `Record` are the rest of
`_execute_checkout`; `Finish` is the worker's. `PostLost` is a POST that GitHub has
carried out and whose answer does not arrive or is a 5xx: `GitHubClient._request`
sends it again. `Push` and `ChangePolicy` are anybody, at any time.

Abstracted: the findings, comment ids and `duplicate_only` (data); which passes a
plan has (every job of a run has the same `MaxPasses`); one window of the
budget, so `Budget` stands for the smaller of the hourly and the daily limit, and
passes do not age out of it; a Review whose answer is lost is created at once and
not after a delay; jobs of trigger RETRY, which no claim accepts (run Retry); each
pull request is the only one of its repository. The branch for an AUTO job that was
overtaken by another (`AutoReviewed`) can only be taken when a repository may run two
jobs at a time, as in Passes.

### ModelCatalog

State. `catalog` has the entry of each model (`enabled`, `status`, the verified
`efforts`), `verification` the state of the verification of each model with an
effort.

Steps. The functions of `model_catalog_store.py`, each one transaction that holds the
lock of the entry: `AddCandidate`, `StartVerification`, `FinishVerification`,
`Disable`. A result may be recorded by the script that ran the verification and by an
operator with `finish-verification`, in either order and more than once. `Selectable`
and `ValidPair` are what readers of the catalog ask.

Abstracted: the version of the catalog (a refusal that a command may ask for),
`annotate` (a text), the CLI version and exit code of a verification.

### ReviewPolicy

State. `global` and `repository` are the two rows: version, pause, the flag that
thresholds follow the profile, the values; `legacy` are the old columns `enabled` and
`auto_review` of a repository, which an override also writes. `session` is a page that
an administrator has open, or a command, with what it has read. `overtaken` is history.

Steps. A page is opened (`Open`) and submitted later; a command (`Command`) reads
the row first. Then the form of a repository reads its row before it asks GitHub for
the caller's permission (`ReadRow`), the catalog is read (`ReadCatalog`), and the row is
locked, compared and written (`Commit`). SQLAlchemy's session is an identity map: a row
it has read is not refreshed when it is selected again with a lock, and only the columns
that differ from what was read are written. So a session may compare the expected
version with a stale row, and `GlobalWritten` and `RepositoryWritten` put its dirty
columns on top of the row of now. `overtaken` names the rows on which that has really
happened; what the properties promise, they promise for the others. `Reconcile` is
`manage_installations.py`.

Abstracted: language, paths, domains, debounce and timeouts (they take the same way as
the other columns and no gate reads them), clamps of values that the form has already
validated, the audit log.

### WebhookDelivery

State. `deliveries` are the rows of `webhook_deliveries`, `handler` what each request of
the web process is at and has read, `jobs` the jobs, `notices` the rows of status and
failure notices with the number of comments on GitHub, `head` the head of the pull
request.

Steps. A request inserts the row of its delivery (`Receive`) or finds it and reserves it
again (`Redeliver`, `Reserve`: read and write are two steps, and are not compared). Then
one step per commit or call: `ReadPolicy`, `PullRequest`, `Checks`, `Notice`, `Post`,
`Enqueue`, `Suspend`, `List`, `Restore`, `Finished`. `IgnoreSender`, `GitHubFails` and
`HandlerEnds` are what may come instead. `Claim`, `Start`, `EndReview` and `Tell` are the
worker: the claim gate, the checks of `execute` before the checkout, the end, and the
failure notice. `Recover` and `StalePending` are the watchdog's, who does not ask whether
a handler or a gate still holds the row; that its cutoffs have passed is left open, so it
may come at any time.

Abstracted: the row of a repository that is seen for the first time, the cool-down of
commands, reactions (a column nothing reads), jobs of trigger RETRY (run Retry), more than
one worker (run Safety), and which of several reasons a request was ignored for.

### Findings

State. `review` is the review at work (its phase, policy and diff), `changed` the
manifest of added lines, `raw` the findings of the model, `verdict` what validation
made of them, `posted` the Review.

Steps. `Fetch` parses the diff and refuses what `fetch_and_diff` refuses; `Answer` is the
decoded answer of the passes; `Validate` is `validate_findings_with_diagnostics` with
the check of its counts; `Publish` is the payload, with GitHub's 422 for a comment that
is not on an added line and the fallback without comments. The rules are operators: a
hunk is the sequence of the kinds of its lines, `RecordedAt` the number the parser gives
a line and `InFile` the number it has, `Rejection` the first check a finding fails,
`Duplicates`, `InlineBudget`, `Kept` and `OverLimit` what is dropped afterwards. The loops
of the code are stated by what they compute: a counter by how many lines of a kind are
before a line (`Before`), the entries of the manifest by their sections (`Section`,
`Saved`), a duplicate by a passing finding that is visited before it, and the limits by
the set in which each finding is kept exactly if the kept ones of a higher rank leave it
room (`Kept`; `FindingsProofs` shows that there is one such set).

Abstracted: a text is the presence of its name in `has`; a confidence is in tenths;
several hunks of a file are one; the labels of rejections that the same test produces
for a file and a path, or for a line and a side, are merged; what the passes
disagree about, and the wording of comments.

## 3. Runs

| Run | Checks | Bounds |
|---|---|---|
| Safety | TypeOK, RunningWithinLimits, FreshWithinCapacity, OneFreshAutoPerPull, Ownership, AttemptsBounded, OneCommandPerHead, NoStartWhilePaused, LifecycleSpec | 2 workers, 2 web requests, 2 heads, 2 comments, 2 rows, 2 attempts, capacity 1, global limit 2 and repository limit 1, 1 cancellation, pause and resume at any time, skip and retry |
| Liveness | EveryJobSettles | 1 worker that may outlive the stale cutoff, 1 web request, 2 rows, 2 attempts, pause and enable/disable at any time, no symmetry |
| Identity | StaleIdentityIsUnknown (violated) | 1 row, 2 attempts |
| Retry | RetriesAreEligible (violated) | 2 rows |
| Executor | TypeOK, OneProcess, OneProcessPerLife, ResultIsOfRequest, ResultIsDurable, CallsEnd | 2 identities, 2 digests, 1 caller with 1 abandoned request, room for 1 file, files may age, 1 restart, 1 failed write |
| Publish | TypeOK, DuplicatesAreLost, ReviewIsBacked, NoRunForReviewedHead, SuccessIsVisible | an AUTO job and a command, 2 heads, 2 settings, 1 pass, 2 attempts of a job and of a POST, 1 lost answer, and one of: a worker's end, a restart of the executor, a failed write |
| Passes | BudgetHolds, JobsEnd | 2 AUTO jobs of one head side by side, 2 passes each, a budget of 3, 1 worker's end |
| Duplicate | MarkerPreventsDuplicates (violated) | as Publish with 1 setting and no trouble of the executor |
| Intake | TypeOK; of the catalog EffortsAreVerified, OnlyVerificationReenables; of the settings StoredPairIsVerified, ExplicitOverridesWin, PagesWriteWhatTheyShowed; of the deliveries OneJobPerDelivery, NoticesOnce, ProcessedIsBacked, ReviewsUseVerifiedPair, EveryDeliverySettles, EveryAdmittedJobEnds; of a review EveryFindingAccounted, CommentsOnAddedLines, DuplicateKeepsWorst, BudgetKeepsDefects | 16 cases, see below |
| Claim | ClaimFollowsPolicy (violated) | as Intake, in 2 cases: one form over an override that is on or off, and one delivery |
| Refusal | RefusalsFollowPolicy (violated) | as Claim |
| Conserved | CandidatesConserved (violated) | one review under 2 policies, the diffs and findings of Intake |

Two workers and two web requests are the smallest number at which counts,
look-ups and locks can interleave. Two rows suffice for one repository limit, one
supersede, one duplicate comment or one retry; the theorems cover the rest. With
capacity 1 a second row can exceed it, and two jobs that nobody has claimed never wait
side by side: for larger capacities there is `CommandsAreSingle`. No worker is a zombie in
Safety, since `Ownership` and what follows from it need that; what holds with zombies is
proved for any number of workers, and that every job ends is checked for one (Liveness).
Two attempts give a first and a last one, which are the two cases the code
distinguishes. The bounds are the constants `MaxJobs` (rows ever inserted) and
`MaxCancels`; nothing else is cut off. Workers, web requests, heads and comments
are symmetric in the safety runs. Deadlock is not checked: with every row used
up, everything terminal and nobody commanding, the system may really be idle.

Executor has room for one file, so the second identity removes the file of the first
while that may still be asked for. One caller is enough for two requests at a time,
because an abandoned one goes on in the net or under the lock. Deadlock is checked.
`MaxOrphans`, `MaxRestarts` and `MaxFaults` bound what goes wrong.

Publish has the smallest pair of jobs that can publish one head twice, and attempts
enough for one retry of each kind. Its constraint `Troubles` lets one of the failures
of the worker and of the executor happen, and a lost answer of GitHub only together
with those of the worker; the executor's failures in all combinations are the
business of the run Executor, and `ReviewServiceProofs` shows that the service adds
no others. `review_repository_concurrency` is 1, the default. With 2, as in Passes, an
AUTO job and a command of one head may both find no Review and both post: that is a
choice of the operator, and `DuplicatesAreLost` is not claimed for it. Passes has
a budget that is one short of what the two jobs want. Deadlock is not checked in
these runs: all jobs end.

Intake starts in one of 16 cases. A case fixes the rows that were saved before and how
often each input from outside may still come (`left`): forms, catalog commands,
deliveries, redeliveries, failures of GitHub, crashes of the web process, pushes, and
reviews followed in full. What these inputs meet is then explored completely. Everything
at once would be out of TLC's reach; a case has the inputs that share state:

* four cases of administration: two forms or commands of any kind side by side; two
  forms of the settings, or of the repository, with a catalog command between; five
  catalog commands (two efforts verified, disabled and verified again, results late
  and repeated);
* seven of deliveries: two of one kind and of two kinds, sent again up to twice, with a
  failure of GitHub or a crash, with a push between, with a suspension and a
  restoration;
* three in which the settings or the catalog change while a delivery waits, is
  admitted, claimed or started;
* two of a review, under two policies, with 14 diffs, 236 answers to the usual one and 18 to each of the others.

There are 2 models (one verified with one effort), 2 efforts, 2 sessions, 2 delivery
ids, 2 handlers, 2 heads, room for 1 pending job and 2 attempts of a delivery. Two of
each are what the races need: one that reads and one that writes between. A limit of two
comments (`Emergency`), two changed files and at most three findings are the least at
which a budget keeps one and drops one. Deadlock is not checked: a case ends when its
inputs are used up. In cases without a watchdog (`watched`) every delivery and job has to
end without it, except those of a handler that crashed or a gate that was closed, so
these cases have a watchdog.

Fairness (`FairSpec`). Weak fairness for each worker's loop: the container is
restarted (`restart: unless-stopped`) and the loop takes its next step. Crashes
and cancellations are not fair, and stay possible at every moment. An open web
transaction ends. Timestamps age. The watchdog's timer fires every five minutes
(`deploy/inryeok-bot-watchdog.timer`): weak fairness for its first commit and
strong fairness for its second, because that update waits in the row locks'
queues and so is not overtaken for ever by claims of the same row.

In `Executor`, a handler runs when the event loop gets to it, and `CodexRunner.run`
kills its process on a timeout, so a run ends. In `ReviewService`, a worker goes on,
since every call it makes returns or times out; the watchdog finds the jobs of
workers that ended; and the executor gets to its requests, which stands for the
client's timeouts that `MaxOrphans = 0` cuts off. Nothing is assumed of GitHub, the
operator, or the order of the executor's own steps.

In `Intake`, the event loop of the web process goes on with some request (`HandlerStep`;
the failures of GitHub and crashes are not fair), the worker with some job (`Working`),
and the watchdog's timer fires (`Watching`). Nothing is assumed of administrators,
operators or GitHub.

### What the violations show

* **Identity.** `docs/unattended-operations.md` promises UNKNOWN_OUTCOME for every
  stale job with an identity. `recover_stale` tests the attempts first: on the
  last attempt the job becomes MAX_ATTEMPTS.
* **Retry.** The trigger condition of `claim_statement` has a branch for AUTO and
  one for COMMAND. A RETRY row meets neither; it waits for the watchdog.
* **Duplicate.** `docs/admin-guide.md` says that the marker prevents a second Review of
  the same head. `_request` (client.py:48) repeats the POST after a timeout, a
  network error or a 5xx without looking for the marker in between. The look-up
  after a network error that service.py:659 provides for is never reached, because
  `_request` turns these errors into `GitHubAPIError`. `DuplicatesAreLost` shows that
  nothing else makes a duplicate: crashes, retries, the fallback after a refused
  location, and a command for the head of an AUTO job do not.
* **Claim.** `docs/admin-control-plane-v2.md` (line 33) says that the webhook, the claim and the
  pages use the same rule. The resolver lets an override win over the global switch;
  `claim_statement` takes nothing at all while the global switch is off (repository.py:36,
  :111). So with the global switch off and an override on, the webhook admits what the
  claim never takes, until the watchdog fails it.
* **Refusal.** The same document (line 94) says that the old columns `enabled` and
  `auto_review` are no source of truth of their own, control_plane.py:157 that a stale false
  value is never taken for a decision, and `tests/test_policy_persistence.py` (line 237)
  checks it for the claim. The worker asks `resolve()`, which has the old column as a lower
  bound (settings.py:206), and an override that was off leaves the column off when it is
  given back to inheritance: webhook and claim accept the job, and the worker skips it as
  one of a disabled repository. `ExplicitOverridesWin` shows where this ends: while there is
  an override, the old column does not contradict it.
* **Conserved.** `StageCounts` asserts that the published and the rejected candidates are
  all the candidates. The validator counts a finding over the comment budget, or a second
  positive one, under its own reason (validator.py:688, :691) and again as
  MAX_FINDINGS_EXCEEDED (:700), and the service adds all reasons up. The assertion
  raises, and the review fails. `EveryFindingAccounted` takes this case out, and shows that
  nothing else breaks the count.

### Behaviours worth knowing that no run refutes

The models have these behaviours, as the code does, or the part is abstracted. Where a
document or a comment speaks of one of them, it is quoted.

* Settings. A session that read a row before somebody else changed it passes its version
  check on the stale row (`overtaken`): the other change survives only in the columns it
  does not write, and a late pause or resume can be dropped silently.
  `docs/admin-control-plane-v2.md` (line 44) promises a check against just that: "동시 수정 방어를
  위해 version 또는 updated_at 검증을 제공한다" (a check of version or updated_at is offered as a
  defence against concurrent changes). The check is there and stops the form whose page is
  older than the row its session reads (`PagesWriteWhatTheyShowed`); it does not stop a
  session that is overtaken between its own reading and its lock, and no property here
  says that it would. The form of a repository always sends its cool-down and timeout
  overrides, the categories and the debounce, none of which is in
  `_REPOSITORY_PATCH_FIELDS`: the full form is refused with 422. While the stored pair is
  unsupported the global page can save nothing. A repository model without an effort is
  checked with medium, and so is a repository effort with the global model, although another
  combination is used later: such a policy does not resolve.
* Watchdog. Its update of ancient pending jobs does not look at the pause: a pause longer
  than `watchdog_pending_seconds` fails the waiting jobs as STALE_PENDING. The comment above
  it (watchdog.py:58) speaks of the other half only: "Do not silently leave a non-paused
  queue with an ancient pending record."
* Catalog. A failed verification of a retired or disabled model that has other verified
  efforts puts it back in use; the verification of a second effort takes a model out of use
  while it runs.
* Deliveries. A redelivery with the same id is refused after FAILED_FINAL. An error while
  the repositories of an installation are listed leaves its delivery in PROCESSING for the
  watchdog. A listing that began before a suspension may be committed after it. A reaction
  added after the worker has cleaned up stays.
* Diffs. `CommentsOnAddedLines` is about the counter of the parser, also where it passes over
  added lines that start with `++`: a comment then stands on an earlier added line. Its
  condition `Plain` leaves out lines that `str.splitlines` breaks and git does not, git's
  quoted names, and a leading directory `a` or `b`, which the parser removes: comments may
  then stand on other lines, or GitHub refuses them and the Review is posted without.
* Passes. An optional pass that failed, before a refused publication, makes the next
  attempt end with EXECUTOR_UNKNOWN_OUTCOME (passes.py:164). A busy executor's 429 fails
  the job for good (executor.py:200). A second RETRY of one head meets the unique index
  (repository.py:415). The watchdog may re-queue a job and fail it as pending for too long
  in one run (watchdog.py:55).

## 4. Proofs

`JobQueueProofs` and `JobOwnershipProofs` hold for every value of the constants that
satisfies `SetsAssumption`, `LimitsAssumption` and `NoneAssumption` of `JobQueue`.

`JobQueueProofs`, in layers:

1. `TypeInv` (types, rows exist exactly up to `last`, a busy worker's job is a
   row) is inductive; with the Boolean `paused` it gives `TypeCorrect`.
2. `LockInv`: a worker is claiming iff it holds the lock, and likewise for a web
   transaction. `ClaimReady`: what a claim has read (its row is PENDING, the
   counts are below the limits) is still true when it commits. This is the
   strengthening that `RunningWithinLimits` needs: the counts never grow except by
   a claim's commit (`OnlyClaimsStart`, `CountsShrink`), and two claims exclude
   each other. `LimitsHold` and `PauseHolds` follow.
3. `AdmissionInv`: what an admission has counted is not stable while it holds the
   lock, since recovery and the operator's retries make rows PENDING without it. The rows
   that nobody has claimed yet (`Fresh`) are: a start counts an attempt (`StartedInv`),
   and only an insert adds one (`OnlyAdmissionsAdd`, `FreshShrinks`). So the room an
   admission has found among them is still there when it commits (`AdmissionRoom`), and
   `CapacityHolds` and `NewHeadReplaces` follow.

`JobOwnershipProofs` assumes `Zombies = FALSE`. `OwnInv` adds to layer 2 that a
stale row is held by nobody (`StaleFree`), `Ownership` itself, and that a job which
may still start has an attempt left (`AttemptsInv`). `JobSteps` lists what a step
may do to one job; from it follow `AttemptsAreBounded`, the step simulation
`LifecycleStep` and so `LifecycleImplemented`. `CommandsAreSingle` strengthens
`OneCommandPerHead` with the admission that has begun (`AdmissionAlone`).

`ExecutorProofs` assumes `ExecutorAssumption`. `CallersWait` (a caller that is owed an
answer waits for one answer) makes the types inductive. `IInv` has a part about the
volume, that an identity that was ever run and whose file was not removed has a
file; a part about the memory, that an identity that was run in this life is in
`seen`; that the request under the lock is recorded as RUNNING and not yet run when
its process starts (`RunIsNew`); and that every stored or given result was run with
its digest. `AtMostOnce` needs all but the last: a request is admitted only without a
file and unseen, and a failed admission forgets the identity only when no process
was started.

`ReviewServiceProofs` assumes `ServiceAssumption`. `WorkerInv` says what a worker has
read at each place, that the row lock is held exactly while a pass is being reserved,
and that what is asked of the executor is reserved. With it every step of the
service is a step of `Executor` or leaves it alone: `ExecutorImplemented`. So the
theorems of `ExecutorProofs` hold under the service; the lemmas `Same...` connect the
two instances, of `Executor` and of `ExecutorProofs`, definition by definition.
`BudgetInv` adds that the reserved passes are within the budget, that the worker with
the lock still has the room it counted, and that every identity in the net, under the
lock or with a process is reserved (`Backed`). `BudgetHeld` follows.

`ReviewPublicationProofs` goes on from there. `RowsInv` (types, a row is RUNNING exactly
while a worker is at it, an attempt past the limit was given back by a worker's end) gives
`TypesHold`. `BasedInv` follows the GENERAL pass from its reservation through the
executor to the Review: the fingerprint in its row is one that a process was run with
(`ReviewsBacked`). The three theorems about one head have the hypothesis `RepoLimit = 1`, the
default of `review_repository_concurrency` (config.py:66): then the jobs of a pull request
run one at a time (`Alone`), so what a worker has seen of its head at the gate stays true
until it posts. `SightedInv` says so (no job of the head has an id on record before the
POST, an id on record is of a Review with the marker), and gives `ReviewedHeadsRest` and
`SuccessesVisible`. `RepeatInv` counts: the Reviews, and the jobs that are about to post one
more for a head that has one, are no more than the heads with a Review and the lost
answers; `DuplicatesLost` is its consequence. Without the hypothesis all three are false:
two AUTO jobs of a head may both find nothing (see Bounds).

`IntakeProofs`, `SettingsProofs` and `FindingsProofs` are about `Intake`, for any set of
cases, with `CatalogAssumption`, `PatchAssumption` (what forms and commands submit has passed
`validate_global_policy_patch` or `validate_repository_policy_patch`, which `Column` states
column by column), `DeliveryAssumption`, `RowAssumption`, `FindingsAssumption` (diffs and
answers have the form of git's output and of the wire model) and `CasesAssumption` (the rows
of a case came from accepted forms).

`IntakeProofs`, in layers: `CatalogInv` (types, an effort is verified, a verification has
an entry) changes only by the catalog's commands (`CatalogFrame`), which gives
`OfferedIsVerified` and `OnlyVerificationReenablesHolds`. `DeliveryInv` adds the types of
the deliveries and that a request at work has its delivery recorded; a job is appended
only if no job has its delivery, which gives `OneJobPerDeliveryHolds`. `ReportsHaveJobs`
says that a request which is about to report PROCESSED has seen a job of its head; with the
watchdog's own look-up it gives `ProcessedIsBackedHolds`. `NoticeInv` relates each notice's
row, the requests that hold it before they post, and the comments: `NoticesOnceHolds`.

`SettingsProofs`, in layers. The first two rest on `EffortsGrow`: no command takes a
verified effort away. So what a session checked against the catalog it has read is still
true when it commits, and what a request resolved is still true when its job starts.
`RowsInv` and `SessionsInv` have the shape of rows and sessions and, of a session that is
ready to commit, that the catalog it holds is one of some time ago. `RowsOffered` then
carries the verified pair from commit to commit (`StoredPairIsVerifiedHolds`), and
`CarriedInv` from the policy through the request to the job
(`ReviewsUseVerifiedPairHolds`), where the worker's own look-up adds that the model is still
in use.

The third is the argument of optimistic locking. As long as a row is not `overtaken`, every
write raises its version, so a reading with the version of now has the values of now
(`Seen` in `ReadingOK`), and a form that passes the comparison writes over what its page
has shown: `PagesWriteWhatTheyShowedHolds`. The old column `enabled` is not compared; it needs
an invariant of its own, that it follows the override unless it was switched on since
(`LegacyFollows`, and `LegacyKept` for what a session has read). So an explicit override is never
contradicted by the old column which the worker also asks: `ExplicitOverridesWinHolds`. What an
inherited switch may meet there is shown by the run Refusal.

The fourth types the columns (`ColumnsInv`): a write puts validated columns on top of
columns that were validated before. The fifth carries the effort from there through the
requests to the jobs (`EffortsInv`).

`FindingsProofs`. Lists of findings are compared by keys that end with the place of a
finding, so `Precedes` is a strict order, total on them (`PrecedesIrreflexive`,
`PrecedesTransitive`, `PrecedesTotal`), and every set of findings has a first one
(`FirstOf`, `TopOf`). From that `KeptIs` proves, by building
it up from the top of the order, that there is a set which satisfies the equation of `Kept`. `VerdictIs` and `RejectedIs` say
what a verdict is made of; `Accounted` that its parts cover the findings and that
its counts add up when nothing was over a limit; `WorstIsKept` that the first of the
findings with one fingerprint is accepted, and is the worst since severity and confidence
come first in the key; `BudgetKeeps` that a MUST_FIX has a higher score than what is less
severe or of another type, and that a LINE finding which is over the budget leaves only
findings of a higher rank before it. `BeforeIs` and `RecordedIsAdded` compare the parser's
counter with git's: it never runs ahead, and where it falls behind its number is that of an
earlier added line. `FindingsInv` says that each phase of a review holds what the phases
before it computed, and with these lemmas it gives `EveryFindingAccountedHolds`,
`DuplicateKeepsWorstHolds` and `CommentsOnAddedLinesHolds`. `BudgetKeepsDefectsHolds` also
needs that the policy of a review has numbers for its limits, whatever row or profile
they come from (`BudgetInv`, from `ColumnsInv`). `IntakeTypes` is `TypeOK` of the composition.

Every safety invariant and every action property of the passing runs is a theorem. Only
model-checked is what is live: `EveryJobSettles`, `CallsEnd`, `JobsEnd`,
`EveryDeliverySettles` and `EveryAdmittedJobEnds`, since liveness under fairness is out of
the prover's reach.

## 5. Plan

Done: the queue, the executor, the review service and their composition; the catalog, the
settings, the deliveries, the rules for findings and their composition; the theorems above.
Left, in this order:

1. The cool-down of commands and the reactions.
2. Proofs: what of the theorems about one head is left with a larger `RepoLimit`, when
   all jobs of the head are commands.

## Not modelled

* GitHub App authentication (`app/github/auth.py`): a token is fetched under a lock and kept
  until shortly before it expires; no other state depends on it, and a call without one
  is a call that fails.
* Administrator sign-in and pages (`app/admin/oauth.py`, `browser.py`, most of
  `routes.py`): request-local checks and rendering. What the forms write is in `ReviewPolicy`.
* Incidents (`app/ops/alerts.py`): a note to the operator, with a cool-down; nothing reads
  it back, and `resolve_incident` has no caller.
* Evaluation, quality replay and the other tooling: batch code over files, without shared
  state.
* Configuration, logging and start-up: values fixed when a process starts.
* Prompts, context selection and the checkout: texts, pure selection of files, and one call
  that fails or succeeds.
