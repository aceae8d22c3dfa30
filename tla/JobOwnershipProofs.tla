------------------------- MODULE JobOwnershipProofs -------------------------
(***************************************************************************)
(* Theorems about JobQueue where no worker outlives stale_running_seconds  *)
(* (Zombies is FALSE): a worker that writes a row still owns it, attempts  *)
(* are bounded, and the queue implements JobLifecycle.                     *)
(***************************************************************************)
EXTENDS JobQueueProofs

USE DEF rows, clock, policy, workers

\* A stale row is not held by a worker that is alive.
StaleFree == \A j \in stale : ~Held(j)

\* A job that may still start has an attempt left, or one that a cancelled
\* worker gave back.
AttemptsInv ==
    \A j \in Jobs :
        /\ attempts[j] <= MaxAttempts + cancels
        /\ status[j] \in {"ABSENT", "PENDING"} => attempts[j] < MaxAttempts + cancels

OwnInv == LimitsInv /\ Ownership /\ StaleFree /\ AttemptsInv

LEMMA OwnInit == Init => OwnInv
BY LimitsInit, LimitsAssumption
   DEF Init, OwnInv, Ownership, StaleFree, AttemptsInv, Holds, Jobs

\* A claim's commit takes a row that nobody holds.
LEMMA ClaimTakes ==
    ASSUME OwnInv, NEW w \in Workers, ClaimCommit(w)
    PROVE  /\ wjob[w] \in Jobs /\ status[wjob[w]] = "PENDING" /\ ~Held(wjob[w])
           /\ \A v \in Workers, j \in Jobs :
                 Holds(v, j)' <=> Holds(v, j) \/ (v = w /\ j = wjob[w])
<1> USE DEF OwnInv, LimitsInv
<1>1. wjob[w] \in Jobs /\ status[wjob[w]] = "PENDING"
  BY BusyJob DEF ClaimReady, ClaimCommit, Busy
<1>2. ~Held(wjob[w])
  BY <1>1 DEF Held, Ownership
<1>3. ASSUME NEW v \in Workers, NEW j \in Jobs
      PROVE  Holds(v, j)' <=> Holds(v, j) \/ (v = w /\ j = wjob[w])
  BY DEF ClaimCommit, Holds, TypeInv, WorkerTypes
<1> QED
  BY <1>1, <1>2, <1>3

\* A worker that ends its work on a job held it alone, and lets go of it.
LEMMA LeaverOwns ==
    ASSUME OwnInv, NEW w \in Workers, Succeed(w) \/ Skip(w) \/ Fail(w) \/ Requeue(w) \/ Cancel(w)
    PROVE  /\ wjob[w] \in Jobs /\ status[wjob[w]] = "RUNNING"
           /\ wattempts[w] = attempts[wjob[w]]
           /\ \A v \in Workers, j \in Jobs : Holds(v, j)' => Holds(v, j) /\ v # w /\ j # wjob[w]
           /\ \E s \in {"PENDING", "SUCCEEDED", "SKIPPED", "FAILED"},
                 o \in Outcomes \cup {outcome[wjob[w]]} :
                 /\ Write(w, s, o)
                 /\ s = "PENDING" => attempts[wjob[w]] < MaxAttempts \/ cancels' = cancels + 1
           /\ cancels' \in {cancels, cancels + 1}
<1> USE DEF OwnInv, LimitsInv
<1>1. wpc[w] \in {"claimed", "working"} /\ (Leave(w, "idle") \/ Leave(w, "down"))
  BY DEF Succeed, Skip, Fail, Requeue, Cancel
<1>2. wjob[w] \in Jobs
  BY <1>1, BusyJob DEF Busy
<1>3. Holds(w, wjob[w])
  BY <1>1 DEF Holds
<1>4. status[wjob[w]] = "RUNNING" /\ wattempts[w] = attempts[wjob[w]]
  BY <1>2, <1>3 DEF Ownership
<1>5. ASSUME NEW v \in Workers, NEW j \in Jobs, Holds(v, j)'
      PROVE  Holds(v, j) /\ v # w /\ j # wjob[w]
  BY <1>1, <1>2, <1>3, <1>5 DEF Ownership, Leave, Holds, TypeInv, WorkerTypes
<1>6. \E s \in {"PENDING", "SUCCEEDED", "SKIPPED", "FAILED"},
         o \in Outcomes \cup {outcome[wjob[w]]} :
         /\ Write(w, s, o)
         /\ s = "PENDING" => attempts[wjob[w]] < MaxAttempts \/ cancels' = cancels + 1
  BY <1>4 DEF Outcomes, Succeed, Skip, Fail, Requeue, Cancel
<1>7. cancels' \in {cancels, cancels + 1}
  BY DEF Succeed, Skip, Fail, Requeue, Cancel
<1> QED
  BY <1>2, <1>4, <1>5, <1>6, <1>7

\* Recovery touches rows that nobody holds.
LEMMA RecoverSpares ==
    ASSUME OwnInv, RecoverStale, NEW j \in Jobs, Held(j)
    PROVE  status'[j] = status[j] /\ attempts'[j] = attempts[j] /\ execution'[j] = execution[j]
BY DEF OwnInv, StaleFree, RecoverStale, Requeueable, Exhausted, UnknownOutcome, Overdue

\* What has to stay as it is for ownership to stay.
Untouched(v, j) ==
    /\ Holds(v, j) /\ wattempts'[v] = wattempts[v] /\ wexec'[v] = wexec[v]
    /\ status'[j] = status[j] /\ attempts'[j] = attempts[j] /\ execution'[j] = execution[j]

LEMMA OwnFrame ==
    ASSUME OwnInv, \A v \in Workers, j \in Jobs : Holds(v, j)' => Untouched(v, j)
    PROVE  Ownership' /\ (stale' \subseteq stale => StaleFree')
<1>1. Ownership'
  BY DEF Ownership, Untouched, OwnInv
<1>2. ASSUME stale' \subseteq stale PROVE StaleFree'
  BY <1>2 DEF StaleFree, Held, Untouched, OwnInv, LimitsInv, TypeInv, OtherTypes
<1> QED
  BY <1>1, <1>2

LEMMA OwnStep ==
    ASSUME Zombies = FALSE, OwnInv, [Next]_vars
    PROVE  Ownership' /\ StaleFree'
<1> USE DEF OwnInv, LimitsInv, TypeInv, RowTypes, WorkerTypes
<1>1. ASSUME NEW w \in Workers, Start(w) PROVE Ownership' /\ StaleFree'
  <2>1. ASSUME NEW v \in Workers, NEW j \in Jobs, Holds(v, j)' PROVE Untouched(v, j)
    <3>1. Holds(v, j) /\ v # w
      BY <1>1, <2>1 DEF Start, Leave, Holds
    <3> QED
      BY <1>1, <3>1, RecoverSpares DEF Start, Leave, Untouched, Held
  <2> QED
    BY <1>1, <2>1, OwnFrame DEF Start, RecoverStale
<1>2. ASSUME NEW w \in Workers, NEW i \in Jobs, ClaimSelect(w, i) PROVE Ownership' /\ StaleFree'
  <2>1. ASSUME NEW v \in Workers, NEW j \in Jobs, Holds(v, j)' PROVE Untouched(v, j)
    BY <1>2, <2>1 DEF ClaimSelect, Untouched, Holds
  <2> QED
    BY <1>2, <2>1, OwnFrame DEF ClaimSelect
<1>3. ASSUME NEW w \in Workers, ClaimCommit(w) PROVE Ownership' /\ StaleFree'
  <2> DEFINE k == wjob[w]
  <2>1. /\ k \in Jobs /\ status[k] = "PENDING" /\ ~Held(k)
        /\ \A v \in Workers, j \in Jobs : Holds(v, j)' <=> Holds(v, j) \/ (v = w /\ j = k)
    BY <1>3, ClaimTakes
  <2>2. ~\E j \in Jobs : Holds(w, j)
    BY <1>3 DEF ClaimCommit, Holds
  <2>3. /\ status'[k] = "RUNNING" /\ wattempts'[w] = attempts'[k] /\ wexec'[w] = execution'[k]
    BY <1>3, <2>1 DEF ClaimCommit
  <2>4. ASSUME NEW v \in Workers, NEW j \in Jobs, Holds(v, j)
        PROVE  v # w /\ j # k /\ Untouched(v, j)
    BY <1>3, <2>1, <2>2, <2>4 DEF ClaimCommit, Untouched, Held
  <2>5. Ownership'
    BY <2>1, <2>3, <2>4 DEF Ownership, Untouched
  <2>6. StaleFree'
    BY <1>3, <2>1 DEF ClaimCommit, StaleFree, Held, OtherTypes
  <2> QED
    BY <2>5, <2>6
<1>4. ASSUME NEW w \in Workers, Bind(w) PROVE Ownership' /\ StaleFree'
  <2>1. \A v \in Workers, j \in Jobs : Holds(v, j)' <=> Holds(v, j)
    BY <1>4 DEF Bind, Holds
  <2>2. wjob[w] \in Jobs /\ Holds(w, wjob[w])
    BY <1>4, BusyJob DEF Bind, Holds, Busy
  <2>3. wexec'[w] = execution'[wjob[w]]
    BY <1>4, <2>2 DEF Bind, Ownership
  <2>4. ASSUME NEW v \in Workers, NEW j \in Jobs, Holds(v, j), v # w PROVE Untouched(v, j)
    BY <1>4, <2>2, <2>4 DEF Bind, Untouched, Ownership
  <2>5. \A j \in Jobs : Holds(w, j) => j = wjob[w]
    BY DEF Holds
  <2>6. Ownership'
    BY <1>4, <2>1, <2>2, <2>3, <2>4, <2>5 DEF Ownership, Untouched, Bind
  <2>7. StaleFree'
    BY <1>4, <2>1 DEF Bind, StaleFree, Held, OtherTypes
  <2> QED
    BY <2>6, <2>7
<1>5. ASSUME NEW w \in Workers, Succeed(w) \/ Skip(w) \/ Fail(w) \/ Requeue(w) \/ Cancel(w)
      PROVE  Ownership' /\ StaleFree'
  <2>1. \A v \in Workers, j \in Jobs : Holds(v, j)' => Holds(v, j) /\ v # w /\ j # wjob[w]
    BY <1>5, LeaverOwns
  <2>2. PICK s, o : Write(w, s, o)
    BY <1>5, LeaverOwns
  <2>3. Leave(w, "idle") \/ Leave(w, "down")
    BY <1>5 DEF Succeed, Skip, Fail, Requeue, Cancel
  <2>4. ASSUME NEW v \in Workers, NEW j \in Jobs, Holds(v, j)' PROVE Untouched(v, j)
    BY <2>1, <2>2, <2>3, <2>4 DEF Write, Leave, Untouched
  <2> QED
    BY <2>2, <2>4, OwnFrame DEF Write
<1>6. ASSUME NEW w \in Workers, Crash(w) PROVE Ownership' /\ StaleFree'
  <2>1. ASSUME NEW v \in Workers, NEW j \in Jobs, Holds(v, j)' PROVE Untouched(v, j)
    BY <1>6, <2>1 DEF Crash, Leave, Untouched, Holds
  <2> QED
    BY <1>6, <2>1, OwnFrame DEF Crash
<1>7. ASSUME NEW e \in Webs, WebStep(e) PROVE Ownership' /\ StaleFree'
  <2>1. ASSUME NEW v \in Workers, NEW j \in Jobs, Holds(v, j)' PROVE Untouched(v, j)
    <3>1. Holds(v, j) /\ UNCHANGED <<wattempts, wexec, attempts, execution>>
      BY <1>7, <2>1 DEF WebStep, EnqueueBegin, EnqueueCommit, EnqueueRollback, Insert, Holds
    <3>2. status[j] = "RUNNING" /\ j # last + 1
      BY <3>1 DEF Ownership, RowsExist, Jobs
    <3>3. status'[j] = status[j]
      BY <1>7, <3>2 DEF WebStep, EnqueueBegin, EnqueueCommit, EnqueueRollback, Superseded, WithStatus
    <3> QED
      BY <3>1, <3>3 DEF Untouched
  <2> QED
    BY <1>7, <2>1, OwnFrame DEF WebStep, EnqueueBegin, EnqueueCommit, EnqueueRollback
<1>8. CASE WatchdogRecover
  <2>1. ASSUME NEW v \in Workers, NEW j \in Jobs, Holds(v, j)' PROVE Untouched(v, j)
    <3>1. Holds(v, j)
      BY <1>8, <2>1 DEF WatchdogRecover, Holds
    <3> QED
      BY <1>8, <3>1, RecoverSpares DEF WatchdogRecover, Untouched, Held
  <2> QED
    BY <1>8, <2>1, OwnFrame DEF WatchdogRecover, RecoverStale
<1>9. CASE WatchdogFailPending
  <2>1. ASSUME NEW v \in Workers, NEW j \in Jobs, Holds(v, j)' PROVE Untouched(v, j)
    <3>1. Holds(v, j) /\ status[j] = "RUNNING"
      BY <1>9, <2>1 DEF WatchdogFailPending, Holds, Ownership
    <3> QED
      BY <1>9, <3>1 DEF WatchdogFailPending, TooOld, WithStatus, Untouched
  <2> QED
    BY <1>9, <2>1, OwnFrame DEF WatchdogFailPending
<1>10. ASSUME NEW i \in Jobs, Retry(i) \/ SkipPending(i) PROVE Ownership' /\ StaleFree'
  <2>1. ASSUME NEW v \in Workers, NEW j \in Jobs, Holds(v, j)' PROVE Untouched(v, j)
    <3>1. Holds(v, j)
      BY <1>10, <2>1 DEF Retry, SkipPending, Holds
    <3>2. status[j] = "RUNNING" /\ j # last + 1
      BY <3>1 DEF Ownership, RowsExist, Jobs
    <3> QED
      BY <1>10, <3>1, <3>2 DEF Retry, Insert, SkipPending, Untouched
  <2> QED
    BY <1>10, <2>1, OwnFrame DEF Retry, SkipPending
<1>11. ASSUME NEW i \in Jobs, GoStale(i) PROVE Ownership' /\ StaleFree'
  <2>1. \A v \in Workers, j \in Jobs : Holds(v, j)' <=> Holds(v, j)
    BY <1>11 DEF GoStale, Holds
  <2>2. Ownership'
    BY <1>11, <2>1, OwnFrame DEF GoStale, Untouched
  <2>3. ~Held(i)
    BY <1>11 DEF GoStale
  <2> QED
    BY <1>11, <2>1, <2>2, <2>3 DEF GoStale, StaleFree, Held, OtherTypes
<1>12. CASE \/ \E b \in BOOLEAN : SetPaused(b)
            \/ \E S \in SUBSET Repos : SetEnabled(S)
            \/ GoAncient \/ UNCHANGED vars
  <2>1. UNCHANGED <<status, attempts, execution, stale, wpc, wjob, wattempts, wexec>>
    BY <1>12 DEF SetPaused, SetEnabled, GoAncient, vars
  <2> QED
    BY <2>1, OwnFrame DEF Untouched, Holds
<1> QED
  BY <1>1, <1>2, <1>3, <1>4, <1>5, <1>6, <1>7, <1>8, <1>9, <1>10, <1>11, <1>12
     DEF Next, WorkerStep, Operator

-----------------------------------------------------------------------------
(* Every step of the queue is a step of the life cycle of its jobs.        *)

\* What one step may do to one job, with the actions that do it.
JobStep(j) ==
    \/ UNCHANGED <<status[j], attempts[j], execution[j]>>
    \/ \E w \in Workers : ClaimCommit(w) /\ wjob[w] = j
    \/ \E w \in Workers : Bind(w) /\ wjob[w] = j
    \/ /\ UNCHANGED <<attempts[j], execution[j]>>
       /\ \/ /\ status[j] = "RUNNING"
             /\ status'[j] \in {"PENDING", "SUCCEEDED", "SKIPPED", "FAILED"}
             /\ status'[j] = "PENDING" => attempts[j] < MaxAttempts \/ cancels' = cancels + 1
          \/ status[j] = "PENDING" /\ status'[j] \in {"SKIPPED", "FAILED"}
          \/ j = last + 1 /\ last' = last + 1 /\ status'[j] = "PENDING"

LEMMA JobSteps ==
    ASSUME OwnInv, [Next]_vars, NEW j \in Jobs
    PROVE  JobStep(j) /\ cancels' \in {cancels, cancels + 1}
<1> USE DEF JobStep, OwnInv, LimitsInv, TypeInv, RowTypes, WorkerTypes
<1> DEFINE Goal == JobStep(j) /\ cancels' \in {cancels, cancels + 1}
<1>1. ASSUME NEW w \in Workers, Start(w) PROVE Goal
  BY <1>1 DEF Start, RecoverStale, Requeueable, Exhausted, UnknownOutcome, Overdue, WithStatus
<1>2. ASSUME NEW w \in Workers, ClaimCommit(w) PROVE Goal
  BY <1>2 DEF ClaimCommit
<1>3. ASSUME NEW w \in Workers, Bind(w) PROVE Goal
  BY <1>3 DEF Bind
<1>4. ASSUME NEW w \in Workers, Succeed(w) \/ Skip(w) \/ Fail(w) \/ Requeue(w) \/ Cancel(w)
      PROVE  Goal
  <2>1. /\ wjob[w] \in Jobs /\ status[wjob[w]] = "RUNNING"
        /\ cancels' \in {cancels, cancels + 1}
    BY <1>4, LeaverOwns
  <2>2. PICK s \in {"PENDING", "SUCCEEDED", "SKIPPED", "FAILED"},
             o \in Outcomes \cup {outcome[wjob[w]]} :
           /\ Write(w, s, o)
           /\ s = "PENDING" => attempts[wjob[w]] < MaxAttempts \/ cancels' = cancels + 1
    BY <1>4, LeaverOwns
  <2> QED
    BY <2>1, <2>2 DEF Write
<1>5. ASSUME NEW e \in Webs, WebStep(e) PROVE Goal
  BY <1>5 DEF WebStep, EnqueueBegin, EnqueueCommit, EnqueueRollback, Insert, Superseded, WithStatus
<1>6. CASE WatchdogRecover
  BY <1>6 DEF WatchdogRecover, RecoverStale, Requeueable, Exhausted, UnknownOutcome, Overdue,
              WithStatus
<1>7. CASE WatchdogFailPending
  BY <1>7 DEF WatchdogFailPending, TooOld, WithStatus
<1>8. ASSUME NEW i \in Jobs, Retry(i) \/ SkipPending(i) \/ GoStale(i) PROVE Goal
  BY <1>8 DEF Retry, Insert, SkipPending, GoStale
<1>9. CASE \/ \E w \in Workers : (\E i \in Jobs : ClaimSelect(w, i)) \/ Crash(w)
           \/ \E b \in BOOLEAN : SetPaused(b)
           \/ \E S \in SUBSET Repos : SetEnabled(S)
           \/ GoAncient \/ UNCHANGED vars
  <2>1. UNCHANGED <<status, attempts, execution, cancels>>
    BY <1>9 DEF ClaimSelect, Crash, SetPaused, SetEnabled, GoAncient, vars
  <2> QED
    BY <2>1
<1> QED
  BY <1>1, <1>2, <1>3, <1>4, <1>5, <1>6, <1>7, <1>8, <1>9 DEF Next, WorkerStep, Operator

\* The two steps that write an attempt or an identity, seen from the life cycle.
LEMMA ClaimStarts ==
    ASSUME OwnInv, NEW w \in Workers, ClaimCommit(w)
    PROVE  LET j == wjob[w] IN
           /\ j \in Jobs /\ status[j] = "PENDING" /\ status'[j] = "RUNNING"
           /\ attempts'[j] = attempts[j] + 1 /\ execution'[j] = execution[j]
           /\ \A i \in Jobs : i # j => UNCHANGED <<status[i], attempts[i], execution[i]>>
           /\ cancels' = cancels
BY ClaimTakes DEF ClaimCommit, OwnInv, LimitsInv, TypeInv, RowTypes

LEMMA BindDraws ==
    ASSUME OwnInv, NEW w \in Workers, Bind(w)
    PROVE  LET j == wjob[w] IN
           /\ j \in Jobs /\ status[j] = "RUNNING" /\ status' = status /\ attempts' = attempts
           /\ \/ execution'[j] = execution[j]
              \/ execution[j] = 0 /\ execution'[j] = attempts[j]
           /\ cancels' = cancels
<1>1. wjob[w] \in Jobs /\ Holds(w, wjob[w])
  BY BusyJob DEF OwnInv, LimitsInv, Bind, Busy, Holds
<1>2. /\ status[wjob[w]] = "RUNNING" /\ wattempts[w] = attempts[wjob[w]]
      /\ wexec[w] = execution[wjob[w]]
  BY <1>1 DEF OwnInv, Ownership
<1> QED
  BY <1>1, <1>2 DEF Bind, OwnInv, LimitsInv, TypeInv, RowTypes

LEMMA AttemptsStep ==
    ASSUME OwnInv, [Next]_vars
    PROVE  AttemptsInv'
<1> SUFFICES ASSUME NEW j \in Jobs
             PROVE  /\ attempts'[j] <= MaxAttempts + cancels'
                    /\ status'[j] \in {"ABSENT", "PENDING"} =>
                          attempts'[j] < MaxAttempts + cancels'
  BY DEF AttemptsInv
<1> USE LimitsAssumption DEF OwnInv, LimitsInv, TypeInv, RowTypes, OtherTypes, AttemptsInv
<1>1. JobStep(j) /\ cancels' \in {cancels, cancels + 1}
  BY JobSteps
<1>2. CASE \E w \in Workers : ClaimCommit(w) /\ wjob[w] = j
  BY <1>2, ClaimStarts
<1>3. CASE \E w \in Workers : Bind(w) /\ wjob[w] = j
  BY <1>3, BindDraws
<1>4. CASE UNCHANGED <<status[j], attempts[j]>>
  BY <1>1, <1>4
<1>5. CASE /\ status[j] = "RUNNING" /\ attempts'[j] = attempts[j]
           /\ status'[j] \in {"PENDING", "SUCCEEDED", "SKIPPED", "FAILED"}
           /\ status'[j] = "PENDING" => attempts[j] < MaxAttempts \/ cancels' = cancels + 1
  BY <1>1, <1>5
<1>6. CASE /\ status[j] = "PENDING" /\ status'[j] \in {"SKIPPED", "FAILED"}
           /\ attempts'[j] = attempts[j]
  BY <1>1, <1>6
<1>7. CASE j = last + 1 /\ attempts'[j] = attempts[j]
  BY <1>1, <1>7 DEF RowsExist
<1> QED
  BY <1>1, <1>2, <1>3, <1>4, <1>5, <1>6, <1>7 DEF JobStep

LEMMA OwnInvariant ==
    ASSUME Zombies = FALSE
    PROVE  Spec => []OwnInv
<1>1. OwnInv /\ [Next]_vars => OwnInv'
  BY OwnStep, AttemptsStep, LimitsStep DEF OwnInv
<1> QED
  BY <1>1, OwnInit, PTL DEF Spec

\* A worker that is going to write a row still owns it.
THEOREM OwnershipHolds ==
    ASSUME Zombies = FALSE
    PROVE  Spec => []Ownership
<1>1. OwnInv => Ownership
  BY DEF OwnInv
<1> QED
  BY <1>1, OwnInvariant, PTL

\* No job is started more than worker_max_attempts times, plus once for every
\* cancelled worker.
THEOREM AttemptsAreBounded ==
    ASSUME Zombies = FALSE
    PROVE  Spec => []AttemptsBounded
<1>1. OwnInv => AttemptsBounded
  BY DEF OwnInv, AttemptsInv, AttemptsBounded
<1> QED
  BY <1>1, OwnInvariant, PTL

LEMMA LifecycleStep ==
    ASSUME OwnInv, [Next]_vars
    PROVE  [Lifecycle!Next]_<<status, attempts, execution>>
<1> USE DEF Lifecycle!Next, Lifecycle!Step, Lifecycle!Starts, Lifecycle!Binds, Lifecycle!After
<1>1. ASSUME NEW w \in Workers, ClaimCommit(w) PROVE Lifecycle!Next
  BY <1>1, ClaimStarts
<1>2. ASSUME ~(\E w \in Workers : ClaimCommit(w)), NEW j \in Jobs
      PROVE  Lifecycle!Step(j) /\ ~Lifecycle!Starts(j)
  <2>1. JobStep(j)
    BY JobSteps
  <2>2. CASE \E w \in Workers : Bind(w) /\ wjob[w] = j
    BY <2>2, BindDraws
  <2>3. CASE j = last + 1 /\ status'[j] = "PENDING" /\ UNCHANGED <<attempts[j], execution[j]>>
    BY <2>3 DEF OwnInv, LimitsInv, TypeInv, RowsExist, RowTypes, Jobs
  <2> QED
    BY <1>2, <2>1, <2>2, <2>3 DEF JobStep
<1> QED
  BY <1>1, <1>2

\* The queue implements JobLifecycle.
THEOREM LifecycleImplemented ==
    ASSUME Zombies = FALSE
    PROVE  Spec => LifecycleSpec
<1>1. Init => Lifecycle!Init
  BY DEF Init, Lifecycle!Init
<1>2. OwnInv /\ [Next]_vars => [Lifecycle!Next]_(Lifecycle!lifecycle)
  BY LifecycleStep DEF Lifecycle!lifecycle
<1> QED
  BY <1>1, <1>2, OwnInvariant, PTL DEF Spec, LifecycleSpec, Lifecycle!Spec

-----------------------------------------------------------------------------
(* One command per head.                                                   *)

\* Jobs under way for a /review comment.
Commanded == {j \in Jobs : status[j] \in Active /\ info[j].trigger = "COMMAND"}

\* No command job is under way for the head of an admission that has begun.
AdmissionAlone ==
    \A e \in Webs : ereq[e] # None /\ ereq[e].trigger = "COMMAND" =>
        \A j \in Commanded : ~SameHead(info[j], ereq[e])

\* The table grows by an insert, and an admission begins with EnqueueBegin.
LEMMA GrowsByInsert ==
    ASSUME TypeInv, [Next]_vars, last' = last + 1
    PROVE  (\E e \in Webs : EnqueueCommit(e)) \/ (\E i \in Jobs : Retry(i))
<1>1. last' # last
  BY DEF TypeInv, RowTypes
<1> QED
  BY <1>1
     DEF Next, WorkerStep, WebStep, Operator, vars, Start, RecoverStale, ClaimSelect, ClaimCommit,
         Bind, Succeed, Skip, Fail, Requeue, Cancel, Crash, Write, EnqueueBegin, EnqueueRollback,
         WatchdogRecover, WatchdogFailPending, SkipPending, SetPaused, SetEnabled, GoStale,
         GoAncient

LEMMA AdmissionBegins ==
    ASSUME TypeInv, [Next]_vars, NEW e \in Webs, ereq'[e] # ereq[e], ereq'[e] # None
    PROVE  \E r \in Requests : EnqueueBegin(e, r)
<1> USE DEF TypeInv, OtherTypes
<1>1. ASSUME NEW d \in Webs, EnqueueCommit(d) \/ EnqueueRollback(d) PROVE FALSE
  BY <1>1 DEF EnqueueCommit, EnqueueRollback
<1>2. ASSUME NEW d \in Webs, NEW r \in Requests, EnqueueBegin(d, r) PROVE d = e
  BY <1>2 DEF EnqueueBegin
<1>3. ereq' # ereq
  OBVIOUS
<1>4. \E d \in Webs : WebStep(d)
  BY <1>3
     DEF Next, WorkerStep, Operator, vars, Start, ClaimSelect, ClaimCommit,
         Bind, Succeed, Skip, Fail, Requeue, Cancel, Crash, Write,
         WatchdogRecover, WatchdogFailPending, Retry, SkipPending, SetPaused, SetEnabled, GoStale,
         GoAncient
<1> QED
  BY <1>1, <1>2, <1>4 DEF WebStep

\* A step admits at most one job, the next row; only admission and the operator's
\* retry do.
LEMMA Admitted ==
    ASSUME OwnInv, [Next]_vars, NEW j \in Jobs, j \in Commanded'
    PROVE  \/ j \in Commanded /\ info'[j] = info[j]
           \/ \E e \in Webs : EnqueueCommit(e) /\ j = last + 1 /\ info'[j] = ereq[e]
<1> USE DEF OwnInv, LimitsInv, TypeInv, RowTypes
<1>1. CASE \E w \in Workers : ClaimCommit(w)
  BY <1>1, ClaimStarts DEF Commanded, Active, ClaimCommit
<1>2. CASE ~(\E w \in Workers : ClaimCommit(w)) /\ status[j] # "ABSENT"
  <2>1. info'[j] = info[j]
    BY <1>2, OnlyClaimsStart DEF KeepsInfo, RowsExist, Jobs
  <2>2. j # last + 1
    BY <1>2 DEF RowsExist, Jobs
  <2>3. status[j] \in Active
    BY <1>2, <2>2, JobSteps, BindDraws DEF JobStep, Commanded, Active
  <2> QED
    BY <2>1, <2>3 DEF Commanded
<1>3. CASE ~(\E w \in Workers : ClaimCommit(w)) /\ status[j] = "ABSENT"
  <2>1. status'[j] # "ABSENT"
    BY DEF Commanded, Active
  <2>2. j = last + 1 /\ last' = last + 1
    BY <1>3, <2>1, JobSteps, BindDraws DEF JobStep
  <2>3. ASSUME NEW i \in Jobs, Retry(i) PROVE info'[j].trigger = "RETRY"
    BY <2>2, <2>3 DEF Retry, Insert, RetryOf
  <2>4. ASSUME NEW e \in Webs, EnqueueCommit(e) PROVE info'[j] = ereq[e]
    BY <2>2, <2>4 DEF EnqueueCommit, Insert
  <2>5. (\E e \in Webs : EnqueueCommit(e)) \/ (\E i \in Jobs : Retry(i))
    BY <1>3, <2>2, GrowsByInsert
  <2> QED
    BY <2>2, <2>3, <2>4, <2>5 DEF Commanded
<1> QED
  BY <1>1, <1>2, <1>3

LEMMA CommandStep ==
    ASSUME OwnInv, OneCommandPerHead, AdmissionAlone, [Next]_vars
    PROVE  OneCommandPerHead' /\ AdmissionAlone'
<1> USE DEF SameHead
<1>1. ASSUME NEW i \in Commanded', NEW j \in Commanded', SameHead(info'[i], info'[j])
      PROVE  i = j
  <2>0. i \in Jobs /\ j \in Jobs
    BY DEF Commanded
  <2>1. CASE i \in Commanded /\ info'[i] = info[i] /\ j \in Commanded /\ info'[j] = info[j]
    BY <1>1, <2>1 DEF OneCommandPerHead, Commanded
  <2>2. ASSUME NEW e \in Webs, EnqueueCommit(e), i = last + 1, info'[i] = ereq[e],
               j \in Commanded, info'[j] = info[j]
        PROVE  FALSE
    BY <1>1, <2>2 DEF AdmissionAlone, EnqueueCommit, Commanded
  <2>3. ASSUME NEW e \in Webs, EnqueueCommit(e), j = last + 1, info'[j] = ereq[e],
               i \in Commanded, info'[i] = info[i]
        PROVE  FALSE
    BY <1>1, <2>3 DEF AdmissionAlone, EnqueueCommit, Commanded
  <2> QED
    BY <2>0, <2>1, <2>2, <2>3, Admitted
<1>2. ASSUME NEW e \in Webs, ereq'[e] # None, ereq'[e].trigger = "COMMAND",
             NEW j \in Commanded'
      PROVE  ~SameHead(info'[j], ereq'[e])
  <2>0. j \in Jobs
    BY DEF Commanded
  <2>1. ASSUME NEW d \in Webs, EnqueueCommit(d) PROVE FALSE
    BY <1>2, <2>1, SetsAssumption
       DEF EnqueueCommit, OwnInv, LimitsInv, LockInv, TypeInv, OtherTypes
  <2>2. j \in Commanded /\ info'[j] = info[j]
    BY <2>0, <2>1, Admitted
  <2>3. CASE ereq'[e] = ereq[e]
    BY <1>2, <2>2, <2>3 DEF AdmissionAlone
  <2>4. CASE ereq'[e] # ereq[e]
    <3>1. PICK r \in Requests : EnqueueBegin(e, r)
      BY <1>2, <2>1, <2>4, AdmissionBegins DEF OwnInv, LimitsInv
    <3>2. ereq'[e] = r /\ info' = info /\ status' = status
      BY <3>1 DEF EnqueueBegin, OwnInv, LimitsInv, TypeInv, OtherTypes
    <3>3. j \in 1..last
      BY <2>0, <2>2 DEF Commanded, Active, OwnInv, LimitsInv, TypeInv, RowsExist, RowTypes, Jobs
    <3>4. ~SameHead(info[j], r)
      BY <1>2, <2>2, <3>1, <3>2, <3>3 DEF EnqueueBegin, Existing, Commanded
    <3> QED
      BY <3>2, <3>4
  <2> QED
    BY <2>3, <2>4
<1>3. OneCommandPerHead'
  BY <1>1 DEF OneCommandPerHead, Commanded
<1>4. AdmissionAlone'
  BY <1>2 DEF AdmissionAlone
<1> QED
  BY <1>3, <1>4

\* Two /review comments never have work under way for the same head.
THEOREM CommandsAreSingle ==
    ASSUME Zombies = FALSE
    PROVE  Spec => []OneCommandPerHead
<1>1. Init => OneCommandPerHead /\ AdmissionAlone
  BY DEF Init, OneCommandPerHead, AdmissionAlone, Active
<1>2. OwnInv /\ OneCommandPerHead /\ AdmissionAlone /\ [Next]_vars
        => (OneCommandPerHead /\ AdmissionAlone)'
  BY CommandStep
<1> QED
  BY <1>1, <1>2, OwnInvariant, PTL DEF Spec
=============================================================================
