--------------------------- MODULE JobQueueProofs ---------------------------
(***************************************************************************)
(* Theorems about JobQueue, in layers.  TypeInv: types, and which rows and *)
(* in-memory copies exist.                                                 *)
(***************************************************************************)
EXTENDS JobQueue, FiniteSetTheorems, TLAPS

Busy == {"claiming", "claimed", "working"}

\* Rows 1..last exist, and exactly those; an existing row has its columns.
RowsExist ==
    \A j \in Jobs :
        /\ status[j] = "ABSENT" <=> j > last
        /\ j <= last => info[j] \in Info

\* A worker that is not between two jobs works for an existing row.
BusyHasJob == \A w \in Workers : wpc[w] \in Busy => wjob[w] \in 1..last

TypeInv == RowTypes /\ WorkerTypes /\ OtherTypes /\ RowsExist /\ BusyHasJob

-----------------------------------------------------------------------------
(* Layer 1: types.                                                         *)

\* In the initial state there is no row and no worker is up.
LEMMA TypeInit == Init => TypeInv
BY LimitsAssumption
   DEF Init, TypeInv, RowTypes, WorkerTypes, OtherTypes, RowsExist, BusyHasJob, Busy, Jobs,
       JobStatus, Active, Terminal, Outcomes

USE DEF JobStatus, Active, Terminal, Outcomes, rows, clock, policy, workers

\* The job of a busy worker is a row.
LEMMA BusyJob ==
    ASSUME TypeInv, NEW w \in Workers, wpc[w] \in Busy
    PROVE  /\ wjob[w] \in Jobs /\ wjob[w] <= last
           /\ status[wjob[w]] # "ABSENT" /\ info[wjob[w]] \in Info
<1>1. wjob[w] \in 1..last
  BY DEF TypeInv, BusyHasJob
<1>2. wjob[w] \in Jobs /\ wjob[w] <= last
  BY <1>1, LimitsAssumption DEF TypeInv, RowTypes, Jobs
<1> QED
  BY <1>2 DEF TypeInv, RowsExist, RowTypes, Jobs

\* Leaving a job keeps the types of the workers, whatever happens to the rows.
LEMMA LeaveTypes ==
    ASSUME TypeInv, NEW w \in Workers, NEW pc \in {"idle", "down"}, Leave(w, pc), last' = last
    PROVE  WorkerTypes' /\ BusyHasJob'
<1>1. WorkerTypes'
  BY LimitsAssumption DEF TypeInv, WorkerTypes, Leave
<1>2. BusyHasJob'
  BY DEF TypeInv, WorkerTypes, BusyHasJob, Busy, Leave
<1> QED
  BY <1>1, <1>2

\* What a worker writes to its row keeps the types of the rows.
LEMMA WriteTypes ==
    ASSUME TypeInv, NEW w \in Workers, wpc[w] \in Busy,
           NEW s \in {"PENDING", "SUCCEEDED", "SKIPPED", "FAILED"},
           NEW o \in Outcomes \cup {outcome[wjob[w]]},
           Write(w, s, o), ereq' = ereq, lock' = lock,
           cancels' \in 0..MaxCancels
    PROVE  RowTypes' /\ OtherTypes' /\ RowsExist' /\ last' = last
<1>1. wjob[w] \in Jobs /\ wjob[w] <= last
  BY BusyJob
<1>2. RowTypes'
  BY <1>1 DEF TypeInv, RowTypes, Write
<1>3. OtherTypes'
  BY DEF TypeInv, OtherTypes, Write
<1>4. RowsExist'
  BY <1>1 DEF TypeInv, RowTypes, RowsExist, Jobs, Write
<1> QED
  BY <1>2, <1>3, <1>4 DEF Write

\* Recovery keeps the types of the rows.
LEMMA RecoverTypes ==
    ASSUME TypeInv, RecoverStale
    PROVE  RowTypes' /\ RowsExist' /\ stale' \subseteq Jobs /\ last' = last /\ ancient' = ancient
<1> USE DEF RecoverStale, Requeueable, Exhausted, UnknownOutcome, Overdue, WithStatus, TypeInv
<1>1. RowTypes'
  BY DEF RowTypes
<1>2. RowsExist'
  BY DEF RowTypes, RowsExist, Jobs
<1> QED
  BY <1>1, <1>2 DEF OtherTypes

\* Every step keeps the types.
LEMMA TypeStep ==
    ASSUME TypeInv, [Next]_vars
    PROVE  TypeInv'
<1> USE LimitsAssumption
<1>1. ASSUME NEW w \in Workers, Start(w) PROVE TypeInv'
  <2>1. RowTypes' /\ RowsExist' /\ last' = last /\ OtherTypes'
    BY <1>1, RecoverTypes DEF Start, TypeInv, OtherTypes
  <2> QED
    BY <1>1, <2>1, LeaveTypes DEF Start, TypeInv
<1>2. ASSUME NEW w \in Workers, NEW j \in Jobs, ClaimSelect(w, j) PROVE TypeInv'
  <2>1. j <= last /\ j \in 1..last /\ j \in 0..MaxJobs
    BY <1>2 DEF ClaimSelect, Claimable, Eligible, TypeInv, RowsExist, RowTypes, Jobs
  <2>2. WorkerTypes'
    BY <1>2, <2>1 DEF ClaimSelect, TypeInv, WorkerTypes
  <2>3. OtherTypes' /\ RowTypes' /\ RowsExist'
    BY <1>2 DEF ClaimSelect, TypeInv, OtherTypes, RowTypes, RowsExist
  <2>4. BusyHasJob'
    BY <1>2, <2>1 DEF ClaimSelect, TypeInv, BusyHasJob, WorkerTypes
  <2> QED
    BY <2>2, <2>3, <2>4 DEF TypeInv
<1>3. ASSUME NEW w \in Workers, ClaimCommit(w) PROVE TypeInv'
  <2>1. wjob[w] \in Jobs /\ wjob[w] <= last
    BY <1>3, BusyJob DEF ClaimCommit, Busy
  <2>2. RowTypes'
    BY <1>3, <2>1 DEF ClaimCommit, TypeInv, RowTypes
  <2>6. RowsExist'
    BY <1>3, <2>1 DEF ClaimCommit, TypeInv, RowTypes, RowsExist, Jobs
  <2>3. WorkerTypes'
    BY <1>3, <2>1 DEF ClaimCommit, TypeInv, RowTypes, WorkerTypes
  <2>4. OtherTypes'
    BY <1>3 DEF ClaimCommit, TypeInv, OtherTypes
  <2>5. BusyHasJob'
    BY <1>3 DEF ClaimCommit, TypeInv, BusyHasJob, WorkerTypes, Busy
  <2> QED
    BY <2>2, <2>3, <2>4, <2>5, <2>6 DEF TypeInv
<1>4. ASSUME NEW w \in Workers, Bind(w) PROVE TypeInv'
  <2>1. RowTypes' /\ WorkerTypes'
    BY <1>4 DEF Bind, TypeInv, RowTypes, WorkerTypes
  <2>2. OtherTypes' /\ RowsExist' /\ BusyHasJob'
    BY <1>4 DEF Bind, TypeInv, OtherTypes, RowsExist, BusyHasJob, WorkerTypes, Busy
  <2> QED
    BY <2>1, <2>2 DEF TypeInv
<1>5. ASSUME NEW w \in Workers, Succeed(w) \/ Skip(w) \/ Fail(w) \/ Requeue(w) \/ Cancel(w)
      PROVE  TypeInv'
  <2>1. PICK s \in {"PENDING", "SUCCEEDED", "SKIPPED", "FAILED"},
             o \in Outcomes \cup {outcome[wjob[w]]} : Write(w, s, o)
    BY <1>5 DEF Succeed, Skip, Fail, Requeue, Cancel
  <2>2. wpc[w] \in Busy /\ cancels' \in 0..MaxCancels
    BY <1>5 DEF Succeed, Skip, Fail, Requeue, Cancel, Busy, TypeInv, OtherTypes
  <2>3. Leave(w, "idle") \/ Leave(w, "down")
    BY <1>5 DEF Succeed, Skip, Fail, Requeue, Cancel
  <2>4. ereq' = ereq /\ lock' = lock
    BY <2>1 DEF Write
  <2>5. RowTypes' /\ OtherTypes' /\ RowsExist' /\ last' = last
    BY <2>1, <2>2, <2>4, WriteTypes
  <2>6. WorkerTypes' /\ BusyHasJob'
    BY <2>3, <2>5, LeaveTypes
  <2> QED
    BY <2>5, <2>6 DEF TypeInv
<1>6. ASSUME NEW w \in Workers, Crash(w) PROVE TypeInv'
  <2>1. WorkerTypes' /\ BusyHasJob'
    BY <1>6, LeaveTypes DEF Crash
  <2>2. OtherTypes' /\ RowTypes' /\ RowsExist'
    BY <1>6 DEF Crash, TypeInv, OtherTypes, RowTypes, RowsExist
  <2> QED
    BY <2>1, <2>2 DEF TypeInv
<1>7. ASSUME NEW e \in Webs, WebStep(e) PROVE TypeInv'
  <2> USE DEF TypeInv, RowTypes, WorkerTypes, OtherTypes, RowsExist, BusyHasJob, Jobs
  <2>1. ASSUME NEW r \in Requests, EnqueueBegin(e, r) PROVE TypeInv'
    <3>1. r \in Info
      BY DEF Requests, Info, Triggers
    <3> QED
      BY <2>1, <3>1 DEF EnqueueBegin
  <2>2. CASE EnqueueCommit(e)
    BY <2>2, SMTT(30) DEF EnqueueCommit, Insert, Superseded, WithStatus
  <2>3. CASE EnqueueRollback(e)
    BY <2>3 DEF EnqueueRollback
  <2> QED
    BY <1>7, <2>1, <2>2, <2>3 DEF WebStep
<1>8. CASE WatchdogRecover
  <2>1. RowTypes' /\ RowsExist' /\ last' = last /\ OtherTypes'
    BY <1>8, RecoverTypes DEF WatchdogRecover, TypeInv, OtherTypes
  <2> QED
    BY <1>8, <2>1 DEF WatchdogRecover, TypeInv, WorkerTypes, BusyHasJob
<1>9. CASE WatchdogFailPending
  BY <1>9 DEF WatchdogFailPending, TooOld, WithStatus, TypeInv, RowTypes, WorkerTypes, OtherTypes,
              RowsExist, BusyHasJob, Jobs
<1>10. ASSUME NEW j \in Jobs, Retry(j) PROVE TypeInv'
  <2>1. info[j] \in Info
    BY <1>10 DEF Retry, TypeInv, RowsExist, RowTypes, Jobs
  <2>2. RetryOf(j) \in Info
    BY <2>1 DEF RetryOf, Info, Triggers, Jobs
  <2>3. RowTypes' /\ RowsExist'
    BY <1>10, <2>2 DEF Retry, Insert, TypeInv, RowTypes, RowsExist, Jobs
  <2>4. OtherTypes' /\ WorkerTypes'
    BY <1>10 DEF Retry, TypeInv, OtherTypes, WorkerTypes
  <2>5. BusyHasJob'
    BY <1>10 DEF Retry, Insert, TypeInv, RowTypes, BusyHasJob
  <2> QED
    BY <2>3, <2>4, <2>5 DEF TypeInv
<1>11. ASSUME NEW j \in Jobs, SkipPending(j) \/ GoStale(j) PROVE TypeInv'
  <2>1. WorkerTypes' /\ BusyHasJob'
    BY <1>11 DEF SkipPending, GoStale, TypeInv, WorkerTypes, BusyHasJob
  <2>2. RowTypes'
    BY <1>11 DEF SkipPending, GoStale, TypeInv, RowTypes
  <2>3. RowsExist'
    BY <1>11 DEF SkipPending, GoStale, TypeInv, RowTypes, RowsExist
  <2>4. CASE SkipPending(j)
    BY <2>1, <2>2, <2>3, <2>4 DEF SkipPending, TypeInv, OtherTypes
  <2>5. CASE GoStale(j)
    <3>1. stale' \subseteq Jobs /\ ancient' \in 0..MaxJobs
      BY <2>5 DEF GoStale, TypeInv, OtherTypes, Jobs
    <3> QED
      BY <2>1, <2>2, <2>3, <2>5, <3>1 DEF GoStale, TypeInv, OtherTypes
  <2> QED
    BY <1>11, <2>4, <2>5
<1>12. ASSUME NEW b \in BOOLEAN, SetPaused(b) PROVE TypeInv'
  BY <1>12 DEF SetPaused, TypeInv, RowTypes, WorkerTypes, OtherTypes, RowsExist, BusyHasJob
<1>13. ASSUME NEW S \in SUBSET Repos, SetEnabled(S) PROVE TypeInv'
  BY <1>13 DEF SetEnabled, TypeInv, RowTypes, WorkerTypes, OtherTypes, RowsExist, BusyHasJob
<1>14. CASE GoAncient
  BY <1>14 DEF GoAncient, TypeInv, RowTypes, WorkerTypes, OtherTypes, RowsExist, BusyHasJob
<1>15. CASE UNCHANGED vars
  BY <1>15 DEF vars, TypeInv, RowTypes, WorkerTypes, OtherTypes, RowsExist, BusyHasJob
<1> QED
  BY <1>1, <1>2, <1>3, <1>4, <1>5, <1>6, <1>7, <1>8, <1>9, <1>10, <1>11, <1>12,
     <1>13, <1>14, <1>15
     DEF Next, WorkerStep, Operator

\* processing_paused is written by set_processing_state only, under the lock.
LEMMA PauseNeedsLock ==
    ASSUME [Next]_vars, paused' # paused
    PROVE  lock = None /\ \E b \in BOOLEAN : paused' = b
BY DEF Next, WorkerStep, WebStep, Operator, vars, Start, ClaimSelect, ClaimCommit, Bind, Succeed,
       Skip, Fail, Requeue, Cancel, Crash, Write, EnqueueBegin, EnqueueCommit, EnqueueRollback,
       WatchdogRecover, WatchdogFailPending, Retry, SkipPending, SetPaused, SetEnabled, GoStale,
       GoAncient

\* Spec keeps TypeOK.
THEOREM TypeCorrect == Spec => []TypeOK
<1>1. Init => paused \in BOOLEAN
  BY DEF Init
<1>2. (TypeInv /\ paused \in BOOLEAN) /\ [Next]_vars => (TypeInv /\ paused \in BOOLEAN)'
  BY TypeStep, PauseNeedsLock
<1>3. (TypeInv /\ paused \in BOOLEAN) => TypeOK
  BY DEF TypeInv, TypeOK
<1> QED
  BY <1>1, <1>2, <1>3, TypeInit, PTL DEF Spec

-----------------------------------------------------------------------------
(* Layer 2: the lock, and what it protects.                                *)

\* The row lock has one holder, and only its holder is inside a transaction.
LockInv ==
    /\ \A w \in Workers : wpc[w] = "claiming" <=> lock = w
    /\ \A e \in Webs : ereq[e] # None <=> lock = e

\* What claim_next has read is still true when it writes.
ClaimReady ==
    \A w \in Workers : wpc[w] = "claiming" =>
        /\ status[wjob[w]] = "PENDING"
        /\ WithinLimits(wjob[w])

LimitsInv == TypeInv /\ LockInv /\ ClaimReady /\ RunningWithinLimits

\* The lock is taken when it is free and given back by its holder.
LEMMA LockStep ==
    ASSUME TypeInv, LockInv, [Next]_vars
    PROVE  LockInv'
<1> USE SetsAssumption DEF TypeInv, LockInv, WorkerTypes, OtherTypes
<1>1. ASSUME NEW w \in Workers, Start(w) \/ Bind(w) \/ Crash(w) PROVE LockInv'
  BY <1>1 DEF Start, Bind, Crash, Leave
<1>2. ASSUME NEW w \in Workers, NEW j \in Jobs, ClaimSelect(w, j) PROVE LockInv'
  BY <1>2 DEF ClaimSelect
<1>3. ASSUME NEW w \in Workers, ClaimCommit(w) PROVE LockInv'
  BY <1>3 DEF ClaimCommit
<1>4. ASSUME NEW w \in Workers, Succeed(w) \/ Skip(w) \/ Fail(w) \/ Requeue(w) \/ Cancel(w)
      PROVE  LockInv'
  BY <1>4 DEF Succeed, Skip, Fail, Requeue, Cancel, Write, Leave
<1>5. ASSUME NEW e \in Webs, NEW r \in Requests, EnqueueBegin(e, r) PROVE LockInv'
  <2>1. r # None
    BY NoneAssumption, LimitsAssumption DEF Requests, Info, Triggers
  <2> QED
    BY <1>5, <2>1 DEF EnqueueBegin
<1>6. ASSUME NEW e \in Webs, EnqueueCommit(e) \/ EnqueueRollback(e) PROVE LockInv'
  BY <1>6 DEF EnqueueCommit, EnqueueRollback
<1>7. CASE \/ WatchdogRecover \/ WatchdogFailPending \/ Operator
           \/ (\E j \in Jobs : GoStale(j)) \/ GoAncient \/ UNCHANGED vars
  <2>1. UNCHANGED <<lock, wpc, ereq>>
    BY <1>7 DEF WatchdogRecover, WatchdogFailPending, Operator, Retry, SkipPending, SetPaused,
                SetEnabled, GoStale, GoAncient, vars
  <2> QED
    BY <2>1
<1> QED
  BY <1>1, <1>2, <1>3, <1>4, <1>5, <1>6, <1>7 DEF Next, WorkerStep, WebStep

\* Apart from a claim's commit no step makes a job RUNNING, and rows keep their
\* columns.
NothingStarts == \A j \in Jobs : status'[j] = "RUNNING" => status[j] = "RUNNING"
KeepsInfo == \A j \in Jobs : j <= last => info'[j] = info[j]

LEMMA OnlyClaimsStart ==
    ASSUME TypeInv, [Next]_vars, ~(\E w \in Workers : ClaimCommit(w))
    PROVE  NothingStarts /\ KeepsInfo
<1> USE DEF NothingStarts, KeepsInfo, TypeInv, RowTypes
<1>1. ASSUME NEW w \in Workers, Start(w) PROVE NothingStarts /\ KeepsInfo
  BY <1>1 DEF Start, RecoverStale
<1>2. ASSUME NEW w \in Workers, Succeed(w) \/ Skip(w) \/ Fail(w) \/ Requeue(w) \/ Cancel(w)
      PROVE  NothingStarts /\ KeepsInfo
  BY <1>2 DEF Succeed, Skip, Fail, Requeue, Cancel, Write
<1>3. ASSUME NEW e \in Webs, EnqueueCommit(e) PROVE NothingStarts /\ KeepsInfo
  BY <1>3, LimitsAssumption DEF EnqueueCommit, Insert, Jobs
<1>4. CASE WatchdogRecover \/ WatchdogFailPending
  BY <1>4 DEF WatchdogRecover, WatchdogFailPending, RecoverStale
<1>5. ASSUME NEW j \in Jobs, Retry(j) PROVE NothingStarts /\ KeepsInfo
  BY <1>5, LimitsAssumption DEF Retry, Insert, Jobs
<1>6. ASSUME NEW j \in Jobs, SkipPending(j) PROVE NothingStarts /\ KeepsInfo
  BY <1>6 DEF SkipPending
<1>7. CASE \/ \E w \in Workers : (\E j \in Jobs : ClaimSelect(w, j)) \/ Bind(w) \/ Crash(w)
           \/ \E e \in Webs : (\E r \in Requests : EnqueueBegin(e, r)) \/ EnqueueRollback(e)
           \/ \E b \in BOOLEAN : SetPaused(b)
           \/ \E S \in SUBSET Repos : SetEnabled(S)
           \/ \E j \in Jobs : GoStale(j)
           \/ GoAncient
           \/ UNCHANGED vars
  <2>1. UNCHANGED <<status, info>>
    BY <1>7 DEF ClaimSelect, Bind, Crash, EnqueueBegin, EnqueueRollback, SetPaused, SetEnabled,
                GoStale, GoAncient, vars
  <2> QED
    BY <2>1
<1> QED
  BY <1>1, <1>2, <1>3, <1>4, <1>5, <1>6, <1>7 DEF Next, WorkerStep, WebStep, Operator

\* While a claim is between its select and its commit, its row stays PENDING: the
\* other writers of the row wait.
LEMMA ClaimedRowWaits ==
    ASSUME TypeInv, LockInv, ClaimReady, [Next]_vars, NEW w \in Workers, wpc[w] = "claiming",
           ~ClaimCommit(w), wpc'[w] = "claiming"
    PROVE  status'[wjob[w]] = "PENDING" /\ wjob'[w] = wjob[w]
<1> DEFINE j == wjob[w]
<1> DEFINE Kept == status'[j] = "PENDING" /\ wjob'[w] = j
<1> USE DEF TypeInv, RowTypes, WorkerTypes
<1>1. j \in Jobs /\ j <= last /\ status[j] = "PENDING" /\ ~RowFree(j)
  BY BusyJob DEF ClaimReady, RowFree, Busy
<1>2. \A v \in Workers : v # w => wpc[v] # "claiming"
  BY DEF LockInv
<1>3. \A e \in Webs : ereq[e] = None
  BY SetsAssumption DEF LockInv
<1> HIDE DEF j
<1>4. ASSUME NEW v \in Workers, Start(v) PROVE Kept
  BY <1>1, <1>4 DEF Start, RecoverStale, Leave, Requeueable, Exhausted, UnknownOutcome, Overdue,
                    WithStatus, j
<1>5. ASSUME NEW v \in Workers, NEW i \in Jobs, ClaimSelect(v, i) PROVE Kept
  BY <1>1, <1>5 DEF ClaimSelect, LockInv, OtherTypes, j
<1>6. ASSUME NEW v \in Workers, ClaimCommit(v) PROVE Kept
  BY <1>2, <1>6 DEF ClaimCommit
<1>7. ASSUME NEW v \in Workers, Bind(v) \/ Crash(v) PROVE Kept
  BY <1>1, <1>7 DEF Bind, Crash, Leave, j
<1>8. ASSUME NEW v \in Workers, Succeed(v) \/ Skip(v) \/ Fail(v) \/ Requeue(v) \/ Cancel(v)
      PROVE  Kept
  BY <1>1, <1>8 DEF Succeed, Skip, Fail, Requeue, Cancel, Write, Leave, j
<1>9. ASSUME NEW e \in Webs, WebStep(e) PROVE Kept
  BY <1>1, <1>3, <1>9, SetsAssumption DEF WebStep, EnqueueBegin, EnqueueCommit, EnqueueRollback, LockInv, j
<1>10. CASE WatchdogRecover \/ WatchdogFailPending
  BY <1>1, <1>10 DEF WatchdogRecover, WatchdogFailPending, RecoverStale, Requeueable, Exhausted,
                     UnknownOutcome, Overdue, TooOld, WithStatus, j
<1>11. ASSUME NEW i \in Jobs, Retry(i) \/ SkipPending(i) \/ GoStale(i) PROVE Kept
  BY <1>1, <1>11 DEF Retry, SkipPending, GoStale, Insert, j
<1>12. CASE \/ \E b \in BOOLEAN : SetPaused(b)
            \/ \E S \in SUBSET Repos : SetEnabled(S)
            \/ GoAncient \/ UNCHANGED vars
  BY <1>1, <1>12 DEF SetPaused, SetEnabled, GoAncient, vars, j
<1> QED
  BY <1>4, <1>5, <1>6, <1>7, <1>8, <1>9, <1>10, <1>11, <1>12 DEF Next, WorkerStep, Operator, j

\* Sets of rows are finite, and a subset has no more members.
LEMMA Rows ==
    ASSUME NEW S \in SUBSET Jobs, NEW T \in SUBSET Jobs, S \subseteq T
    PROVE  /\ IsFiniteSet(T) /\ Cardinality(S) \in Nat /\ Cardinality(T) \in Nat
           /\ Cardinality(S) <= Cardinality(T)
<1>1. IsFiniteSet(Jobs)
  BY LimitsAssumption, FS_Interval DEF Jobs
<1>2. IsFiniteSet(T) /\ IsFiniteSet(S)
  BY <1>1, FS_Subset
<1> QED
  BY <1>2, FS_Subset, FS_CardinalityType

\* Where nothing starts the counts of claim_statement do not grow.
LEMMA CountsShrink ==
    ASSUME TypeInv, NothingStarts, KeepsInfo, NEW r
    PROVE  /\ Cardinality(WithStatus("RUNNING"))' <= Cardinality(WithStatus("RUNNING"))
           /\ Cardinality(WithStatusIn("RUNNING", r))' <= Cardinality(WithStatusIn("RUNNING", r))
           /\ Cardinality(WithStatus("RUNNING")) \in Nat
           /\ Cardinality(WithStatus("RUNNING"))' \in Nat
           /\ Cardinality(WithStatusIn("RUNNING", r)) \in Nat
           /\ Cardinality(WithStatusIn("RUNNING", r))' \in Nat
<1>1. WithStatus("RUNNING")' \subseteq WithStatus("RUNNING")
  BY DEF NothingStarts, WithStatus
<1>2. ASSUME NEW j \in Jobs, status'[j] = "RUNNING" PROVE RepositoryOf(j)' = RepositoryOf(j)
  <2>1. j <= last
    BY <1>2, LimitsAssumption DEF NothingStarts, TypeInv, RowsExist, RowTypes, Jobs
  <2> QED
    BY <2>1 DEF KeepsInfo, RepositoryOf
<1>3. WithStatusIn("RUNNING", r)' \subseteq WithStatusIn("RUNNING", r)
  BY <1>1, <1>2 DEF WithStatusIn, WithStatus
<1>4. WithStatus("RUNNING") \in SUBSET Jobs /\ WithStatusIn("RUNNING", r) \in SUBSET Jobs
  BY DEF WithStatus, WithStatusIn
<1>5. WithStatus("RUNNING")' \in SUBSET Jobs /\ WithStatusIn("RUNNING", r)' \in SUBSET Jobs
  BY DEF WithStatus, WithStatusIn
<1>6. /\ Cardinality(WithStatus("RUNNING")') <= Cardinality(WithStatus("RUNNING"))
      /\ Cardinality(WithStatus("RUNNING")) \in Nat /\ Cardinality(WithStatus("RUNNING")') \in Nat
  BY <1>1, <1>4, <1>5, Rows
<1>7. /\ Cardinality(WithStatusIn("RUNNING", r)') <= Cardinality(WithStatusIn("RUNNING", r))
      /\ Cardinality(WithStatusIn("RUNNING", r)) \in Nat
      /\ Cardinality(WithStatusIn("RUNNING", r)') \in Nat
  BY <1>3, <1>4, <1>5, Rows
<1> QED
  BY <1>6, <1>7

\* A claim's commit adds its row to the counts it has found below their limits.
LEMMA ClaimKeepsLimits ==
    ASSUME LimitsInv, NEW w \in Workers, ClaimCommit(w)
    PROVE  RunningWithinLimits'
<1> DEFINE j == wjob[w]
<1> USE DEF LimitsInv
<1>1. j \in Jobs /\ j <= last /\ status[j] = "PENDING" /\ WithinLimits(j)
  BY BusyJob DEF ClaimReady, Busy, ClaimCommit
<1>2. WithStatus("RUNNING")' = WithStatus("RUNNING") \cup {j}
  BY <1>1 DEF ClaimCommit, WithStatus, TypeInv, RowTypes
<1>3. \A i \in Jobs : RepositoryOf(i)' = RepositoryOf(i)
  BY DEF ClaimCommit, RepositoryOf
<1>4. ASSUME NEW r \in Repos
      PROVE  WithStatusIn("RUNNING", r)' = IF r = RepositoryOf(j)
                                           THEN WithStatusIn("RUNNING", r) \cup {j}
                                           ELSE WithStatusIn("RUNNING", r)
  BY <1>1, <1>2, <1>3 DEF WithStatusIn, WithStatus
<1>5. ASSUME NEW S \in SUBSET Jobs, NEW n \in Nat, Cardinality(S) < n
      PROVE  Cardinality(S \cup {j}) <= n
  <2>1. IsFiniteSet(S) /\ Cardinality(S) \in Nat
    BY Rows
  <2>2. Cardinality(S \cup {j}) = Cardinality(S) \/ Cardinality(S \cup {j}) = Cardinality(S) + 1
    BY <2>1, FS_AddElement
  <2> QED
    BY <2>1, <2>2, <1>5
<1>6. Cardinality(WithStatus("RUNNING")') <= GlobalLimit
  <2>1. WithStatus("RUNNING") \in SUBSET Jobs
    BY DEF WithStatus
  <2> QED
    BY <1>1, <1>2, <1>5, <2>1, LimitsAssumption DEF WithinLimits
<1>7. ASSUME NEW r \in Repos PROVE Cardinality(WithStatusIn("RUNNING", r)') <= RepoLimit
  <2>1. WithStatusIn("RUNNING", r) \in SUBSET Jobs
    BY DEF WithStatusIn, WithStatus
  <2>2. CASE r = RepositoryOf(j)
    BY <1>1, <1>4, <1>5, <2>1, <2>2, LimitsAssumption DEF WithinLimits
  <2>3. CASE r # RepositoryOf(j)
    BY <1>4, <2>3 DEF RunningWithinLimits
  <2> QED
    BY <2>2, <2>3
<1> QED
  BY <1>6, <1>7 DEF RunningWithinLimits

\* A claim begins with the select.
LEMMA OnlySelectClaims ==
    ASSUME TypeInv, [Next]_vars, NEW w \in Workers, wpc[w] # "claiming", wpc'[w] = "claiming"
    PROVE  \E j \in Jobs : ClaimSelect(w, j)
<1> USE DEF TypeInv, WorkerTypes
<1>1. ASSUME NEW v \in Workers, \/ Start(v) \/ ClaimCommit(v) \/ Bind(v) \/ Succeed(v) \/ Skip(v)
                               \/ Fail(v) \/ Requeue(v) \/ Cancel(v) \/ Crash(v)
      PROVE  FALSE
  BY <1>1 DEF Start, ClaimCommit, Bind, Succeed, Skip, Fail, Requeue, Cancel, Crash, Leave
<1>2. ASSUME NEW v \in Workers, NEW j \in Jobs, ClaimSelect(v, j) PROVE v = w
  BY <1>2 DEF ClaimSelect
<1>3. CASE \/ \E e \in Webs : WebStep(e)
           \/ WatchdogRecover \/ WatchdogFailPending \/ Operator
           \/ (\E j \in Jobs : GoStale(j)) \/ GoAncient \/ UNCHANGED vars
  <2>1. wpc' = wpc
    BY <1>3 DEF WebStep, EnqueueBegin, EnqueueCommit, EnqueueRollback, WatchdogRecover,
                WatchdogFailPending, Operator, Retry, SkipPending, SetPaused, SetEnabled, GoStale,
                GoAncient, vars
  <2> QED
    BY <2>1
<1> QED
  BY <1>1, <1>2, <1>3 DEF Next, WorkerStep

\* What a claim has read stays true until it commits.
LEMMA ReadyStep ==
    ASSUME LimitsInv, [Next]_vars
    PROVE  ClaimReady'
<1> USE DEF LimitsInv
<1> SUFFICES ASSUME NEW w \in Workers, wpc'[w] = "claiming"
             PROVE  status'[wjob'[w]] = "PENDING" /\ WithinLimits(wjob[w])'
  BY DEF ClaimReady
<1>1. ASSUME NEW v \in Workers, ClaimCommit(v) PROVE FALSE
  BY <1>1, LockStep, SetsAssumption DEF ClaimCommit, LockInv
<1>2. NothingStarts /\ KeepsInfo
  BY <1>1, OnlyClaimsStart
<1>3. CASE wpc[w] = "claiming"
  <2>1. status'[wjob[w]] = "PENDING" /\ wjob'[w] = wjob[w]
    BY <1>1, <1>3, ClaimedRowWaits
  <2>2. WithinLimits(wjob[w]) /\ wjob[w] \in Jobs /\ wjob[w] <= last
    BY <1>3, BusyJob DEF ClaimReady, Busy
  <2>3. RepositoryOf(wjob[w])' = RepositoryOf(wjob[w])
    BY <1>2, <2>1, <2>2 DEF KeepsInfo, RepositoryOf
  <2>4. PICK r : r = RepositoryOf(wjob[w])
    OBVIOUS
  <2>5. Cardinality(WithStatus("RUNNING"))' < GlobalLimit
    BY <1>2, <2>2, CountsShrink, LimitsAssumption DEF WithinLimits
  <2>6. Cardinality(WithStatusIn("RUNNING", r))' < RepoLimit
    BY <1>2, <2>2, <2>4, CountsShrink, LimitsAssumption DEF WithinLimits
  <2> QED
    BY <2>1, <2>3, <2>4, <2>5, <2>6 DEF WithinLimits
<1>4. CASE wpc[w] # "claiming"
  <2>1. PICK j \in Jobs : ClaimSelect(w, j)
    BY <1>4, OnlySelectClaims
  <2>2. status'[j] = "PENDING" /\ wjob'[w] = j /\ WithinLimits(j)
    BY <2>1 DEF ClaimSelect, Claimable, Eligible, TypeInv, WorkerTypes
  <2>3. status' = status /\ info' = info
    BY <2>1 DEF ClaimSelect
  <2>4. WithinLimits(wjob[w])'
    BY <2>2, <2>3 DEF WithinLimits, WithStatus, WithStatusIn, RepositoryOf
  <2> QED
    BY <2>2, <2>4
<1> QED
  BY <1>3, <1>4

LEMMA LimitsInit == Init => LimitsInv
<1> SUFFICES ASSUME Init PROVE LimitsInv
  OBVIOUS
<1>1. TypeInv
  BY TypeInit
<1>2. LockInv /\ ClaimReady
  BY SetsAssumption DEF Init, LockInv, ClaimReady
<1>3. \A r : WithStatus("RUNNING") = {} /\ WithStatusIn("RUNNING", r) = {}
  BY DEF Init, WithStatus, WithStatusIn
<1>4. RunningWithinLimits
  BY <1>3, FS_EmptySet, LimitsAssumption DEF RunningWithinLimits
<1> QED
  BY <1>1, <1>2, <1>4 DEF LimitsInv

LEMMA LimitsStep ==
    ASSUME LimitsInv, [Next]_vars
    PROVE  LimitsInv'
<1> USE DEF LimitsInv
<1>1. TypeInv' /\ LockInv' /\ ClaimReady'
  BY TypeStep, LockStep, ReadyStep
<1>2. CASE \E w \in Workers : ClaimCommit(w)
  BY <1>1, <1>2, ClaimKeepsLimits
<1>3. CASE ~(\E w \in Workers : ClaimCommit(w))
  <2>1. NothingStarts /\ KeepsInfo
    BY <1>3, OnlyClaimsStart
  <2>2. Cardinality(WithStatus("RUNNING"))' <= GlobalLimit
    BY <2>1, CountsShrink, LimitsAssumption DEF RunningWithinLimits
  <2>3. ASSUME NEW r \in Repos PROVE Cardinality(WithStatusIn("RUNNING", r))' <= RepoLimit
    BY <2>1, CountsShrink, LimitsAssumption DEF RunningWithinLimits
  <2> QED
    BY <1>1, <2>2, <2>3 DEF RunningWithinLimits
<1> QED
  BY <1>2, <1>3

\* The concurrency limits hold for every number of workers, jobs and
\* repositories, also when workers outlive stale_running_seconds.
THEOREM LimitsHold == Spec => []RunningWithinLimits
<1>1. LimitsInv /\ [Next]_vars => LimitsInv'
  BY LimitsStep
<1>2. LimitsInv => RunningWithinLimits
  BY DEF LimitsInv
<1> QED
  BY <1>1, <1>2, LimitsInit, PTL DEF Spec

\* A claim under way has read "not paused", and no pause commits before it ends.
ClaimUnpaused == \A w \in Workers : wpc[w] = "claiming" => ~paused

LEMMA UnpausedStep ==
    ASSUME TypeInv, LockInv, ClaimUnpaused, [Next]_vars
    PROVE  ClaimUnpaused'
<1> SUFFICES ASSUME NEW w \in Workers, wpc'[w] = "claiming" PROVE ~paused'
  BY DEF ClaimUnpaused
<1>1. wpc[w] # "claiming" => \E j \in Jobs : ClaimSelect(w, j)
  BY OnlySelectClaims
<1>2. CASE \E j \in Jobs : ClaimSelect(w, j)
  BY <1>2 DEF ClaimSelect, Claimable, Eligible
<1>3. CASE wpc[w] = "claiming" /\ paused' = paused
  BY <1>3 DEF ClaimUnpaused
<1>4. CASE wpc[w] = "claiming" /\ paused' # paused
  <2>1. lock = w
    BY <1>4 DEF LockInv
  <2>2. lock = None
    BY <1>4, PauseNeedsLock
  <2> QED
    BY <2>1, <2>2, SetsAssumption
<1> QED
  BY <1>1, <1>2, <1>3, <1>4

\* After a committed pause no job starts.
THEOREM PauseHolds == Spec => NoStartWhilePaused
<1> DEFINE Inv == TypeInv /\ LockInv /\ ClaimUnpaused
<1>1. Init => Inv
  BY TypeInit, SetsAssumption DEF Init, LockInv, ClaimUnpaused
<1>2. Inv /\ [Next]_vars => Inv'
  BY TypeStep, LockStep, UnpausedStep
<1>3. ASSUME Inv, [Next]_vars
      PROVE  [\A j \in Jobs : status[j] # "RUNNING" /\ status'[j] = "RUNNING" => ~paused]_vars
  <2>1. CASE \E w \in Workers : ClaimCommit(w)
    BY <1>3, <2>1 DEF ClaimCommit, ClaimUnpaused
  <2>2. CASE ~(\E w \in Workers : ClaimCommit(w))
    BY <1>3, <2>2, OnlyClaimsStart DEF NothingStarts
  <2> QED
    BY <2>1, <2>2
<1> QED
  BY <1>1, <1>2, <1>3, PTL DEF Spec, NoStartWhilePaused
-----------------------------------------------------------------------------
(* Layer 3: admission.  What enqueue has counted, PENDING rows, is not      *)
(* stable while it holds the lock: recovery and the operator's retries make *)
(* rows PENDING without it.  The rows nobody has claimed yet are: only an   *)
(* insert adds one.                                                         *)

\* A row that a worker has started counts an attempt, so it is never Fresh again.
StartedInv ==
    /\ \A j \in Jobs : status[j] = "RUNNING" => attempts[j] # 0
    /\ \A w \in Workers : wpc[w] \in {"claimed", "working"} => attempts[wjob[w]] # 0

\* Unclaimed rows of a repository, and the ones the supersede update leaves.
FreshIn(repo) == {j \in Fresh : RepositoryOf(j) = repo}
Staying(r) == Fresh \ Superseded(r)
StayingIn(r) == FreshIn(RepoOf[r.pull]) \ Superseded(r)

\* An admission under way still has the room it has found.
AdmissionRoom ==
    \A e \in Webs : ereq[e] # None =>
        /\ Cardinality(Staying(ereq[e])) < MaxPending
        /\ Cardinality(StayingIn(ereq[e])) < MaxRepoPending

AdmissionInv ==
    /\ TypeInv /\ LockInv /\ StartedInv /\ AdmissionRoom
    /\ FreshWithinCapacity /\ OneFreshAutoPerPull

LEMMA StartedStep ==
    ASSUME TypeInv, StartedInv, [Next]_vars
    PROVE  StartedInv'
<1> USE DEF TypeInv, RowTypes, WorkerTypes, StartedInv
<1>1. ASSUME NEW w \in Workers, Start(w) PROVE StartedInv'
  BY <1>1 DEF Start, RecoverStale, Leave
<1>2. ASSUME NEW w \in Workers, NEW j \in Jobs, ClaimSelect(w, j) PROVE StartedInv'
  BY <1>2 DEF ClaimSelect
<1>3. ASSUME NEW w \in Workers, ClaimCommit(w) PROVE StartedInv'
  <2>1. wjob[w] \in Jobs
    BY <1>3, BusyJob DEF ClaimCommit, Busy
  <2>2. \A j \in Jobs : attempts'[j] = IF j = wjob[w] THEN attempts[j] + 1 ELSE attempts[j]
    BY <1>3, <2>1 DEF ClaimCommit
  <2>3. \A j \in Jobs : attempts[j] # 0 => attempts'[j] # 0
    BY <2>2
  <2>4. attempts'[wjob[w]] # 0
    BY <2>1, <2>2
  <2>5. \A v \in Workers : wpc[v] \in {"claimed", "working"} => wjob[v] \in Jobs
    BY BusyJob DEF Busy
  <2> QED
    BY <1>3, <2>1, <2>3, <2>4, <2>5 DEF ClaimCommit
<1>4. ASSUME NEW w \in Workers,
             Bind(w) \/ Succeed(w) \/ Skip(w) \/ Fail(w) \/ Requeue(w) \/ Cancel(w) \/ Crash(w)
      PROVE  StartedInv'
  BY <1>4 DEF Bind, Succeed, Skip, Fail, Requeue, Cancel, Crash, Write, Leave
<1>5. ASSUME NEW e \in Webs, WebStep(e) PROVE StartedInv'
  BY <1>5 DEF WebStep, EnqueueBegin, EnqueueCommit, EnqueueRollback, Insert
<1>6. CASE WatchdogRecover \/ WatchdogFailPending
  BY <1>6 DEF WatchdogRecover, WatchdogFailPending, RecoverStale
<1>7. ASSUME NEW j \in Jobs, Retry(j) \/ SkipPending(j) \/ GoStale(j) PROVE StartedInv'
  BY <1>7 DEF Retry, SkipPending, GoStale, Insert
<1>8. CASE \/ \E b \in BOOLEAN : SetPaused(b)
           \/ \E S \in SUBSET Repos : SetEnabled(S)
           \/ GoAncient \/ UNCHANGED vars
  BY <1>8 DEF SetPaused, SetEnabled, GoAncient, vars
<1> QED
  BY <1>1, <1>2, <1>3, <1>4, <1>5, <1>6, <1>7, <1>8 DEF Next, WorkerStep, Operator

\* Unclaimed rows have their columns.
LEMMA FreshRows ==
    ASSUME TypeInv, NEW j \in Fresh
    PROVE  j \in Jobs /\ j <= last /\ info[j] \in Info
BY LimitsAssumption DEF TypeInv, RowTypes, RowsExist, Fresh, WithStatus, Jobs

\* Apart from an admission no step makes a job wait unclaimed: a job that is put
\* back has been started, and a RETRY row is not counted.
KeepsFresh == \A j \in Fresh' : j \in Fresh /\ info'[j] = info[j]

LEMMA OnlyAdmissionsAdd ==
    ASSUME TypeInv, StartedInv, [Next]_vars, ~(\E e \in Webs : EnqueueCommit(e))
    PROVE  KeepsFresh
<1> SUFFICES ASSUME NEW j \in Jobs, status'[j] = "PENDING", attempts'[j] = 0,
                    info'[j].trigger # "RETRY"
             PROVE  status[j] = "PENDING" /\ attempts[j] = 0 /\ info'[j] = info[j]
  BY DEF KeepsFresh, Fresh, WithStatus
<1> DEFINE Kept == status[j] = "PENDING" /\ attempts[j] = 0 /\ info'[j] = info[j]
<1> USE DEF TypeInv, RowTypes, WorkerTypes
<1>1. ASSUME NEW w \in Workers, Start(w) PROVE Kept
  BY <1>1 DEF Start, RecoverStale, Requeueable, Overdue, WithStatus, StartedInv
<1>2. ASSUME NEW w \in Workers, ClaimCommit(w) PROVE Kept
  <2>1. wjob[w] \in Jobs /\ j # wjob[w]
    BY <1>2, BusyJob DEF ClaimCommit, Busy
  <2> QED
    BY <1>2, <2>1 DEF ClaimCommit
<1>3. ASSUME NEW w \in Workers, Succeed(w) \/ Skip(w) \/ Fail(w) \/ Requeue(w) \/ Cancel(w)
      PROVE  Kept
  BY <1>3 DEF Succeed, Skip, Fail, Requeue, Cancel, Write, StartedInv
<1>4. CASE WatchdogRecover \/ WatchdogFailPending
  BY <1>4 DEF WatchdogRecover, WatchdogFailPending, RecoverStale, Requeueable, Overdue, TooOld,
              WithStatus, StartedInv
<1>5. ASSUME NEW i \in Jobs, Retry(i) PROVE Kept
  <2>1. last + 1 \in Jobs
    BY <1>5, LimitsAssumption DEF Retry, Insert, Jobs
  <2>2. j # last + 1
    BY <1>5, <2>1 DEF Retry, Insert, RetryOf
  <2> QED
    BY <1>5, <2>2 DEF Retry, Insert
<1>6. ASSUME NEW i \in Jobs, SkipPending(i) PROVE Kept
  BY <1>6 DEF SkipPending
<1>7. CASE \/ \E w \in Workers : (\E i \in Jobs : ClaimSelect(w, i)) \/ Bind(w) \/ Crash(w)
           \/ \E e \in Webs : (\E r \in Requests : EnqueueBegin(e, r)) \/ EnqueueRollback(e)
           \/ \E b \in BOOLEAN : SetPaused(b)
           \/ \E S \in SUBSET Repos : SetEnabled(S)
           \/ \E i \in Jobs : GoStale(i)
           \/ GoAncient
           \/ UNCHANGED vars
  <2>1. UNCHANGED <<status, attempts, info>>
    BY <1>7 DEF ClaimSelect, Bind, Crash, EnqueueBegin, EnqueueRollback, SetPaused, SetEnabled,
                GoStale, GoAncient, vars
  <2> QED
    BY <2>1
<1> QED
  BY <1>1, <1>2, <1>3, <1>4, <1>5, <1>6, <1>7 DEF Next, WorkerStep, WebStep, Operator

\* Where nothing is admitted no count of unclaimed rows grows.
LEMMA FreshShrinks ==
    ASSUME KeepsFresh, NEW r, NEW repo
    PROVE  /\ Cardinality(Fresh') <= Cardinality(Fresh)
           /\ Cardinality(FreshIn(repo)') <= Cardinality(FreshIn(repo))
           /\ Cardinality(Staying(r)') <= Cardinality(Staying(r))
           /\ Cardinality(StayingIn(r)') <= Cardinality(StayingIn(r))
           /\ Cardinality(Fresh) \in Nat /\ Cardinality(Fresh') \in Nat
           /\ Cardinality(FreshIn(repo)) \in Nat /\ Cardinality(FreshIn(repo)') \in Nat
           /\ Cardinality(Staying(r)) \in Nat /\ Cardinality(Staying(r)') \in Nat
           /\ Cardinality(StayingIn(r)) \in Nat /\ Cardinality(StayingIn(r)') \in Nat
<1>1. Fresh' \subseteq Fresh
  BY DEF KeepsFresh
<1>2. \A j \in Fresh' : RepositoryOf(j)' = RepositoryOf(j) /\ (j \in Superseded(r)' <=> j \in Superseded(r))
  BY DEF KeepsFresh, RepositoryOf, Superseded, Fresh, WithStatus
<1>3. \A x : FreshIn(x)' \subseteq FreshIn(x)
  BY <1>1, <1>2 DEF FreshIn
<1>4. Staying(r)' \subseteq Staying(r)
  BY <1>1, <1>2 DEF Staying
<1>5. StayingIn(r)' \subseteq StayingIn(r)
  BY <1>1, <1>2 DEF StayingIn, FreshIn
<1>6. Fresh \in SUBSET Jobs /\ Fresh' \in SUBSET Jobs
  BY DEF Fresh, WithStatus
<1>7. /\ FreshIn(repo) \in SUBSET Jobs /\ FreshIn(repo)' \in SUBSET Jobs
      /\ Staying(r) \in SUBSET Jobs /\ Staying(r)' \in SUBSET Jobs
      /\ StayingIn(r) \in SUBSET Jobs /\ StayingIn(r)' \in SUBSET Jobs
  BY <1>6 DEF FreshIn, Staying, StayingIn
<1>8. /\ Cardinality(Fresh') <= Cardinality(Fresh)
      /\ Cardinality(Fresh) \in Nat /\ Cardinality(Fresh') \in Nat
  BY <1>1, <1>6, Rows
<1>9. /\ Cardinality(FreshIn(repo)') <= Cardinality(FreshIn(repo))
      /\ Cardinality(FreshIn(repo)) \in Nat /\ Cardinality(FreshIn(repo)') \in Nat
  BY <1>3, <1>7, Rows
<1>10. /\ Cardinality(Staying(r)') <= Cardinality(Staying(r))
       /\ Cardinality(Staying(r)) \in Nat /\ Cardinality(Staying(r)') \in Nat
  BY <1>4, <1>7, Rows
<1>11. /\ Cardinality(StayingIn(r)') <= Cardinality(StayingIn(r))
       /\ Cardinality(StayingIn(r)) \in Nat /\ Cardinality(StayingIn(r)') \in Nat
  BY <1>5, <1>7, Rows
<1> QED
  BY <1>8, <1>9, <1>10, <1>11

\* An admission adds its row to the unclaimed rows that stay.
LEMMA AdmissionAdds ==
    ASSUME TypeInv, NEW e \in Webs, EnqueueCommit(e)
    PROVE  /\ last + 1 \in Jobs /\ last + 1 \notin Fresh
           /\ info'[last + 1] = ereq[e]
           /\ Fresh' \subseteq Staying(ereq[e]) \cup {last + 1}
           /\ \A j \in Jobs : j # last + 1 => info'[j] = info[j]
<1> USE DEF TypeInv, RowTypes
<1>1. last + 1 \in Jobs
  BY LimitsAssumption DEF EnqueueCommit, Insert, Jobs
<1>2. info'[last + 1] = ereq[e] /\ \A j \in Jobs : j # last + 1 => info'[j] = info[j]
  BY <1>1 DEF EnqueueCommit, Insert
<1>3. \A j \in Fresh' : j # last + 1 => j \in Staying(ereq[e])
  BY <1>2 DEF EnqueueCommit, Insert, Fresh, WithStatus, Staying
<1>4. last + 1 \notin Fresh
  BY FreshRows
<1> QED
  BY <1>1, <1>2, <1>3, <1>4

\* One more row where a count was below its limit.
LEMMA OneMoreRow ==
    ASSUME NEW S \in SUBSET Jobs, NEW T \in SUBSET Jobs, NEW x \in Jobs, S \subseteq T \cup {x},
           NEW n \in Nat, Cardinality(T) < n
    PROVE  Cardinality(S) <= n
<1>1. IsFiniteSet(T) /\ Cardinality(T) \in Nat
  BY Rows
<1>2. Cardinality(T \cup {x}) = Cardinality(T) \/ Cardinality(T \cup {x}) = Cardinality(T) + 1
  BY <1>1, FS_AddElement
<1>3. T \cup {x} \in SUBSET Jobs
  OBVIOUS
<1>4. Cardinality(S) <= Cardinality(T \cup {x}) /\ Cardinality(S) \in Nat
  BY <1>3, Rows
<1> QED
  BY <1>1, <1>2, <1>4

\* The commit of an admission keeps both capacities.
LEMMA AdmissionFits ==
    ASSUME AdmissionInv, NEW e \in Webs, EnqueueCommit(e)
    PROVE  FreshWithinCapacity'
<1> DEFINE r == ereq[e]
<1> USE DEF AdmissionInv
<1>1. /\ last + 1 \in Jobs /\ info'[last + 1] = r
      /\ Fresh' \subseteq Staying(r) \cup {last + 1}
      /\ \A j \in Jobs : j # last + 1 => info'[j] = info[j]
  BY AdmissionAdds
<1>2. Cardinality(Staying(r)) < MaxPending /\ Cardinality(StayingIn(r)) < MaxRepoPending
  BY DEF AdmissionRoom, EnqueueCommit
<1>3. Fresh' \in SUBSET Jobs /\ Fresh \in SUBSET Jobs
  BY DEF Fresh, WithStatus
<1>4. Staying(r) \in SUBSET Jobs /\ StayingIn(r) \in SUBSET Jobs
  BY <1>3 DEF Staying, StayingIn, FreshIn
<1>5. Cardinality(Fresh') <= MaxPending
  BY <1>1, <1>2, <1>3, <1>4, OneMoreRow, LimitsAssumption
<1>6. PICK new \in Jobs : new = last + 1 /\ RepositoryOf(new)' = RepoOf[r.pull]
  BY <1>1 DEF RepositoryOf
<1>7. \A j \in Jobs : j # last + 1 => RepositoryOf(j)' = RepositoryOf(j)
  BY <1>1 DEF RepositoryOf
<1>8. ASSUME NEW repo \in Repos PROVE Cardinality(FreshIn(repo)') <= MaxRepoPending
  <2>1. FreshIn(repo)' \in SUBSET Jobs /\ FreshIn(repo) \in SUBSET Jobs
    BY <1>3 DEF FreshIn
  <2>2. CASE repo = RepoOf[r.pull]
    <3>1. FreshIn(repo)' \subseteq StayingIn(r) \cup {last + 1}
      BY <1>1, <1>3, <1>7, <2>2 DEF FreshIn, Staying, StayingIn
    <3> QED
      BY <1>1, <1>2, <1>4, <2>1, <3>1, OneMoreRow, LimitsAssumption
  <2>3. CASE repo # RepoOf[r.pull]
    <3>1. FreshIn(repo)' \subseteq FreshIn(repo)
      BY <1>1, <1>3, <1>6, <1>7, <2>3 DEF FreshIn, Staying
    <3>2. Cardinality(FreshIn(repo)) <= MaxRepoPending
      BY DEF FreshWithinCapacity, FreshIn
    <3> QED
      BY <2>1, <3>1, <3>2, Rows, LimitsAssumption
  <2> QED
    BY <2>2, <2>3
<1> QED
  BY <1>5, <1>8 DEF FreshWithinCapacity, FreshIn

\* The commit of an AUTO admission leaves no other unclaimed AUTO row of its pull
\* request: those of another head are superseded, one of its head is refused.
LEMMA AdmissionReplaces ==
    ASSUME AdmissionInv, NEW e \in Webs, EnqueueCommit(e)
    PROVE  OneFreshAutoPerPull'
<1> DEFINE r == ereq[e]
<1> USE DEF AdmissionInv
<1>1. /\ last + 1 \in Jobs /\ info'[last + 1] = r
      /\ Fresh' \subseteq Staying(r) \cup {last + 1}
      /\ \A j \in Jobs : j # last + 1 => info'[j] = info[j]
  BY AdmissionAdds
<1>2. \A j \in Staying(r) : j \in Fresh /\ j \in 1..last /\ j \in Jobs /\ j # last + 1
  BY FreshRows DEF Staying, TypeInv, RowTypes, Jobs
<1>3. ASSUME NEW j \in Staying(r), info[j].trigger = "AUTO", r.trigger = "AUTO", info[j].pull = r.pull
      PROVE  FALSE
  <2>1. info[j].head = r.head
    BY <1>2, <1>3 DEF Staying, Superseded, Fresh
  <2>2. ~(info[j].trigger = r.trigger /\ SameHead(info[j], r))
    BY <1>2, <1>3 DEF EnqueueCommit, Unique
  <2> QED
    BY <1>3, <2>1, <2>2 DEF SameHead
<1> SUFFICES ASSUME NEW i \in Fresh', NEW j \in Fresh', info'[i].trigger = "AUTO",
                    info'[j].trigger = "AUTO", info'[i].pull = info'[j].pull
             PROVE  i = j
  BY DEF OneFreshAutoPerPull
<1>4. CASE i \in Staying(r) /\ j \in Staying(r)
  BY <1>1, <1>2, <1>4 DEF OneFreshAutoPerPull
<1>5. CASE i = last + 1 \/ j = last + 1
  BY <1>1, <1>2, <1>3, <1>5
<1> QED
  BY <1>1, <1>4, <1>5

\* The room an admission has found is still there: only its holder of the lock
\* admits.
LEMMA RoomStep ==
    ASSUME AdmissionInv, [Next]_vars
    PROVE  AdmissionRoom'
<1> USE DEF AdmissionInv
<1> SUFFICES ASSUME NEW e \in Webs, ereq'[e] # None
             PROVE  /\ Cardinality(Staying(ereq[e]))' < MaxPending
                    /\ Cardinality(StayingIn(ereq[e]))' < MaxRepoPending
  BY DEF AdmissionRoom
<1>1. ASSUME NEW d \in Webs, EnqueueCommit(d) PROVE FALSE
  BY <1>1, LockStep, SetsAssumption DEF EnqueueCommit, LockInv
<1>2. KeepsFresh
  BY <1>1, OnlyAdmissionsAdd
<1>3. CASE ereq'[e] = ereq[e]
  <2>1. Cardinality(Staying(ereq[e])) < MaxPending /\ Cardinality(StayingIn(ereq[e])) < MaxRepoPending
    BY <1>3 DEF AdmissionRoom
  <2>2. PICK r : r = ereq[e]
    OBVIOUS
  <2>3. Cardinality(Staying(r)') < MaxPending /\ Cardinality(StayingIn(r)') < MaxRepoPending
    BY <1>2, <2>1, <2>2, FreshShrinks, LimitsAssumption
  <2> QED
    BY <1>3, <2>2, <2>3 DEF Staying, StayingIn, FreshIn, Superseded
<1>4. CASE ereq'[e] # ereq[e]
  <2>1. PICK r \in Requests : EnqueueBegin(e, r)
    <3>1. ASSUME NEW d \in Webs, NEW r \in Requests, EnqueueBegin(d, r) PROVE d = e
      BY <1>4, <3>1 DEF EnqueueBegin, TypeInv, OtherTypes
    <3>2. ASSUME NEW d \in Webs, EnqueueRollback(d) PROVE FALSE
      BY <1>4, <3>2 DEF EnqueueRollback, TypeInv, OtherTypes
    <3>3. ~ (ereq' = ereq)
      BY <1>4
    <3> QED
      BY <1>1, <3>1, <3>2, <3>3
         DEF Next, WorkerStep, WebStep, Operator, vars, Start, ClaimSelect, ClaimCommit, Bind,
             Succeed, Skip, Fail, Requeue, Cancel, Crash, Write, WatchdogRecover,
             WatchdogFailPending, Retry, SkipPending, SetPaused, SetEnabled, GoStale, GoAncient
  <2>2. ereq'[e] = r /\ HasCapacity(r) /\ status' = status /\ info' = info /\ attempts' = attempts
    BY <2>1 DEF EnqueueBegin, TypeInv, OtherTypes
  <2>3. Staying(r)' = Staying(r) /\ StayingIn(r)' = StayingIn(r)
    BY <2>2 DEF Staying, StayingIn, FreshIn, Fresh, Superseded, WithStatus, RepositoryOf
  <2> DEFINE waiting == WithStatus("PENDING") \ Superseded(r)
             here == WithStatusIn("PENDING", RepoOf[r.pull]) \ Superseded(r)
  <2>4. /\ Staying(r) \subseteq waiting /\ StayingIn(r) \subseteq here
        /\ waiting \in SUBSET Jobs /\ here \in SUBSET Jobs
        /\ Staying(r) \in SUBSET Jobs /\ StayingIn(r) \in SUBSET Jobs
    BY DEF Staying, StayingIn, FreshIn, Fresh, WithStatusIn, WithStatus
  <2>5. Cardinality(waiting) < MaxPending /\ Cardinality(here) < MaxRepoPending
    BY <2>2 DEF HasCapacity
  <2> HIDE DEF waiting, here
  <2>6. Cardinality(Staying(r)) < MaxPending /\ Cardinality(StayingIn(r)) < MaxRepoPending
    BY <2>4, <2>5, Rows, LimitsAssumption
  <2> QED
    BY <2>2, <2>3, <2>6 DEF Staying, StayingIn, FreshIn, Superseded
<1> QED
  BY <1>3, <1>4

\* Without an admission nothing is added to either set.
LEMMA OtherStepsFit ==
    ASSUME AdmissionInv, KeepsFresh
    PROVE  FreshWithinCapacity' /\ OneFreshAutoPerPull'
<1> USE DEF AdmissionInv
<1>1. Cardinality(Fresh') <= MaxPending
  BY FreshShrinks, LimitsAssumption DEF FreshWithinCapacity
<1>2. ASSUME NEW repo \in Repos PROVE Cardinality(FreshIn(repo)') <= MaxRepoPending
  <2>1. Cardinality(FreshIn(repo)) <= MaxRepoPending
    BY DEF FreshWithinCapacity, FreshIn
  <2> QED
    BY <2>1, FreshShrinks, LimitsAssumption
<1>3. FreshWithinCapacity'
  BY <1>1, <1>2 DEF FreshWithinCapacity, FreshIn
<1>4. OneFreshAutoPerPull'
  BY DEF OneFreshAutoPerPull, KeepsFresh
<1> QED
  BY <1>3, <1>4

LEMMA AdmissionInit == Init => AdmissionInv
<1> SUFFICES ASSUME Init PROVE AdmissionInv
  OBVIOUS
<1>1. TypeInv /\ LockInv
  BY TypeInit, LimitsInit DEF LimitsInv
<1>2. StartedInv /\ AdmissionRoom
  BY DEF Init, StartedInv, AdmissionRoom
<1>3. Fresh = {}
  BY DEF Init, Fresh, WithStatus
<1>4. FreshWithinCapacity /\ OneFreshAutoPerPull
  BY <1>3, FS_EmptySet, LimitsAssumption DEF FreshWithinCapacity, OneFreshAutoPerPull
<1> QED
  BY <1>1, <1>2, <1>4 DEF AdmissionInv

LEMMA AdmissionStep ==
    ASSUME AdmissionInv, [Next]_vars
    PROVE  AdmissionInv'
<1> USE DEF AdmissionInv
<1>1. TypeInv' /\ LockInv' /\ StartedInv' /\ AdmissionRoom'
  BY TypeStep, LockStep, StartedStep, RoomStep
<1>2. CASE \E e \in Webs : EnqueueCommit(e)
  BY <1>1, <1>2, AdmissionFits, AdmissionReplaces
<1>3. CASE ~(\E e \in Webs : EnqueueCommit(e))
  BY <1>1, <1>3, OnlyAdmissionsAdd, OtherStepsFit
<1> QED
  BY <1>2, <1>3

\* Webhooks admitted at the same time never fill the queue beyond
\* max_pending_jobs or max_repository_pending_jobs, whatever recovery, the
\* watchdog and the operator do to the rows in between.
THEOREM CapacityHolds == Spec => []FreshWithinCapacity
<1>1. AdmissionInv /\ [Next]_vars => AdmissionInv'
  BY AdmissionStep
<1>2. AdmissionInv => FreshWithinCapacity
  BY DEF AdmissionInv
<1> QED
  BY <1>1, <1>2, AdmissionInit, PTL DEF Spec

\* At most one unclaimed AUTO job of a pull request waits, however the webhooks
\* of its heads interleave.
THEOREM NewHeadReplaces == Spec => []OneFreshAutoPerPull
<1>1. AdmissionInv /\ [Next]_vars => AdmissionInv'
  BY AdmissionStep
<1>2. AdmissionInv => OneFreshAutoPerPull
  BY DEF AdmissionInv
<1> QED
  BY <1>1, <1>2, AdmissionInit, PTL DEF Spec
=============================================================================
