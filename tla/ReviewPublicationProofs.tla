---------------------- MODULE ReviewPublicationProofs ----------------------
\* Proofs about the other half of ReviewService, from the answers of the executor
\* to the Review on GitHub: its types, what a Review rests on, and, where one job
\* of a repository runs at a time, that jobs of one head do not repeat each
\* other's Review.

EXTENDS ReviewServiceProofs

\* One Review more, counted against the lost answers and the heads.
LEMMA OneMore ==
    ASSUME NEW n \in Nat, NEW r \in Nat, NEW l \in Nat, NEW c \in Nat, NEW s \in Nat, NEW m \in Nat,
           n + r <= l + c, m = l \/ m = l + 1
    PROVE  /\ s <= r + 1 /\ (m = l => s = r) => n + 1 + s <= m + (c + 1)
           /\ s <= r /\ (m = l => s + 1 = r) => n + 1 + s <= m + c
  OBVIOUS

USE ServiceAssumption
USE DEF Quiet, Local, rows, world, executor

-----------------------------------------------------------------------------
\* Types, and the attempts of a job.

Statuses == {"PENDING", "RUNNING", "SUCCEEDED", "SKIPPED", "FAILED"}
Review == [pull : Pulls, head : Heads, by : Jobs]

RowTypes ==
    /\ pull \in [Jobs -> Pulls] /\ head \in [Jobs -> Heads]
    /\ tip \in [Pulls -> Heads]
    /\ reviews \in Seq(Review)
    /\ status \in [Jobs -> Statuses] /\ attempts \in [Jobs -> Nat]
    /\ saved \in [Jobs -> BOOLEAN] /\ gid \in [Jobs -> 0..Len(reviews)]
    /\ tries \in [Jobs -> 1..PostAttempts] /\ found \in [Jobs -> 0..Len(reviews)]
    /\ lost \in 0..MaxLost /\ crashes \in 0..MaxCrashes

\* The row of a job that a worker is at, and of no other, is RUNNING.  An attempt
\* past the limit is one that an end of the worker gave back.
Row(j) ==
    /\ status[j] = "RUNNING" <=> pc[j] # "idle"
    /\ attempts[j] <= MaxAttempts + crashes
    /\ status[j] = "PENDING" => attempts[j] < MaxAttempts + crashes

RowsInv == RowTypes /\ \A j \in Jobs : Row(j)

\* What a step of a worker does to the row: the worker goes on, or leaves it.
GoesOn(j) ==
    /\ status' = status
    /\ pc' = pc \/ \E l \in Pcs \ {"idle", "down", "gate"} : Goto(j, l)
    /\ \/ tries' = tries
       \/ \E t \in 1..PostAttempts : tries' = [tries EXCEPT ![j] = t]
    /\ \/ found' = found
       \/ \E n \in 0..Len(reviews') : found' = [found EXCEPT ![j] = n]

StopsAt(j) ==
    \E s \in Statuses \ {"RUNNING"} :
        Stop(j, s) /\ (s = "PENDING" => attempts[j] < MaxAttempts)

LEMMA ErrorStopsAt ==
    ASSUME NEW j \in Jobs, NEW r \in BOOLEAN, AfterError(j, r)
    PROVE  StopsAt(j)
  BY DEF AfterError, StopsAt, Statuses

LEMMA AgainMoves ==
    ASSUME RowTypes, NEW j \in Jobs, Again(j)
    PROVE  GoesOn(j) \/ StopsAt(j)
<1>1. CASE tries[j] < PostAttempts
  <2>1. /\ status' = status /\ pc' = pc /\ found' = found
        /\ tries' = [tries EXCEPT ![j] = tries[j] + 1]
    BY <1>1 DEF Again
  <2>2. tries[j] + 1 \in 1..PostAttempts
    <3>1. PICK t \in 1..PostAttempts : t = tries[j]
      BY DEF RowTypes
    <3>2. PostAttempts \in Nat
      OBVIOUS
    <3> QED
      BY <1>1, <3>1, <3>2, SMTT(30)
  <2> QED
    BY <2>1, <2>2 DEF GoesOn
<1>2. CASE ~(tries[j] < PostAttempts)
  <2>1. AfterError(j, TRUE)
    BY <1>2 DEF Again
  <2> QED
    BY <2>1, ErrorStopsAt
<1> QED
  BY <1>1, <1>2

\* The Reviews grow by one of the job's, or stay.
LEMMA CreatedTypes ==
    ASSUME RowTypes, NEW j \in Jobs, Created(j)
    PROVE  /\ reviews' \in Seq(Review)
           /\ Len(reviews') = Len(reviews) + 1
           /\ \A n \in 1..Len(reviews) : reviews'[n] = reviews[n]
           /\ reviews'[Len(reviews) + 1] = [pull |-> pull[j], head |-> head[j], by |-> j]
<1> DEFINE r == [pull |-> pull[j], head |-> head[j], by |-> j]
<1>1. r \in Review
  BY DEF RowTypes, Review
<1>2. reviews' = Append(reviews, r) /\ reviews \in Seq(Review)
  BY DEF Created, RowTypes
<1> HIDE DEF r
<1>3. /\ reviews' \in Seq(Review)
      /\ Len(reviews') = Len(reviews) + 1
      /\ \A n \in 1..Len(reviews) : reviews'[n] = reviews[n]
      /\ reviews'[Len(reviews) + 1] = r
  BY <1>1, <1>2
<1> QED
  BY <1>3 DEF r

\* The shape of a worker's step.
Shape(j) ==
    /\ pull' = pull /\ head' = head /\ tip' = tip /\ attempts' = attempts
    /\ crashes' = crashes
    /\ GoesOn(j) \/ StopsAt(j)
    /\ \/ saved' = saved
       \/ saved' = [saved EXCEPT ![j] = TRUE]
    /\ \/ gid' = gid
       \/ gid' = [gid EXCEPT ![j] = found[j]]
    /\ \/ reviews' = reviews /\ lost' = lost
       \/ Created(j) /\ lost' = lost
       \/ Created(j) /\ lost < MaxLost /\ lost' = lost + 1

LEMMA WorkShape ==
    ASSUME RowsInv, NEW j \in Jobs, Work(j)
    PROVE  Shape(j) /\ pc[j] \notin {"idle", "down"}
<1>0. RowTypes
  BY DEF RowsInv
<1>1. CASE Gate(j) \/ Unreviewable(j) \/ ResumePass(j) \/ CountBudget(j) \/ Reserve(j)
  <2>1. /\ pull' = pull /\ head' = head /\ tip' = tip /\ attempts' = attempts
        /\ crashes' = crashes /\ saved' = saved /\ gid' = gid /\ reviews' = reviews /\ lost' = lost
        /\ pc[j] \notin {"idle", "down"}
    BY <1>1 DEF Gate, Unreviewable, ResumePass, CountBudget, Reserve, AtPass
  <2>2. \/ Stop(j, "SKIPPED") \/ Stop(j, "FAILED")
        \/ /\ status' = status /\ tries' = tries /\ found' = found
           /\ \/ Goto(j, "pass") \/ Goto(j, "call") \/ Goto(j, "reserve")
    BY <1>1 DEF Gate, Unreviewable, ResumePass, CountBudget, Reserve, NextPass
  <2>3. GoesOn(j) \/ StopsAt(j)
    BY <2>2, SMTT(30) DEF GoesOn, StopsAt, Pcs, Statuses
  <2> QED
    BY <2>1, <2>3 DEF Shape
<1>2. CASE ReadFails(j)
  <2>1. /\ pull' = pull /\ head' = head /\ tip' = tip /\ attempts' = attempts
        /\ crashes' = crashes /\ saved' = saved /\ gid' = gid /\ reviews' = reviews /\ lost' = lost
        /\ pc[j] \notin {"idle", "down"}
    BY <1>2 DEF ReadFails
  <2>2. StopsAt(j)
    BY <1>2, ErrorStopsAt DEF ReadFails
  <2> QED
    BY <2>1, <2>2 DEF Shape
<1>3. CASE Call(j) \/ NoCall(j) \/ Answered(j) \/ TimesOut(j)
  <2>1. /\ pull' = pull /\ head' = head /\ tip' = tip /\ attempts' = attempts
        /\ crashes' = crashes /\ saved' = saved /\ gid' = gid /\ reviews' = reviews /\ lost' = lost
        /\ pc[j] \notin {"idle", "down"}
    BY <1>3 DEF Call, NoCall, Answered, TimesOut
  <2>2. \/ Stop(j, "FAILED")
        \/ /\ status' = status /\ tries' = tries /\ found' = found
           /\ \/ Goto(j, "pass") \/ Goto(j, "answer")
    BY <1>3 DEF Call, NoCall, Answered, TimesOut, NextPass
  <2>3. GoesOn(j) \/ StopsAt(j)
    BY <2>2, SMTT(30) DEF GoesOn, StopsAt, Pcs, Statuses
  <2> QED
    BY <2>1, <2>3 DEF Shape
<1>4. CASE Persist(j) \/ Recheck(j) \/ Look(j) \/ Record(j) \/ Finish(j)
  <2>1. /\ pull' = pull /\ head' = head /\ tip' = tip /\ attempts' = attempts
        /\ crashes' = crashes /\ reviews' = reviews /\ lost' = lost
        /\ saved' = saved \/ saved' = [saved EXCEPT ![j] = TRUE]
        /\ gid' = gid \/ gid' = [gid EXCEPT ![j] = found[j]]
        /\ pc[j] \notin {"idle", "down"}
    BY <1>4 DEF Persist, Recheck, Look, Record, Finish
  <2>2. \/ Stop(j, "SKIPPED") \/ Stop(j, "SUCCEEDED")
        \/ /\ status' = status /\ tries' = tries /\ found' = found
           /\ \/ Goto(j, "recheck") \/ Goto(j, "look") \/ Goto(j, "record") \/ Goto(j, "list")
              \/ Goto(j, "finish")
    BY <1>4 DEF Persist, Recheck, Look, Record, Finish
  <2>3. GoesOn(j) \/ StopsAt(j)
    BY <2>2, SMTT(30) DEF GoesOn, StopsAt, Pcs, Statuses
  <2> QED
    BY <2>1, <2>3 DEF Shape
<1>5. CASE List(j)
  <2>1. /\ pull' = pull /\ head' = head /\ tip' = tip /\ attempts' = attempts /\ status' = status
        /\ crashes' = crashes /\ saved' = saved /\ gid' = gid /\ reviews' = reviews /\ lost' = lost
        /\ tries' = tries /\ pc[j] \notin {"idle", "down"}
        /\ \/ Goto(j, "post") \/ Goto(j, "record")
    BY <1>5 DEF List
  <2>2. found' = found \/ \E n \in Marked(j) : found' = [found EXCEPT ![j] = n]
    BY <1>5 DEF List
  <2>3. \A n \in Marked(j) : n \in 0..Len(reviews')
    BY <1>0, <2>1 DEF Marked, RowTypes
  <2>4. GoesOn(j)
    BY <2>1, <2>2, <2>3 DEF GoesOn, Pcs
  <2> QED
    BY <2>1, <2>4 DEF Shape
<1>6. CASE Post(j)
  <2>1. /\ pull' = pull /\ head' = head /\ tip' = tip /\ attempts' = attempts /\ status' = status
        /\ crashes' = crashes /\ saved' = saved /\ gid' = gid /\ Created(j) /\ lost' = lost
        /\ tries' = tries /\ pc[j] \notin {"idle", "down"}
        /\ Goto(j, "record") /\ found' = [found EXCEPT ![j] = Len(reviews) + 1]
    BY <1>6 DEF Post, Posting
  <2>2. Len(reviews) + 1 \in 0..Len(reviews')
    <3>1. Len(reviews') = Len(reviews) + 1
      BY <1>0, <2>1, CreatedTypes
    <3>2. Len(reviews) \in Nat
      BY <1>0 DEF RowTypes
    <3> QED
      BY <3>1, <3>2
  <2>3. GoesOn(j)
    BY <2>1, <2>2 DEF GoesOn, Pcs
  <2> QED
    BY <2>1, <2>3, Zenon DEF Shape
<1>7. CASE PostLost(j) \/ PostFails(j)
  <2>1. /\ pull' = pull /\ head' = head /\ tip' = tip /\ attempts' = attempts
        /\ crashes' = crashes /\ saved' = saved /\ gid' = gid
        /\ \/ reviews' = reviews /\ lost' = lost
           \/ Created(j) /\ lost < MaxLost /\ lost' = lost + 1
        /\ pc[j] \notin {"idle", "down"} /\ Again(j)
    BY <1>7 DEF PostLost, PostFails, Posting
  <2>2. GoesOn(j) \/ StopsAt(j)
    BY <1>0, <2>1, AgainMoves
  <2> QED
    BY <2>1, <2>2 DEF Shape
<1>8. CASE PostRefused(j)
  <2>1. /\ pull' = pull /\ head' = head /\ tip' = tip /\ attempts' = attempts
        /\ crashes' = crashes /\ saved' = saved /\ gid' = gid /\ reviews' = reviews /\ lost' = lost
        /\ pc[j] \notin {"idle", "down"}
    BY <1>8 DEF PostRefused, Posting
  <2>2. \/ Stop(j, "FAILED")
        \/ /\ status' = status /\ tries' = [tries EXCEPT ![j] = 1] /\ found' = found
           /\ Goto(j, "fallback")
    BY <1>8 DEF PostRefused
  <2>4. 1 \in 1..PostAttempts
    OBVIOUS
  <2>3. GoesOn(j) \/ StopsAt(j)
    BY <2>2, <2>4, SMTT(30) DEF GoesOn, StopsAt, Pcs, Statuses
  <2> QED
    BY <2>1, <2>3 DEF Shape
<1> QED
  BY <1>1, <1>2, <1>3, <1>4, <1>5, <1>6, <1>7, <1>8 DEF Work

LEMMA ShapeTypes ==
    ASSUME RowTypes, NEW j \in Jobs, Shape(j)
    PROVE  RowTypes'
<1>1. /\ reviews' \in Seq(Review) /\ Len(reviews) \in Nat /\ Len(reviews') \in Nat
      /\ Len(reviews') >= Len(reviews)
  <2>1. Len(reviews) \in Nat /\ reviews \in Seq(Review)
    BY DEF RowTypes
  <2>2. CASE reviews' = reviews
    BY <2>1, <2>2
  <2>3. CASE Created(j)
    <3>1. reviews' \in Seq(Review) /\ Len(reviews') = Len(reviews) + 1
      BY <2>3, CreatedTypes
    <3> QED
      BY <2>1, <3>1
  <2> QED
    BY <2>2, <2>3 DEF Shape
<1>2. 0..Len(reviews) \subseteq 0..Len(reviews')
  BY <1>1, SMTT(30)
<1>3. gid' \in [Jobs -> 0..Len(reviews')]
  <2>1. gid' \in [Jobs -> 0..Len(reviews)]
    BY DEF RowTypes, Shape
  <2> QED
    BY <1>2, <2>1
<1>4. status' \in [Jobs -> Statuses] /\ tries' \in [Jobs -> 1..PostAttempts]
      /\ found' \in [Jobs -> 0..Len(reviews')]
  <2>1. found \in [Jobs -> 0..Len(reviews')]
    BY <1>2 DEF RowTypes
  <2>2. 1 \in 1..PostAttempts /\ 0 \in 0..Len(reviews')
    BY <1>1
  <2>3. CASE StopsAt(j)
    <3>1. PICK s \in Statuses : Stop(j, s)
      BY <2>3 DEF StopsAt
    <3>2. /\ status' = [status EXCEPT ![j] = s]
          /\ tries' = [tries EXCEPT ![j] = 1] /\ found' = [found EXCEPT ![j] = 0]
      BY <3>1 DEF Stop, Leave
    <3> QED
      BY <2>1, <2>2, <3>2, Zenon DEF RowTypes
  <2>4. CASE GoesOn(j)
    <3>1. status' \in [Jobs -> Statuses]
      BY <2>4 DEF GoesOn, RowTypes
    <3>2. tries' \in [Jobs -> 1..PostAttempts]
      BY <2>4, ZenonT(30) DEF GoesOn, RowTypes
    <3>3. found' \in [Jobs -> 0..Len(reviews')]
      BY <2>1, <2>4, Zenon DEF GoesOn
    <3> QED
      BY <3>1, <3>2, <3>3
  <2> QED
    BY <2>3, <2>4 DEF Shape
<1>5. saved' \in [Jobs -> BOOLEAN]
  BY Zenon DEF RowTypes, Shape
<1>6. lost' \in 0..MaxLost
  <2>1. lost \in 0..MaxLost /\ MaxLost \in Nat
    BY DEF RowTypes
  <2>2. lost' = lost \/ (lost < MaxLost /\ lost' = lost + 1)
    BY DEF Shape
  <2> QED
    BY <2>1, <2>2
<1>7. /\ pull' \in [Jobs -> Pulls] /\ head' \in [Jobs -> Heads] /\ tip' \in [Pulls -> Heads]
      /\ attempts' \in [Jobs -> Nat] /\ crashes' \in 0..MaxCrashes
  BY Zenon DEF RowTypes, Shape
<1> QED
  BY <1>1, <1>3, <1>4, <1>5, <1>6, <1>7, Zenon DEF RowTypes

LEMMA ShapeKeepsRows ==
    ASSUME RowsInv, Control, NEW j \in Jobs, Shape(j), pc[j] \notin {"idle", "down"}
    PROVE  RowsInv'
<1>0. /\ attempts \in [Jobs -> Nat] /\ crashes \in Nat /\ MaxAttempts \in Nat
      /\ attempts' = attempts /\ crashes' = crashes /\ status \in [Jobs -> Statuses]
  BY SMTT(30) DEF RowsInv, RowTypes, Shape
<1>1. RowTypes'
  BY ShapeTypes DEF RowsInv
<1>2. ASSUME NEW k \in Jobs PROVE Row(k)'
  <2>0. Row(k) /\ Row(j)
    BY DEF RowsInv
  <2>1. CASE StopsAt(j)
    <3>1. PICK s \in Statuses \ {"RUNNING"} :
             Stop(j, s) /\ (s = "PENDING" => attempts[j] < MaxAttempts)
      BY <2>1 DEF StopsAt
    <3>2. status' = [status EXCEPT ![j] = s] /\ pc' = [pc EXCEPT ![j] = "idle"]
      BY <3>1 DEF Stop, Goto
    <3>3. CASE k = j
      <4>1. status'[k] = s /\ pc'[k] = "idle"
        BY <1>0, <3>2, <3>3 DEF Control
      <4> QED
        BY <1>0, <2>0, <3>1, <3>3, <4>1, SMTT(30) DEF Row
    <3>4. CASE k # j
      <4>1. status'[k] = status[k] /\ pc'[k] = pc[k]
        BY <1>0, <3>2, <3>4 DEF Control
      <4> QED
        BY <1>0, <2>0, <4>1 DEF Row
    <3> QED
      BY <3>3, <3>4
  <2>2. CASE GoesOn(j)
    <3>1. status' = status
      BY <2>2 DEF GoesOn
    <3>2. pc'[k] # "idle" <=> pc[k] # "idle"
      BY <2>2 DEF GoesOn, Goto, Control
    <3> QED
      BY <1>0, <2>0, <3>1, <3>2 DEF Row
  <2> QED
    BY <2>1, <2>2 DEF Shape
<1> QED
  BY <1>1, <1>2 DEF RowsInv

LEMMA ClaimKeepsRows ==
    ASSUME RowsInv, Control, NEW j \in Jobs, Claim(j)
    PROVE  RowsInv'
<1>1. /\ status[j] = "PENDING" /\ status' = [status EXCEPT ![j] = "RUNNING"]
      /\ attempts' = [attempts EXCEPT ![j] = @ + 1] /\ pc' = [pc EXCEPT ![j] = "gate"]
      /\ pull' = pull /\ head' = head /\ tip' = tip /\ reviews' = reviews /\ saved' = saved
      /\ gid' = gid /\ tries' = tries /\ found' = found /\ lost' = lost /\ crashes' = crashes
  BY DEF Claim, Goto
<1>2. RowTypes'
  <2>1. status' \in [Jobs -> Statuses]
    BY <1>1 DEF RowsInv, RowTypes, Statuses
  <2>2. attempts' \in [Jobs -> Nat]
    <3>1. PICK a \in Nat : a = attempts[j]
      BY DEF RowsInv, RowTypes
    <3>2. attempts' = [attempts EXCEPT ![j] = a + 1] /\ a + 1 \in Nat
      BY <1>1, <3>1, SMTT(30)
    <3> QED
      BY <3>2, Zenon DEF RowsInv, RowTypes
  <2> QED
    BY <1>1, <2>1, <2>2, Zenon DEF RowsInv, RowTypes
<1>3. ASSUME NEW k \in Jobs PROVE Row(k)'
  <2>0. Row(k) /\ Row(j) /\ crashes \in Nat /\ MaxAttempts \in Nat /\ attempts \in [Jobs -> Nat]
        /\ status \in [Jobs -> Statuses]
    <3>1. crashes \in 0..MaxCrashes
      BY DEF RowsInv, RowTypes
    <3>2. crashes \in Nat /\ MaxAttempts \in Nat
      BY <3>1
    <3> QED
      BY <3>2, Zenon DEF RowsInv, RowTypes
  <2>1. CASE k = j
    <3>1. status'[k] = "RUNNING" /\ pc'[k] = "gate" /\ attempts'[k] = attempts[k] + 1
      BY <1>1, <2>0, <2>1 DEF Control
    <3> QED
      BY <1>1, <2>0, <2>1, <3>1 DEF Row
  <2>2. CASE k # j
    <3>1. status'[k] = status[k] /\ pc'[k] = pc[k] /\ attempts'[k] = attempts[k]
      BY <1>1, <2>0, <2>2 DEF Control
    <3> QED
      BY <1>1, <2>0, <3>1 DEF Row
  <2> QED
    BY <2>1, <2>2
<1> QED
  BY <1>2, <1>3 DEF RowsInv

LEMMA EndKeepsRows ==
    ASSUME RowsInv, Control, NEW j \in Jobs, Crash(j) \/ Cancel(j) \/ Recover(j)
    PROVE  RowsInv'
<1>1. /\ pull' = pull /\ head' = head /\ tip' = tip /\ reviews' = reviews /\ saved' = saved
      /\ attempts' = attempts /\ gid' = gid /\ lost' = lost
      /\ tries' = [tries EXCEPT ![j] = 1] /\ found' = [found EXCEPT ![j] = 0]
  BY DEF Crash, Cancel, Recover, Ends, Stop, Leave
<1>2. \/ crashes' = crashes
      \/ crashes < MaxCrashes /\ crashes' = crashes + 1
  BY DEF Crash, Cancel, Recover, Ends
<1>3. \/ status' = status /\ pc' = [pc EXCEPT ![j] = "down"] /\ pc[j] # "idle"
      \/ status' = [status EXCEPT ![j] = "FAILED"] /\ pc' = [pc EXCEPT ![j] = "idle"]
      \/ /\ status' = [status EXCEPT ![j] = "PENDING"] /\ pc' = [pc EXCEPT ![j] = "idle"]
         /\ crashes' = crashes + 1
  BY DEF Crash, Cancel, Recover, Ends, Stop, Goto
<1>4. crashes \in Nat /\ MaxCrashes \in Nat /\ crashes' \in 0..MaxCrashes /\ crashes' >= crashes
  <2>1. crashes \in 0..MaxCrashes /\ MaxCrashes \in Nat
    BY DEF RowsInv, RowTypes
  <2> QED
    BY <1>2, <2>1
<1>5. RowTypes'
  <2>1. status' \in [Jobs -> Statuses]
    BY <1>3 DEF RowsInv, RowTypes, Statuses
  <2>2. 1 \in 1..PostAttempts /\ 0 \in 0..Len(reviews)
    BY SMTT(30) DEF RowsInv, RowTypes
  <2>3. tries' \in [Jobs -> 1..PostAttempts] /\ found' \in [Jobs -> 0..Len(reviews)]
    BY <1>1, <2>2, Zenon DEF RowsInv, RowTypes
  <2> QED
    BY <1>1, <1>4, <2>1, <2>3, Zenon DEF RowsInv, RowTypes
<1>6. ASSUME NEW k \in Jobs PROVE Row(k)'
  <2>0. /\ Row(k) /\ Row(j) /\ MaxAttempts \in Nat /\ attempts \in [Jobs -> Nat]
        /\ status \in [Jobs -> Statuses]
    BY DEF RowsInv, RowTypes
  <2>1. CASE k = j
    <3>1. \/ status'[k] = status[k] /\ pc'[k] = "down" /\ pc[k] # "idle"
          \/ status'[k] = "FAILED" /\ pc'[k] = "idle"
          \/ status'[k] = "PENDING" /\ pc'[k] = "idle" /\ crashes' = crashes + 1
      BY <1>3, <2>0, <2>1 DEF Control
    <3> QED
      BY <1>1, <1>4, <2>0, <3>1, SMTT(30) DEF Row
  <2>2. CASE k # j
    <3>1. status'[k] = status[k] /\ pc'[k] = pc[k]
      BY <1>3, <2>0, <2>2 DEF Control
    <3> QED
      BY <1>1, <1>4, <2>0, <3>1, SMTT(30) DEF Row
  <2> QED
    BY <2>1, <2>2
<1> QED
  BY <1>5, <1>6 DEF RowsInv

LEMMA RowsStep == RowsInv /\ WorkerInv /\ [Next]_vars => RowsInv'
<1> SUFFICES ASSUME RowsInv, WorkerInv, [Next]_vars PROVE RowsInv'
  OBVIOUS
<1>0. Control
  BY DEF WorkerInv
<1>1. ASSUME NEW j \in Jobs, Claim(j) \/ Work(j) \/ Crash(j) \/ Cancel(j) \/ Recover(j)
      PROVE  RowsInv'
  BY <1>0, <1>1, WorkShape, ShapeKeepsRows, ClaimKeepsRows, EndKeepsRows
<1>2. ASSUME pull' = pull, head' = head, reviews' = reviews, status' = status,
             attempts' = attempts, pc' = pc, saved' = saved, gid' = gid, tries' = tries,
             found' = found, lost' = lost, crashes' = crashes, tip' \in [Pulls -> Heads]
      PROVE  RowsInv'
  <2>1. RowTypes'
    BY <1>2, Zenon DEF RowsInv, RowTypes
  <2>2. \A j \in Jobs : Row(j)'
    BY <1>2, Zenon DEF RowsInv, Row
  <2> QED
    BY <2>1, <2>2, Zenon DEF RowsInv
<1>3. ASSUME NEW p \in Pulls, Push(p) PROVE RowsInv'
  <2>1. tip' \in [Pulls -> Heads]
    BY <1>3 DEF Push, RowsInv, RowTypes
  <2> QED
    BY <1>2, <1>3, <2>1 DEF Push, worker
<1>4. CASE \/ \E q \in Policies : ChangePolicy(q)
           \/ ExecutorStep /\ UNCHANGED service
           \/ UNCHANGED vars
  BY <1>2, <1>4 DEF ChangePolicy, service, worker, vars, RowsInv, RowTypes
<1> QED
  BY <1>1, <1>3, <1>4 DEF Next

LEMMA RowsInit == Init => RowsInv
<1> SUFFICES ASSUME Init PROVE RowsInv
  OBVIOUS
<1>1. reviews \in Seq(Review) /\ Len(reviews) = 0
  BY DEF Init
<1>2. RowTypes
  <2>1. 1 \in 1..PostAttempts /\ 0 \in 0..MaxLost /\ 0 \in 0..MaxCrashes /\ 0 \in 0..Len(reviews)
        /\ 1 \in Heads /\ "PENDING" \in Statuses
    BY <1>1 DEF Statuses
  <2> QED
    BY <1>1, <2>1 DEF Init, RowTypes
<1>3. \A j \in Jobs : Row(j)
  <2>1. 0 < MaxAttempts + 0 /\ 0 <= MaxAttempts + 0
    OBVIOUS
  <2> QED
    BY <2>1 DEF Init, Row
<1> QED
  BY <1>2, <1>3 DEF RowsInv

LEMMA RowsInvHolds == Spec => []RowsInv
<1>1. Init => RowsInv
  BY RowsInit
<1>2. RowsInv /\ WorkerInv /\ [Next]_vars => RowsInv'
  BY RowsStep
<1> QED
  BY <1>1, <1>2, WorkerInvHolds, PTL DEF Spec

\* Rows, workers and Reviews keep their types; a job is claimed no more than
\* worker_max_attempts times, but for those that an end of its worker gave back.
THEOREM TypesHold == Spec => []TypeOK
<1>1. RowsInv /\ WorkerInv => TypeOK
  <2> SUFFICES ASSUME RowsInv, WorkerInv PROVE TypeOK
    OBVIOUS
  <2>1. attempts \in [Jobs -> 0..MaxAttempts + MaxCrashes]
    <3>1. /\ attempts \in [Jobs -> Nat] /\ crashes \in 0..MaxCrashes
          /\ MaxCrashes \in Nat /\ MaxAttempts \in Nat
      BY DEF RowsInv, RowTypes
    <3>2. \A j \in Jobs : attempts[j] <= MaxAttempts + crashes
      BY DEF RowsInv, Row
    <3>3. ASSUME NEW j \in Jobs PROVE attempts[j] \in 0..MaxAttempts + MaxCrashes
      <4>1. PICK a \in Nat : a = attempts[j]
        BY <3>1
      <4>2. a <= MaxAttempts + crashes
        BY <3>2, <4>1
      <4> QED
        BY <3>1, <4>1, <4>2
    <3> QED
      BY <3>1, <3>3
  <2> QED
    BY <2>1, Zenon DEF RowsInv, RowTypes, WorkerInv, Control, PassTable, TypeOK, Statuses, Review
<1> QED
  BY <1>1, RowsInvHolds, WorkerInvHolds, PTL

-----------------------------------------------------------------------------
\* What the executor keeps for a caller, and for a pass that has run.

LEMMA ExecutorMatches == Spec => []EP!ResultIsOfRequest
<1>1. Init => EP!Init
  BY SameInit DEF Init
<1>2. WorkerInv /\ [Next]_vars => [EP!Next]_(EP!vars)
  BY ExecutorSteps, SameNext DEF EP!vars
<1>3. EP!Spec => []EP!ResultIsOfRequest
  BY EP!ResultsMatch, ServiceAssumption DEF EP!ExecutorAssumption
<1>4. Spec => EP!Spec
  BY <1>1, <1>2, WorkerInvHolds, PTL DEF Spec, EP!Spec
<1> QED
  BY <1>3, <1>4, PTL

\* What was run stays run.
LEMMA RanGrows ==
    ASSUME EP!TypeOK, [E!Next]_executor, NEW i \in Jobs \X (1..MaxPasses)
    PROVE  ran[i] \subseteq ran'[i]
<1>1. CASE E!Spawn
  <2>1. ran' = [ran EXCEPT ![running.id] = @ \cup {running.digest}]
    BY <1>1 DEF E!Spawn
  <2>2. ran \in [Jobs \X (1..MaxPasses) -> SUBSET Policies]
    BY DEF EP!TypeOK
  <2> QED
    BY <2>1, <2>2
<1>2. CASE ~E!Spawn
  <2>1. \A q : E!Receive(q) => ran' = ran
    BY DEF E!Receive, E!Unreadable, E!Replay, E!Conflict, E!InProgress, E!Busy, E!Admit,
       E!AdmitFails, E!Reply, E!ghosts
  <2>2. \A c, x, d : E!Send(c, x, d) \/ E!Abandon(c) \/ E!Take(c) => ran' = ran
    BY DEF E!Send, E!Abandon, E!Take, E!ghosts
  <2>3. E!Reject \/ E!Restart => ran' = ran
    BY DEF E!Reject, E!Restart, E!ghosts
  <2>4. \A s : E!Finish(s) \/ E!FinishNotDurable(s) => ran' = ran
    BY DEF E!Finish, E!FinishNotDurable, E!ghosts
  <2>5. ran' = ran
    BY <1>2, <2>1, <2>2, <2>3, <2>4 DEF E!Next
  <2> QED
    BY <2>5
<1> QED
  BY <1>1, <1>2

\* Only j itself, or its end, changes what j has asked for.
LEMMA CallKept ==
    ASSUME EP!TypeOK, NEW j \in Jobs,
           \/ executor' = executor
           \/ ExecutorStep
           \/ \E c \in Jobs \ {j} : \E i, d : E!Send(c, i, d) \/ E!Abandon(c) \/ E!Take(c)
    PROVE  call'[j].id = call[j].id /\ call'[j].digest = call[j].digest
<1>0. call \in [Jobs -> EP!Calls \cup {EP!Idle}]
  BY DEF EP!TypeOK
<1>1. ASSUME NEW c, NEW r, E!Answer(c, r)
      PROVE  call'[j].id = call[j].id /\ call'[j].digest = call[j].digest
  <2>1. CASE c # j \/ c = None
    BY <1>0, <1>1, <2>1 DEF E!Answer
  <2>2. CASE c = j /\ c # None
    <3>1. call'[j] = [call[j] EXCEPT !.st = "answered", !.reply = r]
      BY <1>0, <1>1, <2>2 DEF E!Answer
    <3>2. PICK o : o = call[j] /\ o \in EP!Calls \cup {EP!Idle}
      BY <1>0
    <3>3. [o EXCEPT !.st = "answered", !.reply = r].id = o.id
          /\ [o EXCEPT !.st = "answered", !.reply = r].digest = o.digest
      BY <3>2 DEF EP!Calls, EP!Idle
    <3> QED
      BY <3>1, <3>2, <3>3
  <2> QED
    BY <2>1, <2>2
<1>2. ASSUME NEW c \in Jobs \ {j}, NEW i, NEW d, E!Send(c, i, d) \/ E!Abandon(c) \/ E!Take(c)
      PROVE  call'[j] = call[j]
  BY <1>0, <1>2 DEF E!Send, E!Abandon, E!Take
<1>3. ASSUME NEW q \in net, E!Receive(q)
      PROVE  call'[j].id = call[j].id /\ call'[j].digest = call[j].digest
  <2>1. CASE E!Admit(q)
    <3>1. call' = call \/ call' = [call EXCEPT ![q.caller].st = "waiting"]
      BY <2>1 DEF E!Admit
    <3>2. PICK o : o = call[j] /\ o \in EP!Calls \cup {EP!Idle}
      BY <1>0
    <3>3. [o EXCEPT !.st = "waiting"].id = o.id /\ [o EXCEPT !.st = "waiting"].digest = o.digest
      BY <3>2 DEF EP!Calls, EP!Idle
    <3>4. call'[j] = o \/ call'[j] = [o EXCEPT !.st = "waiting"]
      BY <1>0, <3>1, <3>2
    <3> QED
      BY <3>2, <3>3, <3>4
  <2>2. CASE ~E!Admit(q)
    <3>1. \E r : E!Answer(q.caller, r)
      BY <1>3, <2>2 DEF E!Receive, E!Unreadable, E!Replay, E!Conflict, E!InProgress, E!Busy,
           E!AdmitFails, E!Reply
    <3> QED
      BY <1>1, <3>1
  <2> QED
    BY <2>1, <2>2
<1>4. CASE E!Reject \/ \E s \in {"SUCCEEDED", "FAILED"} : E!Finish(s) \/ E!FinishNotDurable(s)
  <2>1. \E r : E!Answer(running.caller, r)
    BY <1>4 DEF E!Reject, E!Finish, E!FinishNotDurable
  <2> QED
    BY <1>1, <2>1
<1>5. CASE E!Spawn
  BY <1>5 DEF E!Spawn
<1>6. CASE E!Restart
  <2>1. PICK o : o = call[j] /\ o \in EP!Calls \cup {EP!Idle}
    BY <1>0
  <2>2. [o EXCEPT !.st = "answered", !.reply = "DISCONNECTED"].id = o.id
        /\ [o EXCEPT !.st = "answered", !.reply = "DISCONNECTED"].digest = o.digest
    BY <2>1 DEF EP!Calls, EP!Idle
  <2>3. call'[j] = o \/ call'[j] = [o EXCEPT !.st = "answered", !.reply = "DISCONNECTED"]
    BY <1>6, <2>1 DEF E!Restart
  <2> QED
    BY <2>1, <2>2, <2>3
<1>7. CASE executor' = executor
  BY <1>7
<1> QED
  BY <1>2, <1>3, <1>4, <1>5, <1>6, <1>7, Zenon DEF ExecutorStep

-----------------------------------------------------------------------------
\* What a Review rests on.

\* The inputs that the GENERAL pass was reserved for are inputs it was run with.
BackedPass(j) == pass[j][1].state # "NONE" /\ pass[j][1].digest \in ran[<<j, 1>>]

Publishing == {"recheck", "look", "list", "post", "fallback", "record", "finish"}

Asked(j) ==
    /\ pc[j] \in {"idle", "down", "gate"} => at[j] = 1
    /\ pc[j] = "reserve" => pass[j][at[j]].state = "NONE"
    /\ pc[j] \in {"call", "answer"} => pass[j][at[j]].digest = mine[j]
    /\ pc[j] = "answer" => call[j].id = <<j, at[j]>> /\ call[j].digest = mine[j]

Based(j) ==
    /\ pc[j] \in {"pass", "reserve", "call", "answer"} /\ at[j] > 1 => BackedPass(j)
    /\ pc[j] \in Publishing => BackedPass(j) /\ saved[j]
    /\ \A n \in 1..Len(reviews) : reviews[n].by = j => BackedPass(j) /\ saved[j]

BasedInv == \A j \in Jobs : Asked(j) /\ Based(j)

\* A step of one worker leaves those of the others alone.
Elsewhere(k) ==
    /\ pc'[k] = pc[k] /\ at'[k] = at[k] /\ mine'[k] = mine[k]
    /\ pass'[k] = pass[k] /\ saved'[k] = saved[k]

LEMMA WorkElsewhere ==
    ASSUME WorkerInv, RowsInv, NEW j \in Jobs, Work(j), NEW k \in Jobs \ {j}
    PROVE  Elsewhere(k)
<1>0. Control /\ RowTypes
  BY DEF WorkerInv, RowsInv
<1>1. pc'[k] = pc[k] /\ saved'[k] = saved[k]
  <2>1. Shape(j)
    BY WorkShape
  <2>2. pc'[k] = pc[k]
    BY <1>0, <2>1 DEF Shape, GoesOn, StopsAt, Stop, Goto, Control
  <2>3. saved'[k] = saved[k]
    BY <1>0, <2>1 DEF Shape, RowTypes
  <2> QED
    BY <2>2, <2>3
<1>2. at'[k] = at[k] /\ mine'[k] = mine[k]
  <2>0. ASSUME \E s : Stop(j, s) PROVE at'[k] = at[k] /\ mine'[k] = mine[k]
    BY <2>0, Stops
  <2>1. ASSUME NextPass(j) PROVE at'[k] = at[k] /\ mine'[k] = mine[k]
    BY <1>0, <2>1 DEF NextPass, Control
  <2>2. CASE Gate(j)
    BY <1>0, <2>0, <2>2 DEF Gate, Control
  <2>3. CASE Unreviewable(j) \/ ReadFails(j) \/ ResumePass(j) \/ CountBudget(j) \/ Reserve(j)
    BY <2>0, <2>1, <2>3, ErrorStops DEF Unreviewable, ReadFails, ResumePass, CountBudget, Reserve
  <2>4. CASE Call(j) \/ NoCall(j) \/ Answered(j) \/ TimesOut(j)
    BY <2>0, <2>1, <2>4 DEF Call, NoCall, Answered, TimesOut
  <2>5. CASE Persist(j) \/ Recheck(j) \/ Look(j) \/ List(j) \/ Post(j) \/ Record(j) \/ Finish(j)
             \/ PostRefused(j)
    BY <2>0, <2>5 DEF Persist, Recheck, Look, List, Post, Record, Finish, PostRefused
  <2>6. CASE PostLost(j) \/ PostFails(j)
    BY <2>0, <2>6, ErrorStops DEF PostLost, PostFails, Again
  <2> QED
    BY <2>2, <2>3, <2>4, <2>5, <2>6 DEF Work
<1>3. pass'[k] = pass[k]
  <2>1. \/ pass' = pass
        \/ \E r : pass' = [pass EXCEPT ![j] = r]
    <3>1. CASE Reserve(j)
      BY <3>1 DEF Reserve
    <3>2. CASE NoCall(j) \/ Answered(j) \/ TimesOut(j)
      BY <3>2 DEF NoCall, Answered, TimesOut, Settle
    <3>3. CASE ~(Reserve(j) \/ NoCall(j) \/ Answered(j) \/ TimesOut(j))
      BY <3>3 DEF Work, Gate, Unreviewable, ReadFails, ResumePass, CountBudget, Call, Persist,
           Recheck, Look, List, Post, PostLost, PostFails, PostRefused, Record, Finish
    <3> QED
      BY <3>1, <3>2, <3>3
  <2> QED
    BY <1>0, <2>1 DEF Control, PassTable
<1> QED
  BY <1>1, <1>2, <1>3 DEF Elsewhere

\* A pass that was reserved keeps its fingerprint.
PassStays(j) ==
    \A p \in 1..MaxPasses : pass[j][p].state # "NONE" =>
        pass'[j][p].state # "NONE" /\ pass'[j][p].digest = pass[j][p].digest

LEMMA SettleStays ==
    ASSUME WorkerInv, NEW j \in Jobs, at[j] \in 1..MaxPasses,
           NEW s \in PassStates \ {"NONE"}, Settle(j, at[j], s)
    PROVE  /\ PassStays(j)
           /\ pass'[j][at[j]].state = s
           /\ pass'[j][at[j]].digest = pass[j][at[j]].digest
<1>1. PICK t \in [1..MaxPasses -> [state : PassStates, digest : Policies \cup {None}]] : t = pass[j]
  BY DEF WorkerInv, Control, PassTable
<1>2. PICK o \in 1..MaxPasses : o = at[j]
  OBVIOUS
<1>3. pass' = [pass EXCEPT ![j][o].state = s]
  BY <1>2 DEF Settle
<1>4. pass'[j] = [t EXCEPT ![o] = [t[o] EXCEPT !.state = s]]
  BY <1>1, <1>3 DEF WorkerInv, Control, PassTable
<1>5. \A p \in 1..MaxPasses : t[p] \in [state : PassStates, digest : Policies \cup {None}]
  BY <1>1
<1>6. [t[o] EXCEPT !.state = s].state = s /\ [t[o] EXCEPT !.state = s].digest = t[o].digest
  BY <1>5
<1>7. \A p \in 1..MaxPasses : p # o => pass'[j][p] = t[p]
  BY <1>1, <1>4
<1>8. pass'[j][o] = [t[o] EXCEPT !.state = s]
  BY <1>1, <1>4
<1>9. pass'[j][o].state = s /\ pass'[j][o].digest = t[o].digest
  BY <1>6, <1>8
<1> QED
  BY <1>1, <1>2, <1>7, <1>9 DEF PassStays

LEMMA WorkPassStays ==
    ASSUME WorkerInv, BasedInv, NEW j \in Jobs, Work(j)
    PROVE  PassStays(j)
<1>1. CASE Reserve(j)
  <2>1. PICK o \in 1..MaxPasses : o = at[j]
    BY <1>1 DEF WorkerInv, Ready, Reserve
  <2>2. pass[j][o].state = "NONE"
    BY <1>1, <2>1 DEF Reserve, BasedInv, Asked
  <2>3. \E r : pass' = [pass EXCEPT ![j][o] = r]
    BY <1>1, <2>1 DEF Reserve
  <2>4. \A p \in 1..MaxPasses : p # o => pass'[j][p] = pass[j][p]
    BY <2>3 DEF WorkerInv, Control, PassTable
  <2> QED
    BY <2>2, <2>4 DEF PassStays
<1>2. CASE NoCall(j) \/ Answered(j) \/ TimesOut(j)
  <2>1. at[j] \in 1..MaxPasses
    BY <1>2 DEF WorkerInv, Ready, NoCall, Answered, TimesOut
  <2>2. PICK s \in PassStates \ {"NONE"} : Settle(j, at[j], s)
    BY <1>2 DEF NoCall, Answered, TimesOut, Failures, PassStates
  <2> QED
    BY <2>1, <2>2, SettleStays
<1>3. CASE ~(Reserve(j) \/ NoCall(j) \/ Answered(j) \/ TimesOut(j))
  <2>1. pass' = pass
    BY <1>3 DEF Work, Gate, Unreviewable, ReadFails, ResumePass, CountBudget, Call, Persist,
         Recheck, Look, List, Post, PostLost, PostFails, PostRefused, Record, Finish
  <2> QED
    BY <2>1 DEF PassStays
<1> QED
  BY <1>1, <1>2, <1>3

LEMMA BackedStays ==
    ASSUME EP!TypeOK, [E!Next]_executor, NEW j \in Jobs, PassStays(j), BackedPass(j)
    PROVE  BackedPass(j)'
<1>1. MaxPasses \in Nat \ {0}
  OBVIOUS
<1>2. 1 \in 1..MaxPasses
  BY <1>1
<1>3. ran[<<j, 1>>] \subseteq ran'[<<j, 1>>]
  BY <1>2, RanGrows
<1>4. pass'[j][1].state # "NONE" /\ pass'[j][1].digest = pass[j][1].digest
  BY <1>2 DEF PassStays, BackedPass
<1> QED
  BY <1>3, <1>4 DEF BackedPass

\* A Review that appears is that of the job whose worker posts it.
LEMMA WorkReviews ==
    ASSUME NEW j \in Jobs, Work(j)
    PROVE  \/ reviews' = reviews
           \/ Posting(j) /\ Created(j) /\ saved' = saved
<1>1. CASE Post(j) \/ PostLost(j)
  BY <1>1 DEF Post, PostLost
<1>2. CASE ~(Post(j) \/ PostLost(j))
  BY <1>2 DEF Work, Gate, Unreviewable, ReadFails, ResumePass, CountBudget, Reserve, Call, NoCall,
       Answered, TimesOut, Persist, Recheck, Look, List, PostFails, PostRefused, Record, Finish
<1> QED
  BY <1>1, <1>2

\* A step that leaves the worker of k, and the Reviews of k, alone.
LEMMA OtherBased ==
    ASSUME EP!TypeOK, [E!Next]_executor, BasedInv, NEW k \in Jobs, Elsewhere(k),
           call'[k].id = call[k].id, call'[k].digest = call[k].digest,
           \A n \in 1..Len(reviews') : reviews'[n].by = k =>
               n \in 1..Len(reviews) /\ reviews[n].by = k
    PROVE  Asked(k)' /\ Based(k)'
<1>1. PassStays(k)
  BY DEF Elsewhere, PassStays
<1>2. BackedPass(k) => BackedPass(k)'
  BY <1>1, BackedStays
<1>3. Asked(k) /\ Based(k)
  BY DEF BasedInv
<1>4. Asked(k)'
  BY <1>3 DEF Elsewhere, Asked
<1>5. Based(k)'
  BY <1>2, <1>3 DEF Elsewhere, Based
<1> QED
  BY <1>4, <1>5

LEMMA WorkBased ==
    ASSUME WorkerInv, RowsInv, EP!TypeOK, EP!ResultIsOfRequest, [E!Next]_executor, BasedInv,
           NEW j \in Jobs, Work(j)
    PROVE  Asked(j)' /\ Based(j)'
<1>0. Control /\ RowTypes /\ Ready(j) /\ Asked(j) /\ Based(j) /\ Shape(j)
  BY WorkShape DEF WorkerInv, RowsInv, BasedInv
<1>1. PassStays(j) /\ (BackedPass(j) => BackedPass(j)')
  BY WorkPassStays, BackedStays
<1>2. saved[j] => saved'[j]
  BY <1>0 DEF Shape, RowTypes
<1>3. \A n \in 1..Len(reviews') : reviews'[n].by = j => BackedPass(j)' /\ saved'[j]
  <2>1. CASE reviews' = reviews
    BY <1>0, <1>1, <1>2, <2>1 DEF Based
  <2>2. CASE Posting(j) /\ Created(j)
    <3>1. BackedPass(j) /\ saved[j]
      BY <1>0, <2>2 DEF Based, Posting, Publishing
    <3> QED
      BY <1>1, <1>2, <3>1
  <2> QED
    BY <2>1, <2>2, WorkReviews
<1> DEFINE Going ==
      /\ Asked(j)'
      /\ pc'[j] \in {"pass", "reserve", "call", "answer"} /\ at'[j] > 1 => BackedPass(j)'
      /\ pc'[j] \in Publishing => BackedPass(j)' /\ saved'[j]
<1>4. ASSUME \E s : Stop(j, s) PROVE Going
  <2>1. pc'[j] = "idle" /\ at'[j] = 1
    BY <1>0, <1>4 DEF Stop, Goto, Leave, Control
  <2> QED
    BY <2>1 DEF Asked, Publishing
<1>5. ASSUME pc[j] \in Publishing, pc'[j] \in Publishing PROVE Going
  BY <1>0, <1>1, <1>2, <1>5 DEF Based, Asked, Publishing
<1>6. ASSUME NextPass(j), BackedPass(j)' PROVE Going
  <2>1. pc'[j] = "pass"
    BY <1>0, <1>6 DEF NextPass, Goto, Control
  <2> QED
    BY <1>6, <2>1 DEF Asked, Publishing
<1>7. CASE Gate(j)
  <2>1. CASE Goto(j, "pass") /\ at' = at
    <3>1. pc'[j] = "pass" /\ at'[j] = 1
      BY <1>0, <1>7, <2>1 DEF Gate, Goto, Control, Asked
    <3>2. Going
      BY <3>1 DEF Asked, Publishing
    <3> QED
      BY <1>3, <3>2 DEF Based
  <2>2. CASE \E s : Stop(j, s)
    BY <1>3, <1>4, <2>2 DEF Based
  <2> QED
    BY <1>7, <2>1, <2>2 DEF Gate
<1>8. CASE ResumePass(j) \/ CountBudget(j)
  <2>1. /\ pc[j] = "pass" /\ pass' = pass
        /\ \/ \E s : Stop(j, s)
           \/ /\ Goto(j, "call") /\ at' = at /\ mine' = mine
              /\ pass[j][at[j]] = [state |-> "SUCCEEDED", digest |-> mine[j]]
           \/ Goto(j, "reserve") /\ at' = at /\ pass[j][at[j]].state = "NONE"
    BY <1>8 DEF ResumePass, CountBudget, AtPass
  <2>2. CASE /\ Goto(j, "call") /\ at' = at /\ mine' = mine
             /\ pass[j][at[j]] = [state |-> "SUCCEEDED", digest |-> mine[j]]
    <3>1. pc'[j] = "call" /\ pass'[j][at'[j]].digest = mine'[j]
      BY <1>0, <2>1, <2>2 DEF Goto, Control
    <3>2. Going
      BY <1>0, <1>1, <2>1, <2>2, <3>1 DEF Asked, Based, Publishing
    <3> QED
      BY <1>3, <3>2 DEF Based
  <2>3. CASE Goto(j, "reserve") /\ at' = at /\ pass[j][at[j]].state = "NONE"
    <3>1. pc'[j] = "reserve"
      BY <1>0, <2>3 DEF Goto, Control
    <3>2. Going
      BY <1>0, <1>1, <2>1, <2>3, <3>1 DEF Asked, Based, Publishing
    <3> QED
      BY <1>3, <3>2 DEF Based
  <2> QED
    BY <1>3, <1>4, <2>1, <2>2, <2>3 DEF Based
<1>9. CASE Reserve(j)
  <2>1. pc[j] = "reserve" /\ at[j] \in 1..MaxPasses
    BY <1>0, <1>9 DEF Reserve, Ready
  <2>2. CASE Goto(j, "call") /\ at' = at /\ mine' = mine
    <3>1. pc'[j] = "call"
      BY <1>0, <2>2 DEF Goto, Control
    <3>2. pass'[j][at[j]].digest = mine[j]
      BY <1>0, <1>9, <2>1 DEF Reserve, Control, PassTable
    <3>3. Going
      BY <1>0, <1>1, <2>1, <2>2, <3>1, <3>2 DEF Asked, Based, Publishing
    <3> QED
      BY <1>3, <3>3 DEF Based
  <2>3. CASE NextPass(j) /\ at[j] # 1
    <3>1. at[j] > 1
      BY <2>1, <2>3
    <3>2. BackedPass(j)'
      BY <1>0, <1>1, <2>1, <3>1 DEF Based
    <3> QED
      BY <1>3, <1>6, <2>3, <3>2 DEF Based
  <2>4. \/ Goto(j, "call") /\ at' = at /\ mine' = mine
        \/ Stop(j, "FAILED")
        \/ NextPass(j) /\ at[j] # 1
    BY <1>9 DEF Reserve
  <2> QED
    BY <1>3, <1>4, <2>2, <2>3, <2>4 DEF Based
<1>10. CASE Call(j)
  <2>1. /\ pc[j] = "call" /\ pc' = [pc EXCEPT ![j] = "answer"] /\ pass' = pass
        /\ at' = at /\ mine' = mine
        /\ call' = [call EXCEPT ![j] = [st |-> "open", id |-> <<j, at[j]>>, digest |-> mine[j],
                                         reply |-> "NONE"]]
    BY <1>10 DEF Call, Goto, E!Send
  <2>2. pc'[j] = "answer"
    BY <1>0, <2>1 DEF Control
  <2>3. call'[j].id = <<j, at[j]>> /\ call'[j].digest = mine[j]
    BY <2>1 DEF EP!TypeOK
  <2>4. Going
    BY <1>0, <1>1, <2>1, <2>2, <2>3 DEF Asked, Based, Publishing
  <2> QED
    BY <1>3, <2>4 DEF Based
<1>11. CASE Answered(j)
  <2>1. pc[j] = "answer" /\ at[j] \in 1..MaxPasses
    BY <1>0, <1>11 DEF Answered, Ready
  <2>2. CASE call[j].reply = "RESULT"
    <3>1. Settle(j, at[j], "SUCCEEDED") /\ NextPass(j)
      BY <1>11, <2>2 DEF Answered
    <3>2. pass'[j][at[j]].state = "SUCCEEDED" /\ pass'[j][at[j]].digest = mine[j]
      BY <1>0, <2>1, <3>1, SettleStays DEF PassStates, Asked
    <3>3. mine[j] \in ran[<<j, at[j]>>]
      BY <1>0, <2>1, <2>2 DEF EP!ResultIsOfRequest, Asked
    <3>4. mine[j] \in ran'[<<j, at[j]>>]
      BY <2>1, <3>3, RanGrows
    <3>5. BackedPass(j)'
      <4>1. CASE at[j] = 1
        BY <3>2, <3>4, <4>1 DEF BackedPass
      <4>2. CASE at[j] # 1
        <5>1. at[j] > 1
          BY <2>1, <4>2
        <5> QED
          BY <1>0, <1>1, <2>1, <5>1 DEF Based
      <4> QED
        BY <4>1, <4>2
    <3> QED
      BY <1>3, <1>6, <3>1, <3>5 DEF Based
  <2>3. CASE NextPass(j) /\ at[j] > 1
    <3>1. BackedPass(j)'
      BY <1>0, <1>1, <2>1, <2>3 DEF Based
    <3> QED
      BY <1>3, <1>6, <2>3, <3>1 DEF Based
  <2>4. \/ call[j].reply = "RESULT"
        \/ Stop(j, "FAILED")
        \/ NextPass(j) /\ at[j] > 1
    BY <1>11 DEF Answered
  <2> QED
    BY <1>3, <1>4, <2>2, <2>3, <2>4 DEF Based
<1>12. CASE Persist(j)
  <2>1. /\ pc[j] = "pass" /\ at[j] > MaxPasses /\ saved' = [saved EXCEPT ![j] = TRUE]
        /\ Goto(j, "recheck") \/ Goto(j, "look")
    BY <1>12 DEF Persist
  <2>2. pc'[j] \in {"recheck", "look"} /\ saved'[j]
    BY <1>0, <2>1 DEF Goto, Control, RowTypes
  <2>3. at[j] > 1
    <3>1. at[j] \in 1..MaxPasses + 1 /\ MaxPasses \in Nat \ {0}
      BY <1>0 DEF Control
    <3> QED
      BY <2>1, <3>1, SMTT(30)
  <2>4. BackedPass(j)'
    BY <1>0, <1>1, <2>1, <2>3 DEF Based
  <2>5. Going
    BY <2>2, <2>4 DEF Asked, Publishing
  <2> QED
    BY <1>3, <2>5 DEF Based
<1>13. CASE Unreviewable(j) \/ ReadFails(j) \/ NoCall(j) \/ TimesOut(j) \/ Finish(j)
  <2>1. \E s : Stop(j, s)
    BY <1>13, ErrorStops DEF Unreviewable, ReadFails, NoCall, TimesOut, Finish
  <2> QED
    BY <1>3, <1>4, <2>1 DEF Based
<1>14. CASE Recheck(j) \/ Look(j) \/ List(j) \/ Post(j) \/ PostLost(j) \/ PostFails(j)
            \/ PostRefused(j) \/ Record(j)
  <2>1. pc[j] \in Publishing
    BY <1>14 DEF Recheck, Look, List, Post, PostLost, PostFails, PostRefused, Record, Posting,
       Publishing
  <2>2. \/ \E s : Stop(j, s)
        \/ pc' = pc
        \/ \E l \in Publishing : Goto(j, l)
    <3>1. Again(j) => pc' = pc \/ \E s : Stop(j, s)
      BY ErrorStops DEF Again
    <3> QED
      BY <1>14, <3>1 DEF Recheck, Look, List, Post, PostLost, PostFails, PostRefused, Record,
         Publishing
  <2>3. (\E s : Stop(j, s)) \/ pc'[j] \in Publishing
    BY <1>0, <2>1, <2>2 DEF Goto, Control
  <2> QED
    BY <1>3, <1>4, <1>5, <2>1, <2>3 DEF Based
<1> QED
  BY <1>7, <1>8, <1>9, <1>10, <1>11, <1>12, <1>13, <1>14 DEF Work

LEMMA BasedStep ==
    ASSUME WorkerInv, RowsInv, EP!TypeOK, EP!ResultIsOfRequest, BasedInv, [Next]_vars
    PROVE  BasedInv'
<1>0. [E!Next]_executor /\ Control /\ RowTypes
  BY ExecutorSteps DEF WorkerInv, RowsInv
<1>1. ASSUME NEW j \in Jobs, Work(j) PROVE BasedInv'
  <2>1. ASSUME NEW k \in Jobs \ {j} PROVE Asked(k)' /\ Based(k)'
    <3>1. Elsewhere(k)
      BY <1>1, WorkElsewhere
    <3>2. call'[k].id = call[k].id /\ call'[k].digest = call[k].digest
      <4>1. \/ executor' = executor
            \/ \E i, d : E!Send(j, i, d) \/ E!Abandon(j) \/ E!Take(j)
        BY <1>1 DEF Work, Gate, Unreviewable, ReadFails, ResumePass, CountBudget, Reserve, Call,
           NoCall, Answered, TimesOut, Persist, Recheck, Look, List, Post, PostLost, PostFails,
           PostRefused, Record, Finish
      <4>2. j \in Jobs \ {k}
        OBVIOUS
      <4> QED
        BY <4>1, <4>2, CallKept
    <3>3. \A n \in 1..Len(reviews') : reviews'[n].by = k =>
             n \in 1..Len(reviews) /\ reviews[n].by = k
      <4>1. CASE reviews' = reviews
        BY <4>1
      <4>2. CASE Created(j)
        <5>1. /\ Len(reviews') = Len(reviews) + 1 /\ Len(reviews) \in Nat
              /\ \A n \in 1..Len(reviews) : reviews'[n] = reviews[n]
              /\ reviews'[Len(reviews) + 1].by = j
          <6>1. Len(reviews) \in Nat
            BY <1>0 DEF RowTypes
          <6>2. /\ Len(reviews') = Len(reviews) + 1
                /\ \A n \in 1..Len(reviews) : reviews'[n] = reviews[n]
                /\ reviews'[Len(reviews) + 1] = [pull |-> pull[j], head |-> head[j], by |-> j]
            BY <1>0, <4>2, CreatedTypes
          <6>3. [pull |-> pull[j], head |-> head[j], by |-> j].by = j
            OBVIOUS
          <6> QED
            BY <6>1, <6>2, <6>3, Zenon
        <5> QED
          BY <5>1, SMTT(30)
      <4> QED
        BY <1>1, <4>1, <4>2, WorkReviews
    <3> QED
      BY <1>0, <3>1, <3>2, <3>3, OtherBased
  <2> QED
    BY <1>0, <1>1, <2>1, WorkBased DEF BasedInv
<1>2. ASSUME NEW j \in Jobs, Claim(j) \/ Crash(j) \/ Cancel(j) \/ Recover(j) PROVE BasedInv'
  <2>1. /\ pass' = pass /\ saved' = saved /\ reviews' = reviews
        /\ executor' = executor \/ E!Abandon(j) \/ E!Take(j)
    BY <1>2 DEF Claim, Crash, Cancel, Recover, Ends, HangUp
  <2>2. ASSUME NEW k \in Jobs \ {j} PROVE Asked(k)' /\ Based(k)'
    <3>1. Elsewhere(k)
      BY <1>0, <1>2, <2>1 DEF Claim, Crash, Cancel, Recover, Ends, Stop, Leave, Goto, Elsewhere,
         Control
    <3>2. call'[k].id = call[k].id /\ call'[k].digest = call[k].digest
      <4>1. j \in Jobs \ {k}
        OBVIOUS
      <4> QED
        BY <2>1, <4>1, CallKept
    <3> QED
      BY <1>0, <2>1, <3>1, <3>2, OtherBased
  <2>3. pc'[j] \in {"idle", "down", "gate"} /\ at'[j] = 1
    <3>1. CASE Claim(j)
      <4>1. pc[j] = "idle"
        BY <3>1 DEF Claim, RowsInv, Row
      <4> QED
        BY <1>0, <3>1, <4>1 DEF Claim, Goto, Control, BasedInv, Asked
    <3>2. CASE Crash(j) \/ Cancel(j) \/ Recover(j)
      BY <1>0, <3>2 DEF Crash, Cancel, Recover, Ends, Stop, Leave, Goto, Control
    <3> QED
      BY <1>2, <3>1, <3>2
  <2>4. BackedPass(j) => BackedPass(j)'
    <3>1. PassStays(j)
      BY <2>1 DEF PassStays
    <3> QED
      BY <1>0, <3>1, BackedStays
  <2>5. Asked(j)' /\ Based(j)'
    <3>1. Based(j)
      BY DEF BasedInv
    <3>2. Asked(j)'
      BY <2>3 DEF Asked
    <3>3. Based(j)'
      BY <2>1, <2>3, <2>4, <3>1 DEF Based, Publishing
    <3> QED
      BY <3>2, <3>3
  <2> QED
    BY <2>2, <2>5 DEF BasedInv
<1>3. CASE \/ \E p \in Pulls : Push(p)
           \/ \E q \in Policies : ChangePolicy(q)
           \/ ExecutorStep /\ UNCHANGED service
           \/ UNCHANGED vars
  <2>1. /\ pc' = pc /\ at' = at /\ mine' = mine /\ pass' = pass /\ saved' = saved
        /\ reviews' = reviews
        /\ executor' = executor \/ ExecutorStep
    BY <1>3 DEF Push, ChangePolicy, service, worker, vars
  <2>2. ASSUME NEW k \in Jobs PROVE Asked(k)' /\ Based(k)'
    <3>1. Elsewhere(k)
      BY <2>1 DEF Elsewhere
    <3>2. call'[k].id = call[k].id /\ call'[k].digest = call[k].digest
      BY <2>1, CallKept
    <3> QED
      BY <1>0, <2>1, <3>1, <3>2, OtherBased
  <2> QED
    BY <2>2 DEF BasedInv
<1> QED
  BY <1>1, <1>2, <1>3 DEF Next

LEMMA BasedInit == Init => BasedInv
  BY DEF Init, BasedInv, Asked, Based, Publishing

\* A Review on GitHub, whatever became of its job since, rests on a committed
\* ReviewRun and on a process of its GENERAL pass that ran with the inputs that
\* the pass was reserved for.
THEOREM ReviewsBacked == Spec => []ReviewIsBacked
<1>1. Init => BasedInv
  BY BasedInit
<1>2. /\ WorkerInv /\ RowsInv /\ EP!TypeOK /\ EP!ResultIsOfRequest /\ BasedInv
      /\ [Next]_vars
      => BasedInv'
  BY BasedStep
<1>3. RowsInv /\ BasedInv => ReviewIsBacked
  <2> SUFFICES ASSUME RowsInv, BasedInv, NEW n \in 1..Len(reviews)
               PROVE  LET j == reviews[n].by
                      IN  saved[j] /\ pass[j][1].digest \in ran[<<j, 1>>]
    BY DEF ReviewIsBacked
  <2>1. reviews[n] \in Review
    BY DEF RowsInv, RowTypes
  <2>2. PICK j \in Jobs : j = reviews[n].by
    BY <2>1 DEF Review
  <2>3. BackedPass(j) /\ saved[j]
    BY <2>2 DEF BasedInv, Based
  <2> QED
    BY <2>2, <2>3 DEF BackedPass
<1>4. Spec => [](WorkerInv /\ RowsInv /\ EP!TypeOK /\ EP!ResultIsOfRequest)
  BY WorkerInvHolds, RowsInvHolds, ExecutorPromises, ExecutorMatches, PTL
<1> QED
  BY <1>1, <1>2, <1>3, <1>4, PTL DEF Spec

-----------------------------------------------------------------------------
\* One job of a repository at a time: RepoLimit = 1, which is the default of
\* review_repository_concurrency.

Alone ==
    \A j, k \in Jobs : j # k /\ status[j] = "RUNNING" /\ status[k] = "RUNNING" => pull[j] # pull[k]

LEMMA AloneStep ==
    ASSUME RepoLimit = 1, WorkerInv, RowsInv, Alone, [Next]_vars
    PROVE  Alone'
<1>0. status \in [Jobs -> Statuses] /\ Control
  BY DEF RowsInv, RowTypes, WorkerInv
<1>1. ASSUME NEW j \in Jobs, Claim(j) PROVE Alone'
  <2> DEFINE Busy == {k \in Jobs : status[k] = "RUNNING" /\ pull[k] = pull[j]}
  <2>1. Cardinality(Busy) < 1
    BY <1>1 DEF Claim
  <2>2. IsFiniteSet(Busy)
    <3>1. Busy \in SUBSET Jobs
      OBVIOUS
    <3> HIDE DEF Busy
    <3> QED
      BY <3>1, FS_Subset
  <2>3. Busy = {}
    <3> HIDE DEF Busy
    <3>1. Cardinality(Busy) \in Nat
      BY <2>2, FS_CardinalityType
    <3>2. Cardinality(Busy) = 0
      BY <2>1, <3>1
    <3> QED
      BY <2>2, <3>2, FS_EmptySet
  <2>4. status' = [status EXCEPT ![j] = "RUNNING"] /\ pull' = pull
    BY <1>1 DEF Claim
  <2>5. \A k \in Jobs : status[k] = "RUNNING" => pull[k] # pull[j]
    BY <2>3
  <2>6. \A k \in Jobs \ {j} : status'[k] = status[k]
    BY <1>0, <2>4
  <2> QED
    BY <2>4, <2>5, <2>6 DEF Alone
<1>2. ASSUME pull' = pull, \A k \in Jobs : status'[k] = "RUNNING" => status[k] = "RUNNING"
      PROVE  Alone'
  BY <1>2 DEF Alone
<1>3. ASSUME NEW j \in Jobs, Work(j) PROVE Alone'
  <2>1. Shape(j)
    BY <1>3, WorkShape
  <2>2. status' = status \/ \E s \in Statuses \ {"RUNNING"} : status' = [status EXCEPT ![j] = s]
    BY <2>1 DEF Shape, GoesOn, StopsAt, Stop
  <2>3. \A k \in Jobs : status'[k] = "RUNNING" => status[k] = "RUNNING"
    BY <1>0, <2>2
  <2> QED
    BY <1>2, <2>1, <2>3 DEF Shape
<1>4. ASSUME NEW j \in Jobs, Crash(j) \/ Cancel(j) \/ Recover(j) PROVE Alone'
  <2>1. pull' = pull
    BY <1>4 DEF Crash, Cancel, Recover, Ends
  <2>2. \/ status' = status
        \/ \E s \in {"PENDING", "FAILED"} : status' = [status EXCEPT ![j] = s]
    BY <1>4 DEF Crash, Cancel, Recover, Stop
  <2>3. \A k \in Jobs : status'[k] = "RUNNING" => status[k] = "RUNNING"
    BY <1>0, <2>2
  <2> QED
    BY <1>2, <2>1, <2>3
<1>5. CASE \/ \E p \in Pulls : Push(p)
           \/ \E q \in Policies : ChangePolicy(q)
           \/ ExecutorStep /\ UNCHANGED service
           \/ UNCHANGED vars
  <2>1. pull' = pull /\ status' = status
    BY <1>5 DEF Push, ChangePolicy, service, vars
  <2> QED
    BY <1>2, <2>1
<1> QED
  BY <1>1, <1>3, <1>4, <1>5 DEF Next

LEMMA AloneHolds ==
    ASSUME RepoLimit = 1
    PROVE  Spec => []Alone
<1>1. Init => Alone
  BY DEF Init, Alone
<1>2. Alone /\ WorkerInv /\ RowsInv /\ [Next]_vars => Alone'
  BY AloneStep
<1> QED
  BY <1>1, <1>2, WorkerInvHolds, RowsInvHolds, PTL DEF Spec

-----------------------------------------------------------------------------
\* The Review of a head, and the jobs that see it.

\* The marked Reviews of a head after one is created.
LEMMA MarkedAfter ==
    ASSUME RowTypes, NEW j \in Jobs, NEW k \in Jobs, Created(j), pull' = pull, head' = head
    PROVE  /\ Marked(k) \subseteq Marked(k)'
           /\ SameHead(k, j) => Len(reviews) + 1 \in Marked(k)'
           /\ ~SameHead(k, j) => Marked(k)' = Marked(k)
<1>1. Len(reviews) \in Nat
  BY DEF RowTypes
<1>2. /\ Len(reviews') = Len(reviews) + 1
      /\ \A n \in 1..Len(reviews) : reviews'[n] = reviews[n]
      /\ reviews'[Len(reviews) + 1] = [pull |-> pull[j], head |-> head[j], by |-> j]
  BY CreatedTypes
<1>3. PICK last \in Nat : last = Len(reviews)
  BY <1>1
<1>4. PICK new \in Nat : new = last + 1
  OBVIOUS
<1>5. 1..new = (1..last) \cup {new} /\ new \notin 1..last
  BY <1>4, SMTT(30)
<1>6. reviews'[new].pull = pull[j] /\ reviews'[new].head = head[j]
  BY <1>2, <1>3, <1>4, SMTT(30)
<1>7. Marked(k)' = {n \in 1..new : reviews'[n].pull = pull[k] /\ reviews'[n].head = head[k]}
  BY <1>2, <1>3, <1>4 DEF Marked
<1>8. Marked(k) = {n \in 1..last : reviews'[n].pull = pull[k] /\ reviews'[n].head = head[k]}
  BY <1>2, <1>3 DEF Marked
<1>9. Marked(k) \subseteq Marked(k)'
  BY <1>5, <1>7, <1>8
<1>10. SameHead(k, j) => new \in Marked(k)'
  BY <1>5, <1>6, <1>7 DEF SameHead
<1>11. ~SameHead(k, j) => Marked(k)' = Marked(k)
  BY <1>5, <1>6, <1>7, <1>8 DEF SameHead
<1> QED
  BY <1>3, <1>4, <1>9, <1>10, <1>11

LEMMA MarkedGrows ==
    ASSUME RowTypes, NEW k \in Jobs, pull' = pull, head' = head,
           reviews' = reviews \/ \E j \in Jobs : Created(j)
    PROVE  Marked(k) \subseteq Marked(k)'
<1>1. CASE reviews' = reviews
  BY <1>1 DEF Marked
<1>2. CASE \E j \in Jobs : Created(j)
  BY <1>2, MarkedAfter
<1> QED
  BY <1>1, <1>2

\* From the gate to the POST.
Unpublished == {"pass", "reserve", "call", "answer", "recheck", "look", "list", "post", "fallback"}

Sighted(j) ==
    /\ pc[j] \in Unpublished => \A k \in Jobs : SameHead(j, k) => gid[k] = 0
    /\ gid[j] # 0 => gid[j] \in Marked(j)
    /\ pc[j] = "record" => found[j] \in Marked(j)
    /\ pc[j] = "finish" \/ status[j] = "SUCCEEDED" => gid[j] # 0

SightedInv == \A j \in Jobs : Sighted(j)

\* Where the worker of j goes, as far as the Review is concerned.
LEMMA WorkGoes ==
    ASSUME NEW j \in Jobs, Work(j)
    PROVE  \/ (\E s \in Statuses \ {"RUNNING", "SUCCEEDED"} : Stop(j, s)) /\ gid' = gid
           \/ Finish(j)
           \/ Gate(j) /\ ~Reviewed(j) /\ Goto(j, "pass") /\ status' = status
           \/ /\ pc[j] \in Unpublished /\ gid' = gid /\ status' = status
              /\ pc' = pc \/ \E l \in Unpublished : Goto(j, l)
           \/ Look(j) /\ AutoReviewed(j)
           \/ List(j) /\ Marked(j) # {}
           \/ Post(j)
           \/ Record(j)
<1> DEFINE Stopped == (\E s \in Statuses \ {"RUNNING", "SUCCEEDED"} : Stop(j, s)) /\ gid' = gid
           Stayed == /\ pc[j] \in Unpublished /\ gid' = gid /\ status' = status
                     /\ pc' = pc \/ \E l \in Unpublished : Goto(j, l)
<1>1. CASE Gate(j)
  BY <1>1 DEF Gate, Statuses
<1>2. CASE Unreviewable(j) \/ ReadFails(j) \/ NoCall(j) \/ TimesOut(j)
  <2>1. Stopped
    BY <1>2 DEF Unreviewable, ReadFails, AfterError, NoCall, TimesOut, Statuses
  <2> QED
    BY <2>1
<1>3. CASE ResumePass(j) \/ CountBudget(j) \/ Reserve(j) \/ Call(j) \/ Answered(j)
  <2>1. pc[j] \in Unpublished /\ gid' = gid
    BY <1>3 DEF ResumePass, CountBudget, Reserve, Call, Answered, AtPass, Unpublished
  <2>2. \/ Stop(j, "FAILED")
        \/ /\ \E l \in {"pass", "call", "reserve", "answer"} : Goto(j, l)
           /\ status' = status
    BY <1>3 DEF ResumePass, CountBudget, Reserve, Call, Answered, NextPass
  <2>3. Stopped \/ Stayed
    BY <2>1, <2>2 DEF Unpublished, Statuses
  <2> QED
    BY <2>3
<1>4. CASE Persist(j) \/ Recheck(j) \/ (Look(j) /\ ~AutoReviewed(j)) \/ (List(j) /\ Marked(j) = {})
           \/ PostRefused(j)
  <2>1. pc[j] \in Unpublished /\ gid' = gid
    BY <1>4 DEF Persist, Recheck, Look, List, PostRefused, Posting, Unpublished
  <2>2. \/ Stop(j, "FAILED") \/ Stop(j, "SKIPPED")
        \/ /\ \E l \in {"recheck", "look", "list", "post", "fallback"} : Goto(j, l)
           /\ status' = status
    BY <1>4 DEF Persist, Recheck, Look, List, PostRefused
  <2>3. Stopped \/ Stayed
    BY <2>1, <2>2 DEF Unpublished, Statuses
  <2> QED
    BY <2>3
<1>5. CASE PostLost(j) \/ PostFails(j)
  <2>1. pc[j] \in Unpublished /\ gid' = gid /\ Again(j)
    BY <1>5 DEF PostLost, PostFails, Posting, Unpublished
  <2>2. Stopped \/ Stayed
    BY <2>1 DEF Again, AfterError, Statuses
  <2> QED
    BY <2>2
<1> QED
  BY <1>1, <1>2, <1>3, <1>4, <1>5 DEF Work

LEMMA WorkSighted ==
    ASSUME WorkerInv, RowsInv, Alone, SightedInv, NEW j \in Jobs, Work(j)
    PROVE  SightedInv'
<1>0. /\ Control /\ RowTypes /\ Shape(j) /\ pull' = pull /\ head' = head
      /\ pc[j] # "idle" /\ status[j] = "RUNNING" /\ status \in [Jobs -> Statuses]
      /\ gid \in [Jobs -> 0..Len(reviews)] /\ found \in [Jobs -> 0..Len(reviews)]
  BY WorkShape DEF WorkerInv, RowsInv, RowTypes, Row, Shape
<1>1. \A k \in Jobs : Marked(k) \subseteq Marked(k)'
  <2>1. reviews' = reviews \/ Created(j)
    BY WorkReviews
  <2> QED
    BY <1>0, <2>1, MarkedGrows
<1>2. Record(j) \/ gid' = gid
  BY WorkGoes DEF Finish, Gate, Look, List, Post
<1>3. Record(j) => pc[j] = "record" /\ gid' = [gid EXCEPT ![j] = found[j]] /\ Goto(j, "finish")
                   /\ status' = status
  BY DEF Record
<1>4. ASSUME NEW k \in Jobs \ {j} PROVE Sighted(k)'
  <2>0. Sighted(k)
    BY DEF SightedInv
  <2>1. pc'[k] = pc[k]
    BY WorkElsewhere DEF Elsewhere
  <2>2. status'[k] = status[k] /\ found'[k] = found[k]
    BY <1>0 DEF Shape, GoesOn, StopsAt, Stop, Leave
  <2>3. gid'[k] = gid[k]
    BY <1>0, <1>2, <1>3
  <2>4. ASSUME pc'[k] \in Unpublished, NEW m \in Jobs, SameHead(k, m)' PROVE gid'[m] = 0
    <3>1. SameHead(k, m) /\ pc[k] \in Unpublished
      BY <1>0, <2>1, <2>4 DEF SameHead
    <3>2. gid[m] = 0
      BY <2>0, <3>1 DEF Sighted
    <3>3. CASE m = j
      <4>1. status[k] = "RUNNING"
        BY <3>1 DEF RowsInv, Row, Unpublished
      <4> QED
        BY <1>0, <3>1, <3>3, <4>1 DEF Alone, SameHead
    <3>4. CASE m # j
      BY <1>0, <1>2, <1>3, <3>2, <3>4
    <3> QED
      BY <3>3, <3>4
  <2>5. gid'[k] # 0 => gid'[k] \in Marked(k)'
    BY <1>1, <2>0, <2>3 DEF Sighted
  <2>6. pc'[k] = "record" => found'[k] \in Marked(k)'
    BY <1>1, <2>0, <2>1, <2>2 DEF Sighted
  <2>7. pc'[k] = "finish" \/ status'[k] = "SUCCEEDED" => gid'[k] # 0
    BY <2>0, <2>1, <2>2, <2>3 DEF Sighted
  <2> QED
    BY <2>4, <2>5, <2>6, <2>7 DEF Sighted
<1>5. Sighted(j)'
  <2>0. Sighted(j)
    BY DEF SightedInv
  <2>1. ASSUME gid' = gid, pc'[j] \notin Unpublished, pc'[j] # "record",
               pc'[j] = "finish" \/ status'[j] = "SUCCEEDED" => gid'[j] # 0
        PROVE  Sighted(j)'
    <3>1. gid'[j] # 0 => gid'[j] \in Marked(j)'
      BY <1>1, <2>0, <2>1 DEF Sighted
    <3> QED
      BY <2>1, <3>1 DEF Sighted
  <2>2. ASSUME gid' = gid, status' = status, pc'[j] = "record", found'[j] \in Marked(j)'
        PROVE  Sighted(j)'
    <3>1. gid'[j] # 0 => gid'[j] \in Marked(j)'
      BY <1>1, <2>0, <2>2 DEF Sighted
    <3> QED
      BY <1>0, <2>2, <3>1 DEF Sighted, Unpublished
  <2>3. ASSUME gid' = gid, status' = status, pc'[j] \in Unpublished,
               \A k \in Jobs : SameHead(j, k) => gid[k] = 0
        PROVE  Sighted(j)'
    <3>1. gid'[j] # 0 => gid'[j] \in Marked(j)'
      BY <1>1, <2>0, <2>3 DEF Sighted
    <3>2. \A k \in Jobs : SameHead(j, k)' => gid'[k] = 0
      BY <1>0, <2>3 DEF SameHead
    <3> QED
      BY <1>0, <2>3, <3>1, <3>2 DEF Sighted, Unpublished
  <2>4. CASE (\E s \in Statuses \ {"RUNNING", "SUCCEEDED"} : Stop(j, s)) /\ gid' = gid
    <3>1. pc'[j] = "idle" /\ status'[j] # "SUCCEEDED"
      BY <1>0, <2>4 DEF Stop, Goto, Control
    <3> QED
      BY <2>1, <2>4, <3>1 DEF Unpublished
  <2>5. CASE Finish(j)
    <3>1. pc[j] = "finish" /\ gid' = gid /\ pc'[j] = "idle"
      BY <1>0, <2>5 DEF Finish, Stop, Goto, Control
    <3>2. gid'[j] # 0
      BY <2>0, <3>1 DEF Sighted
    <3> QED
      BY <2>1, <3>1, <3>2 DEF Unpublished
  <2>6. CASE Gate(j) /\ ~Reviewed(j) /\ Goto(j, "pass") /\ status' = status
    <3>1. gid' = gid /\ pc'[j] = "pass"
      BY <1>0, <2>6 DEF Gate, Goto, Control
    <3>2. \A k \in Jobs : SameHead(j, k) => gid[k] = 0
      BY <2>6 DEF Reviewed
    <3> QED
      BY <2>3, <2>6, <3>1, <3>2 DEF Unpublished
  <2>7. CASE /\ pc[j] \in Unpublished /\ gid' = gid /\ status' = status
             /\ pc' = pc \/ \E l \in Unpublished : Goto(j, l)
    <3>1. pc'[j] \in Unpublished
      BY <1>0, <2>7 DEF Goto, Control
    <3>2. \A k \in Jobs : SameHead(j, k) => gid[k] = 0
      BY <2>0, <2>7 DEF Sighted
    <3> QED
      BY <2>3, <2>7, <3>1, <3>2
  <2>8. CASE Look(j) /\ AutoReviewed(j)
    <3>1. pc[j] \in Unpublished
      BY <2>8 DEF Look, Unpublished
    <3> QED
      BY <2>0, <2>8, <3>1 DEF Sighted, AutoReviewed
  <2>9. CASE List(j) /\ Marked(j) # {}
    <3>1. /\ gid' = gid /\ status' = status /\ Goto(j, "record")
          /\ \E n \in Marked(j) : found' = [found EXCEPT ![j] = n]
      BY <2>9 DEF List
    <3>2. pc'[j] = "record" /\ found'[j] \in Marked(j)
      BY <1>0, <3>1 DEF Goto, Control
    <3> QED
      BY <1>1, <2>2, <3>1, <3>2
  <2>10. CASE Post(j)
    <3>1. /\ gid' = gid /\ status' = status /\ Goto(j, "record") /\ Created(j)
          /\ found' = [found EXCEPT ![j] = Len(reviews) + 1]
      BY <2>10 DEF Post
    <3>2. pc'[j] = "record" /\ found'[j] = Len(reviews) + 1
      BY <1>0, <3>1 DEF Goto, Control
    <3>3. SameHead(j, j)
      BY DEF SameHead
    <3>4. found'[j] \in Marked(j)'
      BY <1>0, <3>1, <3>2, <3>3, MarkedAfter
    <3> QED
      BY <2>2, <3>1, <3>2, <3>4
  <2>11. CASE Record(j)
    <3>1. found[j] \in Marked(j) /\ gid'[j] = found[j] /\ pc'[j] = "finish"
      BY <1>0, <1>3, <2>0, <2>11 DEF Sighted, Goto, Control
    <3>2. found[j] # 0
      BY <3>1 DEF Marked
    <3> QED
      BY <1>1, <3>1, <3>2 DEF Sighted, Unpublished
  <2> QED
    BY <2>4, <2>5, <2>6, <2>7, <2>8, <2>9, <2>10, <2>11, WorkGoes
<1> QED
  BY <1>4, <1>5 DEF SightedInv

LEMMA SightedStep ==
    ASSUME WorkerInv, RowsInv, Alone, SightedInv, [Next]_vars
    PROVE  SightedInv'
<1>0. Control /\ RowTypes /\ status \in [Jobs -> Statuses]
  BY DEF WorkerInv, RowsInv, RowTypes
<1>1. ASSUME NEW k \in Jobs, pull' = pull, head' = head, gid' = gid, reviews' = reviews,
             pc'[k] = pc[k] \/ pc'[k] \in {"idle", "down", "gate"},
             status'[k] = status[k] \/ status'[k] # "SUCCEEDED",
             found'[k] = found[k] \/ pc'[k] # pc[k]
      PROVE  Sighted(k)'
  <2>1. Sighted(k)
    BY DEF SightedInv
  <2>2. Marked(k)' = Marked(k) /\ \A m \in Jobs : SameHead(k, m)' <=> SameHead(k, m)
    BY <1>1 DEF Marked, SameHead
  <2> QED
    BY <1>1, <2>1, <2>2 DEF Sighted, Unpublished
<1>2. ASSUME NEW j \in Jobs, Claim(j) \/ Crash(j) \/ Cancel(j) \/ Recover(j) PROVE SightedInv'
  <2>1. /\ pull' = pull /\ head' = head /\ gid' = gid /\ reviews' = reviews
        /\ \E l \in {"idle", "down", "gate"} : pc' = [pc EXCEPT ![j] = l]
        /\ status' = status \/ \E s \in {"RUNNING", "PENDING", "FAILED"} : status' = [status EXCEPT ![j] = s]
        /\ found' = found \/ (found' = [found EXCEPT ![j] = 0] /\ pc'[j] # pc[j])
    BY <1>0, <1>2 DEF Claim, Crash, Cancel, Recover, Ends, Stop, Leave, Goto, Control
  <2>2. ASSUME NEW k \in Jobs PROVE Sighted(k)'
    <3>1. pc'[k] = pc[k] \/ pc'[k] \in {"idle", "down", "gate"}
      BY <1>0, <2>1 DEF Control
    <3>2. status'[k] = status[k] \/ status'[k] # "SUCCEEDED"
      BY <1>0, <2>1
    <3>3. found'[k] = found[k] \/ pc'[k] # pc[k]
      BY <1>0, <2>1 DEF Control, RowTypes
    <3> QED
      BY <1>1, <2>1, <3>1, <3>2, <3>3
  <2> QED
    BY <2>2 DEF SightedInv
<1>3. CASE \/ \E p \in Pulls : Push(p)
           \/ \E q \in Policies : ChangePolicy(q)
           \/ ExecutorStep /\ UNCHANGED service
           \/ UNCHANGED vars
  <2>1. /\ pull' = pull /\ head' = head /\ gid' = gid /\ reviews' = reviews /\ pc' = pc
        /\ status' = status /\ found' = found
    BY <1>3 DEF Push, ChangePolicy, service, worker, vars
  <2> QED
    BY <1>1, <2>1 DEF SightedInv
<1> QED
  BY <1>2, <1>3, WorkSighted DEF Next

LEMMA SightedHolds ==
    ASSUME RepoLimit = 1
    PROVE  Spec => []SightedInv
<1>1. Init => SightedInv
  BY DEF Init, SightedInv, Sighted, Unpublished
<1>2. WorkerInv /\ RowsInv /\ Alone /\ SightedInv /\ [Next]_vars => SightedInv'
  BY SightedStep
<1> QED
  BY <1>1, <1>2, AloneHolds, WorkerInvHolds, RowsInvHolds, PTL DEF Spec

\* Where the jobs of a repository run one at a time, no job of a head asks the
\* executor once the Review of that head is on record.
THEOREM ReviewedHeadsRest ==
    ASSUME RepoLimit = 1
    PROVE  Spec => []NoRunForReviewedHead
<1>1. SightedInv => NoRunForReviewedHead
  BY DEF SightedInv, Sighted, Unpublished, NoRunForReviewedHead
<1> QED
  BY <1>1, SightedHolds, PTL

\* Where the jobs of a repository run one at a time, a job that succeeded has the
\* id of a Review of its own head on record.
THEOREM SuccessesVisible ==
    ASSUME RepoLimit = 1
    PROVE  Spec => []SuccessIsVisible
<1>1. SightedInv => SuccessIsVisible
  BY DEF SightedInv, Sighted, Marked, SuccessIsVisible
<1> QED
  BY <1>1, SightedHolds, PTL

-----------------------------------------------------------------------------
\* How many Reviews a head gets.

\* The heads that have a Review, and the jobs that may give theirs one more.
Covered == {<<reviews[n].pull, reviews[n].head>> : n \in 1..Len(reviews)}
Repeating == {j \in Jobs : Posting(j) /\ Marked(j) # {}}

\* Each job at its POST whose head has a Review already has lost an answer.
RepeatInv == Len(reviews) + Cardinality(Repeating) <= lost + Cardinality(Covered)

LEMMA FiniteHeads ==
    ASSUME RowTypes
    PROVE  /\ IsFiniteSet(Covered) /\ Cardinality(Covered) \in Nat
           /\ IsFiniteSet(Repeating) /\ Cardinality(Repeating) \in Nat
           /\ Len(reviews) \in Nat /\ lost \in Nat
<1>1. Len(reviews) \in Nat /\ lost \in Nat
  <2>1. lost \in 0..MaxLost
    BY DEF RowTypes
  <2> QED
    BY <2>1 DEF RowTypes
<1>2. IsFiniteSet(1..Len(reviews))
  <2>1. 1 \in Int /\ Len(reviews) \in Int
    BY <1>1
  <2> QED
    BY <2>1, FS_Interval, Zenon
<1>3. IsFiniteSet(Covered)
  <2> DEFINE f == [n \in 1..Len(reviews) |-> <<reviews[n].pull, reviews[n].head>>]
  <2>1. f \in Surjection(1..Len(reviews), Covered)
    BY DEF Covered, Surjection
  <2>2. ExistsSurjection(1..Len(reviews), Covered)
    BY <2>1, Zenon DEF ExistsSurjection
  <2> QED
    BY <1>1, <2>2, FS_NatSurjection, Zenon
<1>4. IsFiniteSet(Repeating)
  <2>1. Repeating \in SUBSET Jobs
    BY DEF Repeating
  <2> QED
    BY <2>1, FS_Subset
<1> QED
  BY <1>1, <1>3, <1>4, FS_CardinalityType

LEMMA CoveredIsMarked ==
    ASSUME NEW j \in Jobs
    PROVE  <<pull[j], head[j]>> \in Covered <=> Marked(j) # {}
  BY DEF Covered, Marked

LEMMA CoveredAfter ==
    ASSUME RowTypes, NEW j \in Jobs, Created(j)
    PROVE  Covered' = Covered \cup {<<pull[j], head[j]>>}
<1>1. /\ Len(reviews') = Len(reviews) + 1
      /\ \A n \in 1..Len(reviews) : reviews'[n] = reviews[n]
      /\ reviews'[Len(reviews) + 1] = [pull |-> pull[j], head |-> head[j], by |-> j]
  BY CreatedTypes
<1>0. Len(reviews) \in Nat
  BY DEF RowTypes
<1>2. PICK last \in Nat : last = Len(reviews)
  BY <1>0
<1>3. PICK new \in Nat : new = last + 1
  OBVIOUS
<1>4. 1..new = (1..last) \cup {new}
  BY <1>3, SMTT(30)
<1>5. reviews'[new].pull = pull[j] /\ reviews'[new].head = head[j]
  BY <1>1, <1>2, <1>3, SMTT(30)
<1>6. Covered' = {<<reviews'[n].pull, reviews'[n].head>> : n \in 1..new}
  BY <1>1, <1>2, <1>3 DEF Covered
<1>7. Covered = {<<reviews'[n].pull, reviews'[n].head>> : n \in 1..last}
  BY <1>1, <1>2 DEF Covered
<1> QED
  BY <1>4, <1>5, <1>6, <1>7

\* No job comes to a POST for a head that has a Review.
LEMMA SameReviewsRepeat ==
    ASSUME RowTypes, RowTypes', RepeatInv, reviews' = reviews, pull' = pull, head' = head,
           lost' = lost,
           \A k \in Jobs : Posting(k)' => Posting(k) \/ Marked(k) = {}
    PROVE  RepeatInv'
<1>1. Covered' = Covered
  BY DEF Covered
<1>2. \A k \in Jobs : Marked(k)' = Marked(k)
  BY DEF Marked
<1>3. Repeating' \subseteq Repeating
  BY <1>2 DEF Repeating
<1>4. Cardinality(Repeating') <= Cardinality(Repeating)
  BY <1>3, FiniteHeads, FS_Subset
<1>5. IsFiniteSet(Repeating') /\ Cardinality(Repeating') \in Nat
  <2>1. Repeating' \in SUBSET Repeating
    BY <1>3
  <2> QED
    BY <2>1, FiniteHeads, FS_Subset, FS_CardinalityType
<1>6. /\ Cardinality(Covered) \in Nat /\ Cardinality(Repeating) \in Nat
      /\ Len(reviews) \in Nat /\ lost \in Nat
  BY FiniteHeads
<1>7. Len(reviews) + Cardinality(Repeating') <= lost + Cardinality(Covered)
  BY <1>4, <1>5, <1>6, SMTT(30) DEF RepeatInv
<1> QED
  BY <1>1, <1>7, Zenon DEF RepeatInv

LEMMA CreatedRepeats ==
    ASSUME WorkerInv, RowsInv, Alone, RepeatInv, NEW j \in Jobs, Posting(j), Created(j),
           pull' = pull, head' = head,
           \A k \in Jobs \ {j} : pc'[k] = pc[k],
           \/ lost' = lost /\ ~Posting(j)'
           \/ lost' = lost + 1
    PROVE  RepeatInv'
<1>0. RowTypes /\ status[j] = "RUNNING"
  BY DEF RowsInv, Row, Posting
<1>1. \A k \in Jobs \ {j} : k \in Repeating' <=> k \in Repeating
  <2> TAKE k \in Jobs \ {j}
  <2>1. Posting(k)' <=> Posting(k)
    BY DEF Posting
  <2>2. ASSUME Posting(k) PROVE Marked(k)' = Marked(k)
    <3>1. status[k] = "RUNNING"
      BY <2>2 DEF Posting, RowsInv, Row
    <3>2. ~SameHead(k, j)
      BY <1>0, <3>1 DEF Alone, SameHead
    <3> QED
      BY <1>0, <3>2, MarkedAfter
  <2> QED
    BY <2>1, <2>2 DEF Repeating
<1>2. j \in Repeating <=> Marked(j) # {}
  BY DEF Repeating
<1>3. lost' = lost => j \notin Repeating'
  BY <1>0, FiniteHeads, SMTT(30) DEF Repeating
<1> DEFINE x == <<pull[j], head[j]>>
           C == Cardinality(Covered)
           R == Cardinality(Repeating)
<1>4. /\ Covered' = Covered \cup {x}
      /\ x \in Covered <=> Marked(j) # {}
  BY <1>0, CoveredAfter, CoveredIsMarked
<1>5. Len(reviews') = Len(reviews) + 1
  BY <1>0, CreatedTypes
<1>6. /\ IsFiniteSet(Covered) /\ C \in Nat /\ IsFiniteSet(Repeating) /\ R \in Nat
      /\ Len(reviews) \in Nat /\ lost \in Nat
  BY <1>0, FiniteHeads
<1>7. Len(reviews) + R <= lost + C
  BY DEF RepeatInv
<1>8. Repeating' \subseteq Jobs /\ Repeating \subseteq Jobs
  BY DEF Repeating
<1> HIDE DEF x
<1>9. CASE Marked(j) = {}
  <2>1. Cardinality(Covered') = C + 1
    BY <1>4, <1>6, <1>9, FS_AddElement
  <2>2. Repeating' = Repeating \/ Repeating' = Repeating \cup {j}
    <3>1. j \notin Repeating
      BY <1>2, <1>9
    <3>2. CASE j \in Repeating'
      <4>1. \A k : k \in Repeating' <=> k \in Repeating \cup {j}
        BY <1>1, <1>8, <3>2
      <4> QED
        BY <4>1
    <3>3. CASE j \notin Repeating'
      <4>1. \A k : k \in Repeating' <=> k \in Repeating
        BY <1>1, <1>8, <3>1, <3>3
      <4> QED
        BY <4>1
    <3> QED
      BY <3>2, <3>3
  <2>3. /\ Cardinality(Repeating') \in Nat
        /\ Cardinality(Repeating') <= R + 1
        /\ lost' = lost => Cardinality(Repeating') = R
    <3>1. CASE Repeating' = Repeating
      BY <1>6, <3>1, SMTT(30)
    <3>2. CASE Repeating' = Repeating \cup {j}
      <4>1. Cardinality(Repeating') = R + 1
        BY <1>2, <1>6, <1>9, <3>2, FS_AddElement
      <4> QED
        BY <1>3, <1>6, <3>2, <4>1, SMTT(30)
    <3> QED
      BY <2>2, <3>1, <3>2
  <2>4. (lost' = lost \/ lost' = lost + 1) /\ lost' \in Nat
    BY <1>6, SMTT(30)
  <2>5. Len(reviews) + 1 + Cardinality(Repeating') <= lost' + (C + 1)
    <3> HIDE DEF C, R
    <3> QED
      BY <1>6, <1>7, <2>3, <2>4, OneMore, Zenon
  <2> QED
    BY <1>5, <2>1, <2>5 DEF RepeatInv
<1>10. CASE Marked(j) # {}
  <2>1. Covered' = Covered
    BY <1>4, <1>10
  <2>2. Repeating' = Repeating \/ Repeating' = Repeating \ {j}
    <3>1. j \in Repeating
      BY <1>2, <1>10
    <3>2. CASE j \in Repeating'
      <4>1. \A k : k \in Repeating' <=> k \in Repeating
        BY <1>1, <1>8, <3>1, <3>2
      <4> QED
        BY <4>1
    <3>3. CASE j \notin Repeating'
      <4>1. \A k : k \in Repeating' <=> k \in Repeating \ {j}
        BY <1>1, <1>8, <3>3
      <4> QED
        BY <4>1
    <3> QED
      BY <3>2, <3>3
  <2>3. lost' = lost => Repeating' = Repeating \ {j}
    BY <1>2, <1>3, <1>10, <2>2
  <2>4. Cardinality(Repeating \ {j}) = R - 1
    BY <1>2, <1>6, <1>10, FS_RemoveElement
  <2>5. (lost' = lost \/ lost' = lost + 1) /\ lost' \in Nat
    BY <1>6, SMTT(30)
  <2>6. /\ Cardinality(Repeating') \in Nat /\ Cardinality(Repeating') <= R
        /\ lost' = lost => Cardinality(Repeating') + 1 = R
    <3>1. IsFiniteSet(Repeating \ {j})
      BY <1>6, FS_RemoveElement
    <3>2. Cardinality(Repeating \ {j}) \in Nat
      BY <3>1, FS_CardinalityType
    <3>3. (R - 1) + 1 = R /\ R - 1 <= R /\ R <= R
      BY <1>6, SMTT(30)
    <3> QED
      BY <1>6, <2>2, <2>3, <2>4, <3>2, <3>3, Zenon
  <2>7. Len(reviews) + 1 + Cardinality(Repeating') <= lost' + C
    <3> HIDE DEF C, R
    <3> QED
      BY <1>6, <1>7, <2>5, <2>6, OneMore, Zenon
  <2> QED
    BY <1>5, <2>1, <2>7 DEF RepeatInv
<1> QED
  BY <1>9, <1>10

LEMMA RepeatStep ==
    ASSUME WorkerInv, RowsInv, Alone, RepeatInv, [Next]_vars
    PROVE  RepeatInv'
<1>0. Control /\ RowTypes /\ RowTypes'
  BY RowsStep DEF WorkerInv, RowsInv
<1>1. ASSUME NEW j \in Jobs, Work(j) PROVE RepeatInv'
  <2>1. Shape(j) /\ \A k \in Jobs \ {j} : pc'[k] = pc[k]
    BY <1>1, WorkShape, WorkElsewhere DEF Elsewhere
  <2>2. pull' = pull /\ head' = head
    BY <2>1 DEF Shape
  <2>3. CASE Post(j) \/ PostLost(j)
    <3>1. Posting(j) /\ Created(j)
      BY <2>3 DEF Post, PostLost
    <3>2. \/ lost' = lost /\ ~Posting(j)'
          \/ lost' = lost + 1
      BY <1>0, <2>3 DEF Post, PostLost, Posting, Goto, Control
    <3> QED
      BY <2>1, <2>2, <3>1, <3>2, CreatedRepeats
  <2>4. CASE ~(Post(j) \/ PostLost(j))
    <3>1. reviews' = reviews /\ lost' = lost
      BY <1>1, <2>4 DEF Work, Gate, Unreviewable, ReadFails, ResumePass, CountBudget, Reserve,
         Call, NoCall, Answered, TimesOut, Persist, Recheck, Look, List, PostFails, PostRefused,
         Record, Finish
    <3>2. Posting(j)' => Posting(j) \/ Marked(j) = {}
      <4>1. CASE List(j) /\ Marked(j) # {}
        BY <1>0, <4>1 DEF List, Goto, Control, Posting
      <4>2. CASE PostFails(j) \/ PostRefused(j)
        BY <4>2 DEF PostFails, PostRefused
      <4>3. CASE ~(List(j) \/ PostFails(j) \/ PostRefused(j))
        <5>1. \/ \E s : Stop(j, s)
              \/ \E l \in {"pass", "reserve", "call", "answer", "recheck", "look", "list", "record",
                          "finish"} : Goto(j, l)
          BY <1>1, <2>4, <4>3, ErrorStops DEF Work, Gate, Unreviewable, ReadFails, ResumePass,
             CountBudget, Reserve, Call, NoCall, Answered, TimesOut, Persist, Recheck, Look,
             Record, Finish, NextPass
        <5> QED
          BY <1>0, <5>1 DEF Stop, Goto, Control, Posting
      <4> QED
        BY <4>1, <4>2, <4>3
    <3>3. \A k \in Jobs : Posting(k)' => Posting(k) \/ Marked(k) = {}
      BY <2>1, <3>2 DEF Posting
    <3> QED
      BY <1>0, <2>2, <3>1, <3>3, SameReviewsRepeat
  <2> QED
    BY <2>3, <2>4
<1>2. ASSUME NEW j \in Jobs, Claim(j) \/ Crash(j) \/ Cancel(j) \/ Recover(j) PROVE RepeatInv'
  <2>1. /\ pull' = pull /\ head' = head /\ reviews' = reviews /\ lost' = lost
        /\ \E l \in {"idle", "down", "gate"} : pc' = [pc EXCEPT ![j] = l]
    BY <1>2 DEF Claim, Crash, Cancel, Recover, Ends, Stop, Goto
  <2>2. \A k \in Jobs : Posting(k)' => Posting(k)
    BY <1>0, <2>1 DEF Posting, Control
  <2> QED
    BY <1>0, <2>1, <2>2, SameReviewsRepeat
<1>3. CASE \/ \E p \in Pulls : Push(p)
           \/ \E q \in Policies : ChangePolicy(q)
           \/ ExecutorStep /\ UNCHANGED service
           \/ UNCHANGED vars
  <2>1. /\ pull' = pull /\ head' = head /\ reviews' = reviews /\ lost' = lost /\ pc' = pc
    BY <1>3 DEF Push, ChangePolicy, service, worker, vars
  <2>2. \A k \in Jobs : Posting(k)' => Posting(k)
    BY <2>1 DEF Posting
  <2> QED
    BY <1>0, <2>1, <2>2, SameReviewsRepeat
<1> QED
  BY <1>1, <1>2, <1>3 DEF Next

LEMMA RepeatInit == Init => RepeatInv
<1> SUFFICES ASSUME Init PROVE RepeatInv
  OBVIOUS
<1>1. Len(reviews) = 0 /\ lost = 0
  BY DEF Init
<1>2. Covered = {} /\ Repeating = {}
  BY <1>1 DEF Init, Covered, Repeating, Posting
<1> QED
  BY <1>1, <1>2, FS_EmptySet DEF RepeatInv

\* Where the jobs of a repository run one at a time, only a lost answer to the
\* POST makes a second Review of a head.
THEOREM DuplicatesLost ==
    ASSUME RepoLimit = 1
    PROVE  Spec => []DuplicatesAreLost
<1>1. Init => RepeatInv
  BY RepeatInit
<1>2. WorkerInv /\ RowsInv /\ Alone /\ RepeatInv /\ [Next]_vars => RepeatInv'
  BY RepeatStep
<1>3. RowsInv /\ RepeatInv => DuplicatesAreLost
  <2> SUFFICES ASSUME RowsInv, RepeatInv PROVE DuplicatesAreLost
    OBVIOUS
  <2>1. Len(reviews) + Cardinality(Repeating) <= lost + Cardinality(Covered)
    BY DEF RepeatInv
  <2>2. Duplicates = Len(reviews) - Cardinality(Covered)
    BY Zenon DEF Duplicates, Covered
  <2> QED
    BY <2>1, <2>2, FiniteHeads, SMTT(30) DEF RowsInv, DuplicatesAreLost
<1> QED
  BY <1>1, <1>2, <1>3, AloneHolds, WorkerInvHolds, RowsInvHolds, PTL DEF Spec
=============================================================================
