--------------------------- MODULE ExecutorProofs ---------------------------
\* Proofs about Executor: type correctness, and that an identity starts at most
\* one process for any number of identities, callers, records, restarts and
\* failed writes.

EXTENDS Executor, TLAPS

USE ExecutorAssumption
USE DEF disk, ghosts

\* What a step does to the files: the files of G go, that of i may be written.
LEMMA FilesAfter ==
    ASSUME TypeOK, NEW i \in Ids, NEW r \in Records,
           Write(i, r) \/ WriteFails(i, r)
    PROVE  /\ record' \in [Ids -> Records \cup {NoRecord}]
           /\ newer' \in [Ids -> SUBSET Ids]
           /\ pruned' \in SUBSET Ids
           /\ faults' \in 0..MaxFaults
           /\ pruned \subseteq pruned'
           /\ \A j \in Ids : \/ record'[j] = record[j]
                             \/ record'[j] = NoRecord /\ j \in pruned'
                             \/ j = i /\ record'[j] = r
<1>1. CASE UNCHANGED disk /\ faults' \in 0..MaxFaults
  <2>1. record' = record /\ newer' = newer /\ pruned' = pruned
    BY <1>1
  <2>2. \A j \in Ids : record'[j] = record[j]
    BY <2>1
  <2> QED
    BY <1>1, <2>1, <2>2 DEF TypeOK
<1>2. CASE \E G \in SUBSET Ids : WriteThen(i, r, G) /\ faults' \in 0..MaxFaults
  <2>1. PICK G \in SUBSET Ids : WriteThen(i, r, G) /\ faults' \in 0..MaxFaults
    BY <1>2
  <2>2. Later(i) \in [Ids -> SUBSET Ids]
    BY DEF Later, TypeOK
  <2>3. record' = [j \in Ids |-> IF j \in G THEN NoRecord ELSE IF j = i THEN r ELSE record[j]]
    BY <2>1 DEF WriteThen
  <2>4. record' \in [Ids -> Records \cup {NoRecord}]
    BY <2>3 DEF TypeOK
  <2>5. newer' \in [Ids -> SUBSET Ids]
    BY <2>1, <2>2 DEF WriteThen
  <2>6. pruned' \in SUBSET Ids /\ pruned \subseteq pruned' /\ G \subseteq pruned'
    BY <2>1 DEF WriteThen, TypeOK
  <2>7. \A j \in Ids : \/ record'[j] = record[j]
                       \/ record'[j] = NoRecord /\ j \in pruned'
                       \/ j = i /\ record'[j] = r
    BY <2>3, <2>6
  <2> QED
    BY <2>1, <2>4, <2>5, <2>6, <2>7
<1>3. CASE Write(i, r)
  <2>1. PICK G \in Removable(i) : WriteThen(i, r, G) /\ faults' = faults
    BY <1>3 DEF Write
  <2>2. G \in SUBSET Ids
    BY DEF Removable, Files
  <2> QED
    BY <1>2, <2>1, <2>2 DEF TypeOK
<1>4. CASE WriteFails(i, r)
  <2>1. faults' \in 0..MaxFaults
    BY <1>4 DEF WriteFails, TypeOK
  <2>2. UNCHANGED disk \/ WriteThen(i, r, {})
    BY <1>4 DEF WriteFails
  <2> QED
    BY <1>1, <1>2, <2>1, <2>2
<1> QED
  BY <1>3, <1>4

\* A write that reports success leaves the file of its identity in place.
LEMMA WrittenStays ==
    ASSUME NEW i \in Ids, NEW r \in Records, Write(i, r)
    PROVE  record'[i] = r
<1>1. PICK G \in Removable(i) : WriteThen(i, r, G)
  BY DEF Write
<1>2. i \notin G
  BY DEF Removable, Files
<1> QED
  BY <1>1, <1>2 DEF WriteThen

\* An answer keeps the types of the calls.
LEMMA AnswerTypes ==
    ASSUME call \in [Callers -> Calls \cup {Idle}],
           NEW c \in Callers \cup {None}, NEW reply \in Replies,
           c # None => call[c] \in Calls, Answer(c, reply)
    PROVE  call' \in [Callers -> Calls \cup {Idle}]
BY DEF Answer, Calls

\* A caller that is owed an answer waits for it, and for one answer.
CallersWait ==
    /\ \A q \in net : q.caller # None =>
          /\ call[q.caller].st = "open"
          /\ call[q.caller].id = q.id /\ call[q.caller].digest = q.digest
    /\ \A q, p \in net : q.caller = p.caller /\ q.caller # None => q = p
    /\ running.caller # None =>
          /\ call[running.caller].st = "waiting"
          /\ call[running.caller].id = running.id /\ call[running.caller].digest = running.digest

TypeInv == TypeOK /\ CallersWait

LEMMA RequestTypes ==
    ASSUME TypeInv, NEW q \in net
    PROVE  /\ q.id \in Ids /\ q.digest \in Digests /\ q.caller \in Callers \cup {None}
           /\ q.caller # None => call[q.caller] \in Calls
BY DEF TypeInv, TypeOK, CallersWait, Requests, Idle

LEMMA RunningTypes ==
    ASSUME TypeInv, running # Nobody
    PROVE  /\ running.id \in Ids /\ running.digest \in Digests
           /\ running.caller \in Callers \cup {None} /\ running.spawned \in BOOLEAN
           /\ running.caller # None => call[running.caller] \in Calls
BY DEF TypeInv, TypeOK, CallersWait, Nobody, Idle

\* A request that is answered at once.
LEMMA ReplyTypes ==
    ASSUME TypeInv, NEW q \in net, NEW reply \in Replies, Reply(q, reply),
           record' \in [Ids -> Records \cup {NoRecord}], newer' \in [Ids -> SUBSET Ids],
           pruned' \in SUBSET Ids, faults' \in 0..MaxFaults
    PROVE  TypeInv'
<1>1. call' \in [Callers -> Calls \cup {Idle}]
  BY RequestTypes, AnswerTypes DEF TypeInv, TypeOK, Reply
<1>2. TypeOK'
  BY <1>1 DEF TypeInv, TypeOK, Reply
<1>3. \A c \in Callers : c # q.caller => call'[c] = call[c]
  BY DEF Reply, Answer, TypeInv, TypeOK
<1>4. CallersWait'
  BY <1>3 DEF CallersWait, TypeInv, TypeOK, Reply, Requests, Nobody
<1> QED
  BY <1>2, <1>4 DEF TypeInv

\* The lock is freed, and the caller of the run is answered.
LEMMA ReleaseTypes ==
    ASSUME TypeInv, running # Nobody, running' = Nobody, NEW reply \in Replies,
           Answer(running.caller, reply), UNCHANGED <<ghosts, seen, net, restarts>>,
           record' \in [Ids -> Records \cup {NoRecord}], newer' \in [Ids -> SUBSET Ids],
           pruned' \in SUBSET Ids, faults' \in 0..MaxFaults
    PROVE  TypeInv'
<1>1. call' \in [Callers -> Calls \cup {Idle}]
  BY RunningTypes, AnswerTypes DEF TypeInv, TypeOK
<1>2. TypeOK'
  BY <1>1 DEF TypeInv, TypeOK
<1>3. \A c \in Callers : c # running.caller => call'[c] = call[c]
  BY DEF Answer, TypeInv, TypeOK
<1>4. CallersWait'
  BY <1>3 DEF CallersWait, TypeInv, TypeOK, Requests, Nobody
<1> QED
  BY <1>2, <1>4 DEF TypeInv

LEMMA TypeStep ==
    ASSUME TypeInv, [Next]_vars
    PROVE  TypeInv'
<1>1. ASSUME NEW c \in Callers, NEW i \in Ids, NEW d \in Digests, Send(c, i, d) PROVE TypeInv'
  <2>1. TypeOK'
    BY <1>1 DEF Send, TypeInv, TypeOK, Calls, Replies, Requests
  <2>2. CallersWait'
    BY <1>1 DEF Send, TypeInv, TypeOK, CallersWait, Requests, Idle, Nobody
  <2> QED
    BY <2>1, <2>2 DEF TypeInv
<1>2. ASSUME NEW c \in Callers, Abandon(c) PROVE TypeInv'
  <2>1. TypeOK'
    BY <1>2 DEF Abandon, TypeInv, TypeOK, Requests, Nobody
  <2>2. CallersWait'
    BY <1>2 DEF Abandon, TypeInv, TypeOK, CallersWait, Requests, Nobody
  <2> QED
    BY <2>1, <2>2 DEF TypeInv
<1>3. ASSUME NEW c \in Callers, Take(c) PROVE TypeInv'
  BY <1>3 DEF Take, TypeInv, TypeOK, CallersWait, Requests, Nobody
<1>4. ASSUME NEW q \in net, Receive(q) PROVE TypeInv'
  <2> USE RequestTypes
  <2>1. CASE Unreadable(q) \/ Replay(q) \/ Conflict(q) \/ InProgress(q) \/ Busy(q)
    <3>1. PICK reply \in Replies : Reply(q, reply)
      BY <2>1 DEF Unreadable, Replay, Conflict, InProgress, Busy, Replies
    <3>2. UNCHANGED <<disk, faults>>
      BY <2>1 DEF Unreadable, Replay, Conflict, InProgress, Busy
    <3> QED
      BY <3>1, <3>2, ReplyTypes DEF TypeInv, TypeOK
  <2>2. CASE Admit(q)
    <3> DEFINE r == [state |-> "RUNNING", digest |-> q.digest]
    <3>1. r \in Records /\ Write(q.id, r)
      BY <2>2 DEF Admit, Records
    <3>2. /\ record' \in [Ids -> Records \cup {NoRecord}] /\ newer' \in [Ids -> SUBSET Ids]
          /\ pruned' \in SUBSET Ids /\ faults' \in 0..MaxFaults
      BY <3>1, FilesAfter DEF TypeInv
    <3>3. call' \in [Callers -> Calls \cup {Idle}]
      BY <2>2 DEF Admit, TypeInv, TypeOK, Calls
    <3>4. TypeOK'
      BY <2>2, <3>2, <3>3 DEF Admit, TypeInv, TypeOK
    <3>5. CallersWait'
      BY <2>2 DEF Admit, TypeInv, TypeOK, CallersWait, Requests, Calls, Idle
    <3> QED
      BY <3>4, <3>5 DEF TypeInv
  <2>3. CASE AdmitFails(q)
    <3> DEFINE r == [state |-> "RUNNING", digest |-> q.digest]
    <3>1. r \in Records /\ WriteFails(q.id, r)
      BY <2>3 DEF AdmitFails, Records
    <3>2. Reply(q, "STATE_UNAVAILABLE")
      BY <2>3 DEF AdmitFails
    <3> QED
      BY <3>1, <3>2, FilesAfter, ReplyTypes DEF TypeInv, Replies
  <2> QED
    BY <1>4, <2>1, <2>2, <2>3 DEF Receive
<1>5. CASE Reject
  BY <1>5, ReleaseTypes DEF Reject, Replies, TypeInv, TypeOK
<1>6. CASE Spawn
  <2>1. running' = [id |-> running.id, digest |-> running.digest, caller |-> running.caller,
                    spawned |-> TRUE]
    BY <1>6 DEF Spawn, TypeInv, TypeOK, Nobody
  <2>3. procs' \in [Ids -> Nat] /\ life' \in [Ids -> Nat] /\ ran' \in [Ids -> SUBSET Digests]
    BY <1>6, RunningTypes DEF Spawn, TypeInv, TypeOK
  <2>4. TypeOK'
    BY <1>6, <2>1, <2>3, RunningTypes DEF Spawn, TypeInv, TypeOK
  <2>2. CallersWait'
    BY <1>6 DEF Spawn, TypeInv, TypeOK, CallersWait, Nobody
  <2> QED
    BY <2>4, <2>2 DEF TypeInv
<1>7. ASSUME NEW s \in {"SUCCEEDED", "FAILED"}, Finish(s) \/ FinishNotDurable(s) PROVE TypeInv'
  <2> DEFINE r == [state |-> s, digest |-> running.digest]
  <2>1. running # Nobody /\ running' = Nobody /\ UNCHANGED <<ghosts, seen, net, restarts>>
    BY <1>7 DEF Finish, FinishNotDurable
  <2>2. r \in Records /\ (Write(running.id, r) \/ WriteFails(running.id, r))
    BY <1>7, <2>1, RunningTypes DEF Finish, FinishNotDurable, Records
  <2>3. PICK reply \in Replies : Answer(running.caller, reply)
    BY <1>7 DEF Finish, FinishNotDurable, Replies
  <2>4. running.id \in Ids
    BY <2>1, RunningTypes
  <2>5. /\ record' \in [Ids -> Records \cup {NoRecord}] /\ newer' \in [Ids -> SUBSET Ids]
        /\ pruned' \in SUBSET Ids /\ faults' \in 0..MaxFaults
    BY <2>2, <2>4, FilesAfter DEF TypeInv
  <2> QED
    BY <2>1, <2>3, <2>5, ReleaseTypes
<1>8. CASE Restart
  <2>3. ASSUME NEW c \in Callers PROVE call'[c] \in Calls \cup {Idle}
    <3>1. CASE call[c].st \in {"open", "waiting"}
      <4>1. call[c] \in Calls
        BY <3>1 DEF TypeInv, TypeOK, Idle
      <4>2. call'[c] = [call[c] EXCEPT !.st = "answered", !.reply = "DISCONNECTED"]
        BY <1>8, <3>1 DEF Restart
      <4> QED
        BY <4>1, <4>2 DEF Calls, Replies
    <3>2. CASE call[c].st \notin {"open", "waiting"}
      BY <1>8, <3>2 DEF Restart, TypeInv, TypeOK
    <3> QED
      BY <3>1, <3>2
  <2>4. call' \in [Callers -> Calls \cup {Idle}]
    BY <1>8, <2>3 DEF Restart
  <2>5. life' \in [Ids -> Nat]
    BY <1>8 DEF Restart
  <2>6. restarts' \in 0..MaxRestarts
    <3>1. restarts \in 0..MaxRestarts
      BY DEF TypeInv, TypeOK
    <3>2. restarts < MaxRestarts /\ restarts' = restarts + 1
      BY <1>8 DEF Restart
    <3> QED
      BY <3>1, <3>2
  <2>1. TypeOK'
    BY <1>8, <2>4, <2>5, <2>6 DEF Restart, TypeInv, TypeOK
  <2>2. CallersWait'
    BY <1>8 DEF Restart, CallersWait, Nobody
  <2> QED
    BY <2>1, <2>2 DEF TypeInv
<1>9. CASE UNCHANGED vars
  BY <1>9 DEF vars, TypeInv, TypeOK, CallersWait
<1> QED
  BY <1>1, <1>2, <1>3, <1>4, <1>5, <1>6, <1>7, <1>8, <1>9 DEF Next

\* Every value a variable takes is of its type, and a caller that waits is owed
\* exactly one answer, by a request in the net or by the run under the lock.
THEOREM TypeCorrect == Spec => []TypeOK
<1>1. Init => TypeInv
  BY DEF Init, TypeInv, TypeOK, CallersWait, Nobody, Idle, NoRecord
<1>2. TypeInv /\ [Next]_vars => TypeInv'
  BY TypeStep
<1>3. TypeInv => TypeOK
  BY DEF TypeInv
<1> QED
  BY <1>1, <1>2, <1>3, PTL DEF Spec

-----------------------------------------------------------------------------
\* The inductive invariant behind the at-most-once properties: an identity that
\* has started a process left a trace of it, in memory for this life of the
\* executor and on the volume for all of them.

InMemory == \A i \in Ids : life[i] <= 1 /\ (life[i] = 1 => i \in seen)

OnVolume == \A i \in Ids \ pruned : procs[i] <= 1 /\ (procs[i] = 1 => record[i] # NoRecord)

RunIsNew ==
    running # Nobody =>
        /\ running.id \in seen
        /\ running.id \in pruned
             \/ record[running.id] = [state |-> "RUNNING", digest |-> running.digest]
        /\ ~running.spawned =>
             life[running.id] = 0 /\ (running.id \in pruned \/ procs[running.id] = 0)
        /\ running.spawned => running.digest \in ran[running.id]

ResultsWereRun ==
    \A i \in Ids : record[i].state = "SUCCEEDED" => record[i].digest \in ran[i]

IInv == TypeInv /\ InMemory /\ OnVolume /\ RunIsNew /\ ResultsWereRun
              /\ ResultIsOfRequest /\ ResultIsDurable

LEMMA InitIInv == Init => IInv
BY DEF Init, IInv, TypeInv, TypeOK, CallersWait, InMemory, OnVolume, RunIsNew, ResultsWereRun,
       ResultIsOfRequest, ResultIsDurable, Nobody, Idle, NoRecord

\* What the core of the invariant is about does not change.
Still ==
    /\ UNCHANGED <<record, seen, procs, life, ran, pruned>>
    /\ running' = running
         \/ \E c \in Callers \cup {None} : running # Nobody /\ running' = [running EXCEPT !.caller = c]

Core == InMemory /\ OnVolume /\ RunIsNew /\ ResultsWereRun

LEMMA StillCore ==
    ASSUME IInv, Still
    PROVE  Core'
<1> USE DEF IInv, TypeInv, TypeOK, Still, Core
<1>1. InMemory' /\ OnVolume' /\ ResultsWereRun'
  BY DEF InMemory, OnVolume, ResultsWereRun
<1>2. CASE running' = running
  BY <1>1, <1>2 DEF RunIsNew
<1>3. ASSUME NEW c \in Callers \cup {None}, running # Nobody,
             running' = [running EXCEPT !.caller = c]
      PROVE  RunIsNew'
  <2>1. /\ running'.id = running.id /\ running'.digest = running.digest
        /\ running'.spawned = running.spawned
    BY <1>3 DEF Nobody
  <2> QED
    BY <1>3, <2>1 DEF RunIsNew
<1> QED
  BY <1>1, <1>2, <1>3

LEMMA AdmitCore ==
    ASSUME IInv, NEW q \in net, Admit(q)
    PROVE  Core'
<1> USE DEF IInv, Core
<1> DEFINE r == [state |-> "RUNNING", digest |-> q.digest]
<1>1. q.id \in Ids /\ q.digest \in Digests
  BY RequestTypes
<1>2. r \in Records /\ Write(q.id, r)
  BY <1>1 DEF Admit, Records
<1>3. record[q.id] = NoRecord /\ q.id \notin seen /\ seen' = seen \cup {q.id}
  BY DEF Admit, New
<1>4. running' = [id |-> q.id, digest |-> q.digest, caller |-> q.caller, spawned |-> FALSE]
  BY DEF Admit
<1>5. UNCHANGED <<procs, life, ran>>
  BY DEF Admit
<1>6. /\ pruned \subseteq pruned'
      /\ \A j \in Ids : \/ record'[j] = record[j]
                        \/ record'[j] = NoRecord /\ j \in pruned'
                        \/ j = q.id /\ record'[j] = r
  BY <1>1, <1>2, FilesAfter DEF TypeInv
<1>7. record'[q.id] = r
  BY <1>1, <1>2, WrittenStays
<1>8. life[q.id] = 0 /\ (q.id \in pruned \/ procs[q.id] = 0)
  BY <1>1, <1>3 DEF InMemory, OnVolume, TypeInv, TypeOK
<1>9. InMemory'
  BY <1>3, <1>5 DEF InMemory
<1>10. OnVolume'
  BY <1>5, <1>6, <1>7 DEF OnVolume, NoRecord
<1>11. RunIsNew'
  BY <1>3, <1>4, <1>5, <1>6, <1>7, <1>8 DEF RunIsNew
<1>12. ResultsWereRun'
  BY <1>5, <1>6 DEF ResultsWereRun, NoRecord
<1> QED
  BY <1>9, <1>10, <1>11, <1>12

\* A record is written, or not, when no other run is under way afterwards.
LEMMA StoreCore ==
    ASSUME IInv, NEW i \in Ids, NEW r \in Records,
           Write(i, r) \/ WriteFails(i, r), running' = Nobody,
           UNCHANGED <<seen, procs, life, ran>>,
           r.state = "SUCCEEDED" => r.digest \in ran[i]
    PROVE  Core'
<1> USE DEF IInv, Core
<1>1. /\ pruned \subseteq pruned'
      /\ \A j \in Ids : \/ record'[j] = record[j]
                        \/ record'[j] = NoRecord /\ j \in pruned'
                        \/ j = i /\ record'[j] = r
  BY FilesAfter DEF TypeInv
<1>2. InMemory' /\ RunIsNew'
  BY DEF InMemory, RunIsNew
<1>3. OnVolume'
  BY <1>1 DEF OnVolume, NoRecord, Records
<1>4. ResultsWereRun'
  BY <1>1 DEF ResultsWereRun, NoRecord
<1> QED
  BY <1>2, <1>3, <1>4

LEMMA SpawnCore ==
    ASSUME IInv, Spawn
    PROVE  Core'
<1> USE DEF IInv, Core
<1> DEFINE i == running.id
<1>1. i \in Ids /\ running.digest \in Digests /\ running # Nobody /\ ~running.spawned
  BY RunningTypes DEF Spawn
<1>2. /\ running' # Nobody /\ running'.id = i /\ running'.digest = running.digest
      /\ running'.spawned
  BY <1>1 DEF Spawn, TypeInv, TypeOK, Nobody
<1>3. /\ UNCHANGED <<record, pruned, seen>>
      /\ procs' = [procs EXCEPT ![i] = @ + 1] /\ life' = [life EXCEPT ![i] = @ + 1]
      /\ ran' = [ran EXCEPT ![i] = @ \cup {running.digest}]
  BY DEF Spawn
<1>4. /\ i \in seen /\ life[i] = 0
      /\ i \in pruned \/ procs[i] = 0
      /\ i \in pruned \/ record[i] = [state |-> "RUNNING", digest |-> running.digest]
  BY <1>1 DEF RunIsNew
<1>5. InMemory'
  BY <1>1, <1>3, <1>4 DEF InMemory, TypeInv, TypeOK
<1>6. OnVolume'
  BY <1>1, <1>3, <1>4 DEF OnVolume, TypeInv, TypeOK, NoRecord
<1>7. RunIsNew'
  BY <1>1, <1>2, <1>3, <1>4 DEF RunIsNew, TypeInv, TypeOK
<1>8. ResultsWereRun'
  BY <1>1, <1>3 DEF ResultsWereRun, TypeInv, TypeOK
<1> QED
  BY <1>5, <1>6, <1>7, <1>8

\* A step that keeps the stored results, and tells a caller of a result only
\* when it is stored, keeps what is said of results.
Fresh(c) ==
    LET i == call'[c].id IN
    /\ call'[c].digest \in ran'[i]
    /\ i \in pruned' \/ record'[i] = [state |-> "SUCCEEDED", digest |-> call'[c].digest]

Tells == \A c \in Callers :
    call'[c].reply = "RESULT" =>
        \/ call'[c].id = call[c].id /\ call'[c].digest = call[c].digest /\ call[c].reply = "RESULT"
        \/ Fresh(c)

Keeps ==
    /\ \A i \in Ids : ran[i] \subseteq ran'[i]
    /\ pruned \subseteq pruned'
    /\ \A i \in Ids \ pruned' : record[i].state = "SUCCEEDED" => record'[i] = record[i]

LEMMA ResultsKept ==
    ASSUME IInv, Tells, Keeps
    PROVE  ResultIsOfRequest' /\ ResultIsDurable'
<1>1. ASSUME NEW c \in Callers, call'[c].reply = "RESULT"
      PROVE  /\ call'[c].digest \in ran'[call'[c].id]
             /\ call'[c].id \notin pruned' =>
                  record'[call'[c].id] = [state |-> "SUCCEEDED", digest |-> call'[c].digest]
  <2>1. CASE Fresh(c)
    BY <2>1 DEF Fresh
  <2>2. CASE /\ call'[c].id = call[c].id /\ call'[c].digest = call[c].digest
             /\ call[c].reply = "RESULT"
    <3>1. call[c].id \in Ids
      BY <2>2 DEF IInv, TypeInv, TypeOK, Calls, Idle
    <3>2. /\ call[c].digest \in ran[call[c].id]
          /\ call[c].id \notin pruned =>
               record[call[c].id] = [state |-> "SUCCEEDED", digest |-> call[c].digest]
      BY <2>2 DEF IInv, ResultIsOfRequest, ResultIsDurable
    <3> QED
      BY <2>2, <3>1, <3>2 DEF Keeps
  <2> QED
    BY <1>1, <2>1, <2>2 DEF Tells
<1> QED
  BY <1>1 DEF ResultIsOfRequest, ResultIsDurable

\* A record of a finished execution is not written again.
LEMMA StoreKeeps ==
    ASSUME IInv, NEW i \in Ids, NEW r \in Records,
           Write(i, r) \/ WriteFails(i, r), ran' = ran,
           i \in pruned \/ record[i].state # "SUCCEEDED"
    PROVE  Keeps
BY FilesAfter DEF Keeps, IInv, TypeInv

LEMMA ReplyStep ==
    ASSUME IInv, NEW q \in net,
           Unreadable(q) \/ Replay(q) \/ Conflict(q) \/ InProgress(q) \/ Busy(q)
    PROVE  Still /\ Tells /\ Keeps
<1>1. PICK reply \in Replies :
         /\ Reply(q, reply)
         /\ reply = "RESULT" => record[q.id] = [state |-> "SUCCEEDED", digest |-> q.digest]
  <2>1. CASE Replay(q)
    BY <2>1, RequestTypes DEF Replay, Replies, IInv, TypeInv, TypeOK, Records, NoRecord
  <2> QED
    BY <2>1 DEF Unreadable, Conflict, InProgress, Busy, Replies
<1>2. UNCHANGED <<record, pruned, seen, procs, life, ran, running>>
  BY DEF Unreadable, Replay, Conflict, InProgress, Busy, Reply
<1>3. Still /\ Keeps
  BY <1>2 DEF Still, Keeps
<1>4. ASSUME NEW c \in Callers, call'[c].reply = "RESULT", c # q.caller
      PROVE  call'[c] = call[c]
  BY <1>1, <1>4 DEF Reply, Answer, IInv, TypeInv, TypeOK
<1>5. ASSUME NEW c \in Callers, call'[c].reply = "RESULT", c = q.caller
      PROVE  Fresh(c)
  <2>1. call[c] \in Calls /\ call[c].id = q.id /\ call[c].digest = q.digest /\ c # None
    BY <1>5, RequestTypes DEF IInv, TypeInv, CallersWait
  <2>2. call'[c] = [call[c] EXCEPT !.st = "answered", !.reply = reply]
    BY <1>1, <1>5, <2>1 DEF Reply, Answer, IInv, TypeInv, TypeOK
  <2>3. call'[c].id = q.id /\ call'[c].digest = q.digest /\ reply = "RESULT"
    BY <1>5, <2>1, <2>2 DEF Calls
  <2>4. record[q.id] = [state |-> "SUCCEEDED", digest |-> q.digest]
    BY <1>1, <2>3
  <2>5. q.digest \in ran[q.id]
    BY <2>4, RequestTypes DEF IInv, ResultsWereRun
  <2> QED
    BY <1>2, <2>3, <2>4, <2>5 DEF Fresh
<1> QED
  BY <1>3, <1>4, <1>5 DEF Tells

\* The answer at the end of a run.
LEMMA AnswerTells ==
    ASSUME IInv, running # Nobody, NEW reply \in Replies, Answer(running.caller, reply),
           reply = "RESULT" =>
               /\ running.digest \in ran'[running.id]
               /\ running.id \in pruned' \/
                    record'[running.id] = [state |-> "SUCCEEDED", digest |-> running.digest]
    PROVE  Tells
<1>1. ASSUME NEW c \in Callers, call'[c].reply = "RESULT", c # running.caller
      PROVE  call'[c] = call[c]
  BY <1>1 DEF Answer, IInv, TypeInv, TypeOK
<1>2. ASSUME NEW c \in Callers, call'[c].reply = "RESULT", c = running.caller
      PROVE  Fresh(c)
  <2>1. /\ call[c] \in Calls /\ c # None
        /\ call[c].id = running.id /\ call[c].digest = running.digest
    BY <1>2, RunningTypes DEF IInv, TypeInv, CallersWait
  <2>2. call'[c] = [call[c] EXCEPT !.st = "answered", !.reply = reply]
    BY <1>2, <2>1 DEF Answer, IInv, TypeInv, TypeOK
  <2>3. call'[c].id = running.id /\ call'[c].digest = running.digest /\ reply = "RESULT"
    BY <1>2, <2>1, <2>2 DEF Calls
  <2> QED
    BY <2>3 DEF Fresh
<1> QED
  BY <1>1, <1>2 DEF Tells

LEMMA FinishStep ==
    ASSUME IInv, NEW s \in {"SUCCEEDED", "FAILED"}, Finish(s) \/ FinishNotDurable(s)
    PROVE  Core' /\ Tells /\ Keeps
<1> DEFINE i == running.id
           r == [state |-> s, digest |-> running.digest]
<1>1. running # Nobody /\ running' = Nobody /\ UNCHANGED <<seen, procs, life, ran>> /\ Outcome(s)
  BY DEF Finish, FinishNotDurable
<1>2. i \in Ids /\ r \in Records
  BY <1>1, RunningTypes DEF IInv, Records
<1>3. Write(i, r) \/ WriteFails(i, r)
  BY DEF Finish, FinishNotDurable
<1>4. r.state = "SUCCEEDED" => r.digest \in ran[i]
  BY <1>1 DEF Outcome, IInv, RunIsNew
<1>5. i \in pruned \/ record[i].state # "SUCCEEDED"
  BY <1>1 DEF IInv, RunIsNew
<1>6. Core'
  BY <1>1, <1>2, <1>3, <1>4, StoreCore
<1>7. Keeps
  BY <1>1, <1>2, <1>3, <1>5, StoreKeeps
<1>8. CASE Finish(s)
  <2>1. record'[i] = r
    BY <1>2, <1>8, WrittenStays DEF Finish
  <2>2. PICK reply \in Replies :
           Answer(running.caller, reply) /\ (reply = "RESULT" => s = "SUCCEEDED")
    BY <1>8 DEF Finish, Replies
  <2> QED
    BY <1>1, <1>4, <1>6, <1>7, <2>1, <2>2, AnswerTells
<1>9. CASE FinishNotDurable(s)
  <2>1. Answer(running.caller, "NOT_DURABLE")
    BY <1>9 DEF FinishNotDurable
  <2> QED
    BY <1>1, <1>6, <1>7, <2>1, AnswerTells DEF Replies
<1> QED
  BY <1>8, <1>9

LEMMA IInvStep ==
    ASSUME IInv, [Next]_vars
    PROVE  IInv'
<1>1. TypeInv'
  BY TypeStep DEF IInv
<1>2. SUFFICES Core' /\ Tells /\ Keeps
  BY <1>1, ResultsKept DEF Core, IInv
<1> USE DEF IInv, TypeInv, TypeOK
<1>3. ASSUME NEW c \in Callers, NEW i \in Ids, NEW d \in Digests, Send(c, i, d)
      PROVE  Still /\ Tells /\ Keeps
  BY <1>3 DEF Send, Still, Tells, Keeps
<1>4. ASSUME NEW c \in Callers, Abandon(c) \/ Take(c)
      PROVE  Still /\ Tells /\ Keeps
  <2>1. UNCHANGED <<record, seen, procs, life, ran, pruned>> /\ Keeps
    BY <1>4 DEF Abandon, Take, Keeps
  <2>2. Tells
    BY <1>4 DEF Abandon, Take, Tells, Idle
  <2>3. running' = running \/ (running # Nobody /\ running' = [running EXCEPT !.caller = None])
    BY <1>4 DEF Abandon, Take, Nobody
  <2> QED
    BY <2>1, <2>2, <2>3 DEF Still
<1>5. ASSUME NEW q \in net, Admit(q)
      PROVE  Core' /\ Tells /\ Keeps
  <2> DEFINE r == [state |-> "RUNNING", digest |-> q.digest]
  <2>1. q.id \in Ids /\ r \in Records /\ Write(q.id, r) /\ ran' = ran /\ record[q.id] = NoRecord
    BY <1>5, RequestTypes DEF Admit, New, Records
  <2>2. Keeps
    BY <2>1, StoreKeeps DEF NoRecord
  <2>3. ASSUME NEW c \in Callers, call'[c].reply = "RESULT"
        PROVE  /\ call'[c].id = call[c].id /\ call'[c].digest = call[c].digest
               /\ call[c].reply = "RESULT"
    BY <1>5, <2>3 DEF Admit, Calls, Idle
  <2> QED
    BY <1>5, <2>2, <2>3, AdmitCore DEF Tells
<1>6. ASSUME NEW q \in net, AdmitFails(q)
      PROVE  Core' /\ Tells /\ Keeps
  <2> DEFINE r == [state |-> "RUNNING", digest |-> q.digest]
  <2>1. /\ q.id \in Ids /\ r \in Records /\ WriteFails(q.id, r)
        /\ UNCHANGED <<seen, procs, life, ran, running>>
        /\ record[q.id] = NoRecord /\ running = Nobody
    BY <1>6, RequestTypes DEF AdmitFails, New, Records, Reply
  <2>2. Core' /\ Keeps
    BY <2>1, StoreCore, StoreKeeps DEF NoRecord
  <2>3. ASSUME NEW c \in Callers, call'[c].reply = "RESULT"
        PROVE  call'[c] = call[c]
    BY <1>6, <2>3, RequestTypes DEF AdmitFails, Reply, Answer, Calls, Idle
  <2> QED
    BY <2>2, <2>3 DEF Tells
<1>7. CASE Reject
  <2>1. running # Nobody /\ running' = Nobody /\ UNCHANGED <<record, pruned, seen, procs, life, ran>>
    BY <1>7 DEF Reject
  <2>2. Answer(running.caller, "REJECTED")
    BY <1>7 DEF Reject
  <2>3. Tells
    BY <2>1, <2>2, AnswerTells DEF Replies
  <2>4. Core' /\ Keeps
    BY <2>1 DEF Core, InMemory, OnVolume, RunIsNew, ResultsWereRun, Keeps
  <2> QED
    BY <2>3, <2>4
<1>8. CASE Spawn
  <2>1. Tells /\ Keeps
    BY <1>8, RunningTypes DEF Spawn, Tells, Keeps
  <2> QED
    BY <1>8, <2>1, SpawnCore
<1>9. CASE Restart
  <2>3. /\ record' = record /\ pruned' = pruned /\ procs' = procs /\ ran' = ran
        /\ running' = Nobody
    BY <1>9 DEF Restart
  <2>6. life' = [i \in Ids |-> 0]
    BY <1>9 DEF Restart
  <2>4. InMemory'
    BY <2>6 DEF InMemory
  <2>1. Core' /\ Keeps
    BY <2>3, <2>4 DEF Core, OnVolume, RunIsNew, ResultsWereRun, Keeps
  <2>5. ASSUME NEW c \in Callers, call'[c].reply = "RESULT"
        PROVE  call'[c] = call[c]
    <3>1. CASE call[c].st \in {"open", "waiting"}
      <4>1. call[c] \in Calls
        BY <3>1 DEF Idle
      <4>2. call'[c] = [call[c] EXCEPT !.st = "answered", !.reply = "DISCONNECTED"]
        BY <1>9, <3>1 DEF Restart
      <4> QED
        BY <2>5, <4>1, <4>2 DEF Calls
    <3>2. CASE call[c].st \notin {"open", "waiting"}
      BY <1>9, <3>2 DEF Restart
    <3> QED
      BY <3>1, <3>2
  <2>2. Tells
    BY <2>5 DEF Tells
  <2> QED
    BY <2>1, <2>2
<1>10. CASE UNCHANGED vars
  BY <1>10 DEF vars, Still, Tells, Keeps, Core, InMemory, OnVolume, RunIsNew, ResultsWereRun
<1> QED
  BY <1>3, <1>4, <1>5, <1>6, <1>7, <1>8, <1>9, <1>10, StillCore, ReplyStep, FinishStep
     DEF Next, Receive, Core

\* An identity whose file was never removed has started at most one process,
\* whatever requests came again, were given up or cut off by a restart.
THEOREM AtMostOnce == Spec => []OneProcess
<1>1. IInv => OneProcess
  BY DEF IInv, OnVolume, OneProcess
<1> QED
  BY <1>1, InitIInv, IInvStep, PTL DEF Spec

\* Between two restarts an identity starts at most one process, even when its
\* file was removed.
THEOREM AtMostOncePerLife == Spec => []OneProcessPerLife
<1>1. IInv => OneProcessPerLife
  BY DEF IInv, InMemory, OneProcessPerLife
<1> QED
  BY <1>1, InitIInv, IInvStep, PTL DEF Spec

\* A result goes only to a request with the digest its process was run with.
THEOREM ResultsMatch == Spec => []ResultIsOfRequest
<1>1. IInv => ResultIsOfRequest
  BY DEF IInv
<1> QED
  BY <1>1, InitIInv, IInvStep, PTL DEF Spec

\* A result that was given out is on the volume until its file is removed.
THEOREM ResultsLast == Spec => []ResultIsDurable
<1>1. IInv => ResultIsDurable
  BY DEF IInv
<1> QED
  BY <1>1, InitIInv, IInvStep, PTL DEF Spec
=============================================================================
