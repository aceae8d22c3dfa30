------------------------------ MODULE Executor ------------------------------
\* The isolated Codex executor (app/codex/executor.py) and the HTTP call that
\* the worker makes to it (app/codex/executor_client.py).
\*
\* An execution identity names one Codex process.  The executor keeps a file
\* per identity on a volume, with the state of the execution, the digest of the
\* request and the result; in memory it keeps the identities it has admitted
\* and a lock.  Everything a request handler does up to the lock has no await
\* in it, so the executor decides on a request in one step.

EXTENDS Integers, FiniteSets

CONSTANTS
    Ids,          \* execution identities
    Digests,      \* request fingerprints: archive, prompt, model, schema ...
    Callers,      \* the connections that worker processes open
    None,         \* no identity, no digest, no caller
    MaxRecords,   \* MAX_EXECUTION_RECORDS
    Aging,        \* TRUE when records may be older than the TTL
    MaxOrphans,   \* bound on the requests in the net that outlive their callers
    MaxRestarts,  \* bound on the restarts of the executor
    MaxFaults     \* bound on the writes of a record that fail

ASSUME ExecutorAssumption ==
    /\ None \notin Ids \cup Digests \cup Callers
    /\ MaxRecords \in Nat \ {0}
    /\ Aging \in BOOLEAN
    /\ MaxOrphans \in Nat /\ MaxRestarts \in Nat /\ MaxFaults \in Nat

VARIABLES
    record,   \* the file of each identity
    newer,    \* the identities whose files were written after that of each
    seen,     \* _seen_execution_ids
    running,  \* the request that holds _execution_lock
    net,      \* the requests that were sent and not yet handled
    call,     \* what each caller waits for or was told
    procs,    \* how many processes each identity has started (history)
    life,     \* the same since the executor last started (history)
    ran,      \* the digests each identity has been run with (history)
    pruned,   \* the identities whose file was ever removed (history)
    restarts, \* restarts so far
    faults    \* failed writes so far

disk == <<record, newer, pruned>>
ghosts == <<procs, life, ran>>
vars == <<record, newer, seen, running, net, call, procs, life, ran, pruned, restarts, faults>>

NoRecord == [state |-> "NONE", digest |-> None]
Nobody == [id |-> None, digest |-> None, caller |-> None, spawned |-> FALSE]
Idle == [st |-> "idle", id |-> None, digest |-> None, reply |-> "NONE"]

Requests == [id : Ids, digest : Digests, caller : Callers \cup {None}]
Records == [state : {"RUNNING", "SUCCEEDED", "FAILED"}, digest : Digests]
Replies == {"NONE", "RESULT", "ERROR", "IN_PROGRESS", "CONFLICT", "UNAVAILABLE", "BUSY",
            "STATE_UNAVAILABLE", "NOT_DURABLE", "REJECTED", "DISCONNECTED"}
Calls == [st : {"open", "waiting", "answered"}, id : Ids, digest : Digests, reply : Replies]

TypeOK ==
    /\ record \in [Ids -> Records \cup {NoRecord}]
    /\ newer \in [Ids -> SUBSET Ids]
    /\ seen \subseteq Ids
    /\ running \in [id : Ids, digest : Digests, caller : Callers \cup {None}, spawned : BOOLEAN]
                     \cup {Nobody}
    /\ net \subseteq Requests
    /\ call \in [Callers -> Calls \cup {Idle}]
    /\ procs \in [Ids -> Nat] /\ life \in [Ids -> Nat]
    /\ ran \in [Ids -> SUBSET Digests]
    /\ pruned \subseteq Ids
    /\ restarts \in 0..MaxRestarts /\ faults \in 0..MaxFaults

Init ==
    /\ record = [i \in Ids |-> NoRecord] /\ newer = [i \in Ids |-> {}]
    /\ seen = {} /\ running = Nobody
    /\ net = {} /\ call = [c \in Callers |-> Idle]
    /\ procs = [i \in Ids |-> 0] /\ life = [i \in Ids |-> 0] /\ ran = [i \in Ids |-> {}]
    /\ pruned = {} /\ restarts = 0 /\ faults = 0

-----------------------------------------------------------------------------
\* The record files.

\* The order of the files once that of i is the newest.
Later(i) == [j \in Ids |-> IF j = i \/ record[j] = NoRecord THEN {} ELSE newer[j] \cup {i}]

\* The files once that of i is written, and how many they are over the limit.
Files(i) == {j \in Ids : record[j] # NoRecord} \cup {i}
Excess(i) == IF Cardinality(Files(i)) > MaxRecords THEN Cardinality(Files(i)) - MaxRecords ELSE 0

\* What a write of the file of i may remove: files past the limit on their
\* number and files past the TTL, the oldest first and never that of i.
Removable(i) ==
    {G \in SUBSET (Files(i) \ {i}) :
        /\ \A g \in G, f \in Files(i) \ G : f \in Later(i)[g]
        /\ IF Aging THEN Cardinality(G) >= Excess(i) ELSE Cardinality(G) = Excess(i)}

\* _write_execution_record: the file of i is replaced in one step, and then the
\* files in G are removed.
WriteThen(i, r, G) ==
    /\ record' = [j \in Ids |-> IF j \in G THEN NoRecord ELSE IF j = i THEN r ELSE record[j]]
    /\ newer' = [j \in Ids |-> IF j \in G THEN {} ELSE Later(i)[j]]
    /\ pruned' = pruned \cup G

Write(i, r) == \E G \in Removable(i) : WriteThen(i, r, G) /\ UNCHANGED faults

\* A write that reports failure: it stopped before the file was replaced, or
\* after it, while old files were removed.
WriteFails(i, r) ==
    /\ faults < MaxFaults
    /\ faults' = faults + 1
    /\ \/ UNCHANGED disk
       \/ WriteThen(i, r, {})

-----------------------------------------------------------------------------
\* The caller.

\* The caller posts /review.
Send(c, i, d) ==
    /\ call[c] = Idle
    /\ call' = [call EXCEPT ![c] = [st |-> "open", id |-> i, digest |-> d, reply |-> "NONE"]]
    /\ net' = net \cup {[id |-> i, digest |-> d, caller |-> c]}
    /\ UNCHANGED <<disk, ghosts, seen, running, restarts, faults>>

\* The caller's own timeout, or its end: the request or its handler lives on.
Abandon(c) ==
    /\ call[c].st \in {"open", "waiting"}
    /\ call[c].st = "open" => Cardinality({q \in net : q.caller = None}) < MaxOrphans
    /\ call' = [call EXCEPT ![c] = Idle]
    /\ net' = {IF q.caller = c THEN [q EXCEPT !.caller = None] ELSE q : q \in net}
    /\ running' = IF running.caller = c THEN [running EXCEPT !.caller = None] ELSE running
    /\ UNCHANGED <<disk, ghosts, seen, restarts, faults>>

\* The caller has read its answer.
Take(c) ==
    /\ call[c].st = "answered"
    /\ call' = [call EXCEPT ![c] = Idle]
    /\ UNCHANGED <<disk, ghosts, seen, running, net, restarts, faults>>

\* The answer to the request of caller c, if it still waits for one.
Answer(c, reply) ==
    call' = IF c = None THEN call
            ELSE [call EXCEPT ![c] = [@ EXCEPT !.st = "answered", !.reply = reply]]

-----------------------------------------------------------------------------
\* review(): the decision on request q.

\* The handler of q answers at once and changes nothing else.
Reply(q, reply) ==
    /\ net' = net \ {q}
    /\ Answer(q.caller, reply)
    /\ UNCHANGED <<ghosts, seen, running, restarts>>

\* The file is there and cannot be read.
Unreadable(q) ==
    /\ record[q.id] # NoRecord
    /\ Reply(q, "UNAVAILABLE")
    /\ UNCHANGED <<disk, faults>>

\* Mutant: a stored result is returned to any request with its identity.
ReplayAny(q) ==
    /\ record[q.id].state \in {"SUCCEEDED", "FAILED"}
    /\ Reply(q, IF record[q.id].state = "SUCCEEDED" THEN "RESULT" ELSE "ERROR")
    /\ UNCHANGED <<disk, faults>>

\* The stored result, or the stored error, of the same request.
Replay(q) ==
    /\ record[q.id].state \in {"SUCCEEDED", "FAILED"}
    /\ record[q.id].digest = q.digest
    /\ Reply(q, IF record[q.id].state = "SUCCEEDED" THEN "RESULT" ELSE "ERROR")
    /\ UNCHANGED <<disk, faults>>

\* The identity belongs to another request.
Conflict(q) ==
    /\ record[q.id] # NoRecord
    /\ record[q.id].digest # q.digest
    /\ Reply(q, "CONFLICT")
    /\ UNCHANGED <<disk, faults>>

\* By its file or by the memory of this executor the identity was admitted.
InProgress(q) ==
    /\ \/ record[q.id].state = "RUNNING" /\ record[q.id].digest = q.digest
       \/ record[q.id] = NoRecord /\ q.id \in seen
    /\ Reply(q, "IN_PROGRESS")
    /\ UNCHANGED <<disk, faults>>

\* No request is queued behind the one that holds the lock.
Busy(q) ==
    /\ record[q.id] = NoRecord /\ q.id \notin seen
    /\ running # Nobody
    /\ Reply(q, "BUSY")
    /\ UNCHANGED <<disk, faults>>

New(q) == record[q.id] = NoRecord /\ q.id \notin seen /\ running = Nobody

\* Mutant: the identity is admitted from its file alone.
AdmitUnseen(q) ==
    /\ record[q.id] = NoRecord /\ running = Nobody
    /\ Write(q.id, [state |-> "RUNNING", digest |-> q.digest])
    /\ seen' = seen
    /\ running' = [id |-> q.id, digest |-> q.digest, caller |-> q.caller, spawned |-> FALSE]
    /\ net' = net \ {q}
    /\ call' = IF q.caller = None THEN call ELSE [call EXCEPT ![q.caller].st = "waiting"]
    /\ UNCHANGED <<ghosts, restarts>>

\* Mutant: the file is first written with the result.
AdmitUnrecorded(q) ==
    /\ New(q)
    /\ seen' = seen \cup {q.id}
    /\ running' = [id |-> q.id, digest |-> q.digest, caller |-> q.caller, spawned |-> FALSE]
    /\ net' = net \ {q}
    /\ call' = IF q.caller = None THEN call ELSE [call EXCEPT ![q.caller].st = "waiting"]
    /\ UNCHANGED <<disk, ghosts, restarts, faults>>

\* The identity is remembered and recorded as RUNNING before its process starts.
Admit(q) ==
    /\ New(q)
    /\ Write(q.id, [state |-> "RUNNING", digest |-> q.digest])
    /\ seen' = seen \cup {q.id}
    /\ running' = [id |-> q.id, digest |-> q.digest, caller |-> q.caller, spawned |-> FALSE]
    /\ net' = net \ {q}
    /\ call' = IF q.caller = None THEN call ELSE [call EXCEPT ![q.caller].st = "waiting"]
    /\ UNCHANGED <<ghosts, restarts>>

\* Without a durable record nothing runs, and the identity is forgotten.
AdmitFails(q) ==
    /\ New(q)
    /\ WriteFails(q.id, [state |-> "RUNNING", digest |-> q.digest])
    /\ Reply(q, "STATE_UNAVAILABLE")

Receive(q) ==
    \/ Unreadable(q) \/ Replay(q) \/ Conflict(q) \/ InProgress(q)
    \/ Busy(q) \/ Admit(q) \/ AdmitFails(q)

-----------------------------------------------------------------------------
\* _run_review, under the lock.

\* Mutant: the exception is stored under a state that review() does not know.
RejectStored ==
    /\ running # Nobody /\ ~running.spawned
    /\ WriteThen(running.id, [state |-> "REJECTED", digest |-> running.digest], {})
    /\ running' = Nobody
    /\ Answer(running.caller, "REJECTED")
    /\ UNCHANGED <<ghosts, seen, net, restarts, faults>>

\* The archive is unsafe: the exception leaves the record as it is.
Reject ==
    /\ running # Nobody /\ ~running.spawned
    /\ running' = Nobody
    /\ Answer(running.caller, "REJECTED")
    /\ UNCHANGED <<disk, ghosts, seen, net, restarts, faults>>

\* CodexRunner.run starts the process.
Spawn ==
    /\ running # Nobody /\ ~running.spawned
    /\ running' = [running EXCEPT !.spawned = TRUE]
    /\ procs' = [procs EXCEPT ![running.id] = @ + 1]
    /\ life' = [life EXCEPT ![running.id] = @ + 1]
    /\ ran' = [ran EXCEPT ![running.id] = @ \cup {running.digest}]
    /\ UNCHANGED <<disk, seen, net, call, restarts, faults>>

\* The result is in: a process that ended well, or an error before or after the
\* process started.
Outcome(state) == state = "SUCCEEDED" => running.spawned

\* Mutant: the lock is freed when the answer is delivered.
FinishForCaller(state) ==
    /\ running # Nobody /\ Outcome(state) /\ running.caller # None
    /\ Write(running.id, [state |-> state, digest |-> running.digest])
    /\ running' = Nobody
    /\ Answer(running.caller, IF state = "SUCCEEDED" THEN "RESULT" ELSE "ERROR")
    /\ UNCHANGED <<ghosts, seen, net, restarts>>

\* The result is stored before it is given out.
Finish(state) ==
    /\ running # Nobody /\ Outcome(state)
    /\ Write(running.id, [state |-> state, digest |-> running.digest])
    /\ running' = Nobody
    /\ Answer(running.caller, IF state = "SUCCEEDED" THEN "RESULT" ELSE "ERROR")
    /\ UNCHANGED <<ghosts, seen, net, restarts>>

\* Mutant: the result is returned whether or not it could be stored.
FinishAnyway(state) ==
    /\ running # Nobody /\ Outcome(state)
    /\ WriteFails(running.id, [state |-> state, digest |-> running.digest])
    /\ running' = Nobody
    /\ Answer(running.caller, IF state = "SUCCEEDED" THEN "RESULT" ELSE "ERROR")
    /\ UNCHANGED <<ghosts, seen, net, restarts>>

\* A result that could not be stored is not given out.
FinishNotDurable(state) ==
    /\ running # Nobody /\ Outcome(state)
    /\ WriteFails(running.id, [state |-> state, digest |-> running.digest])
    /\ running' = Nobody
    /\ Answer(running.caller, "NOT_DURABLE")
    /\ UNCHANGED <<ghosts, seen, net, restarts>>

\* The executor restarts: memory, requests and the process are gone, the volume
\* with the records stays.
Restart ==
    /\ restarts < MaxRestarts
    /\ restarts' = restarts + 1
    /\ seen' = {} /\ running' = Nobody /\ net' = {}
    /\ life' = [i \in Ids |-> 0]
    /\ call' = [c \in Callers |-> IF call[c].st \in {"open", "waiting"}
                                  THEN [call[c] EXCEPT !.st = "answered", !.reply = "DISCONNECTED"]
                                  ELSE call[c]]
    /\ UNCHANGED <<disk, procs, ran, faults>>

Next ==
    \/ \E c \in Callers, i \in Ids, d \in Digests : Send(c, i, d)
    \/ \E c \in Callers : Abandon(c) \/ Take(c)
    \/ \E q \in net : Receive(q)
    \/ Reject \/ Spawn
    \/ \E state \in {"SUCCEEDED", "FAILED"} : Finish(state) \/ FinishNotDurable(state)
    \/ Restart

Spec == Init /\ [][Next]_vars

\* Handlers run when the event loop gets to them; CodexRunner.run kills its
\* process on a timeout, so a run ends.
Finishing == \E state \in {"SUCCEEDED", "FAILED"} : Finish(state)
Fairness ==
    /\ \A q \in Requests : WF_vars(q \in net /\ Receive(q))
    /\ WF_vars(Finishing)

FairSpec == Spec /\ Fairness

-----------------------------------------------------------------------------
\* Properties.

\* An identity starts at most one process, across retried calls, callers that
\* gave up and restarts of the executor, for as long as its file is kept:
\* "Never run without a durable idempotency record".
OneProcess == \A i \in Ids \ pruned : procs[i] <= 1

\* Within one life of the executor that holds even for removed files.
OneProcessPerLife == \A i \in Ids : life[i] <= 1

\* A result is only given to a request that the process was started for: "a
\* reused execution id" is not "silently associated with another request".
ResultIsOfRequest ==
    \A c \in Callers : call[c].reply = "RESULT" => call[c].digest \in ran[call[c].id]

\* A result that was given out can be asked for again: its file is there, until
\* the limits on files remove it.
ResultIsDurable ==
    \A c \in Callers :
        call[c].reply = "RESULT" /\ call[c].id \notin pruned
            => record[call[c].id] = [state |-> "SUCCEEDED", digest |-> call[c].digest]

\* Every call comes to an answer or an end, and so the lock is freed.
CallsEnd ==
    /\ \A c \in Callers : call[c].st \in {"open", "waiting"} ~> call[c].st \in {"idle", "answered"}
    /\ running # Nobody ~> running = Nobody
=============================================================================
