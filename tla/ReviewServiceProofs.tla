------------------------ MODULE ReviewServiceProofs ------------------------
\* Proofs about ReviewService, for any number of jobs, passes, workers and
\* failures: it uses the executor only as Executor's callers may, and the budget
\* of processes holds.

EXTENDS ReviewService, FiniteSetTheorems, TLAPS

EP == INSTANCE ExecutorProofs
        WITH Ids <- Jobs \X (1..MaxPasses), Digests <- Policies, Callers <- Jobs

-----------------------------------------------------------------------------
\* The module of the executor's theorems speaks of the same executor.

LEMMA SameCardinality == \A S : E!Cardinality(S) = EP!Cardinality(S)
  BY Zenon DEF E!Cardinality, EP!Cardinality

LEMMA SameLater == \A i : E!Later(i) = EP!Later(i)
  BY DEF E!Later, EP!Later, E!NoRecord, EP!NoRecord

LEMMA SameRemovable == \A i, G : G \in E!Removable(i) <=> G \in EP!Removable(i)
<1> TAKE i, G
<1>1. \A j : E!Later(i)[j] = EP!Later(i)[j]
  BY SameLater
<1>2. E!Files(i) = EP!Files(i)
  BY DEF E!Files, EP!Files, E!NoRecord, EP!NoRecord
<1>3. E!Excess(i) = EP!Excess(i)
  BY <1>2, SameCardinality DEF E!Excess, EP!Excess
<1> QED
  BY <1>1, <1>2, <1>3, SameCardinality DEF E!Removable, EP!Removable

LEMMA SameWriteThen == \A i, r, G : E!WriteThen(i, r, G) <=> EP!WriteThen(i, r, G)
  BY SameLater DEF E!WriteThen, EP!WriteThen, E!NoRecord, EP!NoRecord

LEMMA SameWrite == \A i, r : E!Write(i, r) <=> EP!Write(i, r)
  BY SameRemovable, SameWriteThen DEF E!Write, EP!Write

LEMMA SameWriteFails == \A i, r : E!WriteFails(i, r) <=> EP!WriteFails(i, r)
  BY SameWriteThen DEF E!WriteFails, EP!WriteFails, E!disk, EP!disk

LEMMA SameCalls ==
    /\ \A c, i, d : E!Send(c, i, d) <=> EP!Send(c, i, d)
    /\ \A c : E!Abandon(c) <=> EP!Abandon(c)
    /\ \A c : E!Take(c) <=> EP!Take(c)
<1>1. \A c, i, d : E!Send(c, i, d) <=> EP!Send(c, i, d)
  BY Zenon DEF E!Send, EP!Send, E!Idle, EP!Idle, E!disk, EP!disk, E!ghosts, EP!ghosts
<1>2. \A c : E!Abandon(c) <=> EP!Abandon(c)
  BY SameCardinality DEF E!Abandon, EP!Abandon, E!Idle, EP!Idle, E!disk, EP!disk, E!ghosts, EP!ghosts
<1>3. \A c : E!Take(c) <=> EP!Take(c)
  BY DEF E!Take, EP!Take, E!Idle, EP!Idle, E!disk, EP!disk, E!ghosts, EP!ghosts
<1> QED
  BY <1>1, <1>2, <1>3

LEMMA SameAnswer == \A c, r : E!Answer(c, r) <=> EP!Answer(c, r)
  BY DEF E!Answer, EP!Answer

LEMMA SameReply == \A q, r : E!Reply(q, r) <=> EP!Reply(q, r)
  BY SameAnswer DEF E!Reply, EP!Reply, E!ghosts, EP!ghosts

LEMMA SameReceive == \A q : E!Receive(q) <=> EP!Receive(q)
<1> TAKE q
<1>1. /\ E!Unreadable(q) <=> EP!Unreadable(q)
      /\ E!Replay(q) <=> EP!Replay(q)
      /\ E!Conflict(q) <=> EP!Conflict(q)
      /\ E!InProgress(q) <=> EP!InProgress(q)
      /\ E!Busy(q) <=> EP!Busy(q)
  BY SameReply DEF E!Unreadable, EP!Unreadable, E!Replay, EP!Replay, E!Conflict, EP!Conflict,
     E!InProgress, EP!InProgress, E!Busy, EP!Busy, E!NoRecord, EP!NoRecord, E!Nobody, EP!Nobody,
     E!disk, EP!disk
<1>2. E!New(q) <=> EP!New(q)
  BY DEF E!New, EP!New, E!NoRecord, EP!NoRecord, E!Nobody, EP!Nobody
<1>3. E!Admit(q) <=> EP!Admit(q)
  BY <1>2, SameWrite DEF E!Admit, EP!Admit, E!ghosts, EP!ghosts
<1>4. E!AdmitFails(q) <=> EP!AdmitFails(q)
  BY <1>2, SameWriteFails, SameReply DEF E!AdmitFails, EP!AdmitFails
<1> QED
  BY <1>1, <1>3, <1>4 DEF E!Receive, EP!Receive

LEMMA SameRun ==
    /\ E!Reject <=> EP!Reject
    /\ E!Spawn <=> EP!Spawn
    /\ E!Restart <=> EP!Restart
    /\ \A s : E!Finish(s) <=> EP!Finish(s)
    /\ \A s : E!FinishNotDurable(s) <=> EP!FinishNotDurable(s)
<1>1. (E!Reject <=> EP!Reject) /\ (E!Spawn <=> EP!Spawn) /\ (E!Restart <=> EP!Restart)
  BY SameAnswer DEF E!Reject, EP!Reject, E!Spawn, EP!Spawn, E!Restart, EP!Restart,
     E!Nobody, EP!Nobody, E!disk, EP!disk, E!ghosts, EP!ghosts
<1>2. \A s : E!Outcome(s) <=> EP!Outcome(s)
  BY DEF E!Outcome, EP!Outcome
<1>3. \A s : E!Finish(s) <=> EP!Finish(s)
  BY <1>2, SameWrite, SameAnswer DEF E!Finish, EP!Finish, E!Nobody, EP!Nobody, E!ghosts, EP!ghosts
<1>4. \A s : E!FinishNotDurable(s) <=> EP!FinishNotDurable(s)
  BY <1>2, SameWriteFails, SameAnswer
     DEF E!FinishNotDurable, EP!FinishNotDurable, E!Nobody, EP!Nobody, E!ghosts, EP!ghosts
<1> QED
  BY <1>1, <1>3, <1>4

-----------------------------------------------------------------------------
\* The worker: where it is, what it has read, and which passes are reserved.

PassTable == [Jobs -> [1..MaxPasses -> [state : PassStates, digest : Policies \cup {None}]]]

Control ==
    /\ pc \in [Jobs -> Pcs] /\ at \in [Jobs -> 1..MaxPasses + 1]
    /\ mine \in [Jobs -> Policies \cup {None}] /\ policy \in Policies
    /\ reason \in [Jobs -> Reasons]
    /\ lock \in Jobs \cup {None}
    /\ pass \in PassTable

\* A worker at its passes has read the settings; the one that reserves a pass,
\* and no other, holds the lock; what is asked of the executor is reserved.
Ready(j) ==
    /\ pc[j] \in {"pass", "reserve", "call", "answer"} => mine[j] \in Policies
    /\ pc[j] \in {"reserve", "call", "answer"} => at[j] \in 1..MaxPasses
    /\ pc[j] = "reserve" => lock = j
    /\ lock = j => pc[j] = "reserve"
    /\ pc[j] = "reserve" => <<j, at[j]>> \notin Reserved
    /\ pc[j] \in {"call", "answer"} => <<j, at[j]>> \in Reserved

WorkerInv == Control /\ \A j \in Jobs : Ready(j)

USE ServiceAssumption

\* A step of job j that keeps its passes and the lock, and that does not take it
\* to a place where something is claimed.
Aside(j) ==
    /\ pass' = pass /\ lock' = lock /\ policy' = policy
    /\ pc[j] # "reserve"
    /\ \E l \in Pcs \ {"pass", "reserve", "call", "answer"} : pc' = [pc EXCEPT ![j] = l]
    /\ \A k \in Jobs \ {j} : at'[k] = at[k] /\ mine'[k] = mine[k] /\ reason'[k] = reason[k]
    /\ at' \in [Jobs -> 1..MaxPasses + 1] /\ mine' \in [Jobs -> Policies \cup {None}]
    /\ reason' \in [Jobs -> Reasons]

LEMMA AsideKeeps ==
    ASSUME WorkerInv, NEW j \in Jobs, Aside(j)
    PROVE  WorkerInv'
<1>1. Reserved' = Reserved
  BY DEF Reserved, Aside
<1>2. Control'
  <2>1. PICK l \in Pcs : pc' = [pc EXCEPT ![j] = l]
    BY DEF Aside
  <2>2. pc' \in [Jobs -> Pcs]
    BY <2>1 DEF WorkerInv, Control
  <2> QED
    BY <2>2, Zenon DEF Control, WorkerInv, Aside
<1>3. ASSUME NEW k \in Jobs PROVE Ready(k)'
  <2>1. CASE k = j
    BY <2>1, <1>1 DEF WorkerInv, Control, Ready, Aside
  <2>2. CASE k # j
    BY <2>2, <1>1 DEF WorkerInv, Control, Ready, Aside
  <2> QED
    BY <2>1, <2>2
<1> QED
  BY <1>2, <1>3 DEF WorkerInv

\* What Stop makes of the worker.
LEMMA Stops ==
    ASSUME WorkerInv, NEW j \in Jobs, NEW s, Stop(j, s)
    PROVE  /\ pc' = [pc EXCEPT ![j] = "idle"]
           /\ \A k \in Jobs \ {j} : at'[k] = at[k] /\ mine'[k] = mine[k] /\ reason'[k] = reason[k]
           /\ at' \in [Jobs -> 1..MaxPasses + 1] /\ mine' \in [Jobs -> Policies \cup {None}]
           /\ reason' \in [Jobs -> Reasons]
<1>1. /\ pc' = [pc EXCEPT ![j] = "idle"] /\ at' = [at EXCEPT ![j] = 1]
      /\ mine' = [mine EXCEPT ![j] = None] /\ reason' = [reason EXCEPT ![j] = "NONE"]
  BY DEF Stop, Goto, Leave
<1>2. \A k \in Jobs \ {j} : at'[k] = at[k] /\ mine'[k] = mine[k] /\ reason'[k] = reason[k]
  BY <1>1 DEF WorkerInv, Control
<1>3. at' \in [Jobs -> 1..MaxPasses + 1]
  <2>1. 1 \in 1..MaxPasses + 1
    OBVIOUS
  <2> QED
    BY <1>1, <2>1, Zenon DEF WorkerInv, Control
<1>4. mine' \in [Jobs -> Policies \cup {None}]
  BY <1>1, Zenon DEF WorkerInv, Control
<1>5. reason' \in [Jobs -> Reasons]
  BY <1>1, Zenon DEF WorkerInv, Control, Reasons
<1> QED
  BY <1>1, <1>2, <1>3, <1>4, <1>5

LEMMA ErrorStops ==
    ASSUME NEW j, NEW r, AfterError(j, r)
    PROVE  \E s : Stop(j, s)
  BY Zenon DEF AfterError

LEMMA StopAside ==
    ASSUME WorkerInv, NEW j \in Jobs, NEW s, Stop(j, s), pc[j] # "reserve",
           pass' = pass, lock' = lock, policy' = policy
    PROVE  Aside(j)
  BY Stops DEF Aside, Pcs

LEMMA GotoAside ==
    ASSUME WorkerInv, NEW j \in Jobs, pc[j] # "reserve",
           NEW l \in Pcs \ {"pass", "reserve", "call", "answer"}, Goto(j, l),
           pass' = pass, lock' = lock, policy' = policy,
           at' = at, mine' = mine, reason' = reason
    PROVE  Aside(j)
  BY DEF WorkerInv, Control, Goto, Aside

LEMMA StayAside ==
    ASSUME WorkerInv, pass' = pass, lock' = lock, policy' = policy,
           pc' = pc, at' = at, mine' = mine, reason' = reason
    PROVE  WorkerInv'
<1>1. Reserved' = Reserved
  BY DEF Reserved
<1> QED
  BY <1>1 DEF WorkerInv, Control, Ready

-----------------------------------------------------------------------------
\* Each step of a worker keeps WorkerInv.

USE DEF Quiet, Local, rows, world, executor

LEMMA OneStop ==
    ASSUME WorkerInv, NEW j \in Jobs, pc[j] # "reserve", NEW s, Stop(j, s),
           pass' = pass, lock' = lock, policy' = policy
    PROVE  WorkerInv'
  BY StopAside, AsideKeeps

\* The pass of j is settled, or reserved: no other pass changes.
LEMMA OthersPass ==
    ASSUME WorkerInv, NEW j \in Jobs, NEW p \in 1..MaxPasses,
           NEW r \in [state : PassStates, digest : Policies \cup {None}],
           pass' = [pass EXCEPT ![j][p] = r]
    PROVE  /\ pass' \in PassTable
           /\ pass'[j][p] = r
           /\ \A k \in Jobs, o \in 1..MaxPasses : <<k, o>> # <<j, p>> => pass'[k][o] = pass[k][o]
           /\ \A k \in Jobs, o \in 1..MaxPasses : <<k, o>> # <<j, p>> =>
                 (<<k, o>> \in Reserved' <=> <<k, o>> \in Reserved)
<1>1. pass' \in PassTable
  BY DEF WorkerInv, Control, PassTable
<1>2. pass'[j][p] = r
  BY DEF WorkerInv, Control, PassTable
<1>3. \A k \in Jobs, o \in 1..MaxPasses : <<k, o>> # <<j, p>> => pass'[k][o] = pass[k][o]
  BY DEF WorkerInv, Control, PassTable
<1> QED
  BY <1>1, <1>2, <1>3 DEF Reserved

LEMMA SettleKeeps ==
    ASSUME WorkerInv, NEW j \in Jobs, NEW s \in PassStates \ {"NONE", "SKIPPED"},
           at[j] \in 1..MaxPasses, <<j, at[j]>> \in Reserved,
           Settle(j, at[j], s)
    PROVE  /\ Reserved' = Reserved
           /\ pass' \in PassTable
<1>p. PICK p \in 1..MaxPasses : p = at[j]
  OBVIOUS
<1>0. pass[j][p] \in [state : PassStates, digest : Policies \cup {None}]
  <2>1. pass \in PassTable
    BY DEF WorkerInv, Control
  <2>2. pass[j] \in [1..MaxPasses -> [state : PassStates, digest : Policies \cup {None}]]
    BY <2>1, Zenon DEF PassTable
  <2> QED
    BY <2>2, Zenon
<1>1. [pass[j][p] EXCEPT !.state = s] \in [state : PassStates, digest : Policies \cup {None}]
  BY <1>0
<1>2. PICK r \in [state : PassStates, digest : Policies \cup {None}] :
         r.state = s /\ pass' = [pass EXCEPT ![j][p] = r]
  BY <1>0, <1>1, <1>p DEF Settle
<1>3. /\ pass' \in PassTable
      /\ pass'[j][p] = r
      /\ \A k \in Jobs, o \in 1..MaxPasses : <<k, o>> # <<j, p>> =>
            (<<k, o>> \in Reserved' <=> <<k, o>> \in Reserved)
  <2>1. pass' = [pass EXCEPT ![j][p] = r]
    BY <1>2
  <2>2. pass' \in PassTable
    BY <2>1, OthersPass, Zenon
  <2>3. pass'[j][p] = r
    BY <2>1, <2>2 DEF WorkerInv, Control, PassTable
  <2>4. \A k \in Jobs, o \in 1..MaxPasses : <<k, o>> # <<j, p>> =>
            (<<k, o>> \in Reserved' <=> <<k, o>> \in Reserved)
    BY <2>1, OthersPass, Zenon
  <2> QED
    BY <2>2, <2>3, <2>4
<1>5. <<j, p>> \in Reserved' /\ <<j, p>> \in Reserved
  BY <1>2, <1>3, <1>p DEF Reserved
<1>6. Reserved \subseteq Jobs \X (1..MaxPasses) /\ Reserved' \subseteq Jobs \X (1..MaxPasses)
  BY DEF Reserved
<1>7. \A k \in Jobs, o \in 1..MaxPasses : <<k, o>> \in Reserved' <=> <<k, o>> \in Reserved
  BY <1>3, <1>5
<1>8. Reserved' = Reserved
  <2>1. \A x \in Jobs \X (1..MaxPasses) : x \in Reserved' <=> x \in Reserved
    <3> TAKE x \in Jobs \X (1..MaxPasses)
    <3>1. PICK k \in Jobs, o \in 1..MaxPasses : x = <<k, o>>
      OBVIOUS
    <3> QED
      BY <3>1, <1>7
  <2> QED
    BY <2>1, <1>6
<1> QED
  BY <1>3, <1>8

LEMMA NextPassTypes ==
    ASSUME WorkerInv, NEW j \in Jobs, NextPass(j), at[j] \in 1..MaxPasses
    PROVE  /\ pc' = [pc EXCEPT ![j] = "pass"] /\ pc' \in [Jobs -> Pcs]
           /\ at' \in [Jobs -> 1..MaxPasses + 1]
           /\ mine' = mine /\ reason' = reason
<1>1. pc' = [pc EXCEPT ![j] = "pass"] /\ mine' = mine /\ reason' = reason
  BY DEF NextPass, Goto
<1>2. pc' \in [Jobs -> Pcs]
  BY <1>1 DEF WorkerInv, Control, Pcs
<1>3. at[j] + 1 \in 1..MaxPasses + 1
  <2>1. MaxPasses \in Nat
    OBVIOUS
  <2> QED
    BY <2>1, SMTT(20)
<1>4. at' = [at EXCEPT ![j] = at[j] + 1]
  BY DEF NextPass, WorkerInv, Control
<1>5. at' \in [Jobs -> 1..MaxPasses + 1]
  BY <1>3, <1>4, Zenon DEF WorkerInv, Control
<1> QED
  BY <1>1, <1>2, <1>5

\* A settled pass: the worker stops, or goes on with the next one.
LEMMA SettledStops ==
    ASSUME WorkerInv, NEW j \in Jobs, pc[j] \in {"call", "answer"},
           NEW s \in PassStates \ {"NONE", "SKIPPED"}, Settle(j, at[j], s),
           lock' = lock, policy' = policy,
           \/ \E t : Stop(j, t)
           \/ NextPass(j)
    PROVE  WorkerInv'
<1>1. /\ at[j] \in 1..MaxPasses /\ mine[j] \in Policies
      /\ <<j, at[j]>> \in Reserved
  BY DEF WorkerInv, Ready
<1>2. /\ Reserved' = Reserved
      /\ pass' \in PassTable
  BY <1>1, SettleKeeps
<1>3. CASE \E t : Stop(j, t)
  <2>1. PICK t : Stop(j, t)
    BY <1>3
  <2>2. /\ pc' = [pc EXCEPT ![j] = "idle"]
        /\ \A k \in Jobs \ {j} : at'[k] = at[k] /\ mine'[k] = mine[k] /\ reason'[k] = reason[k]
        /\ at' \in [Jobs -> 1..MaxPasses + 1] /\ mine' \in [Jobs -> Policies \cup {None}]
        /\ reason' \in [Jobs -> Reasons]
    BY <2>1, Stops
  <2>3. Control'
    BY <1>2, <2>2 DEF WorkerInv, Control, Pcs
  <2>4. \A k \in Jobs : Ready(k)'
    BY <1>2, <2>2 DEF WorkerInv, Control, Ready
  <2> QED
    BY <2>3, <2>4 DEF WorkerInv
<1>4. CASE NextPass(j)
  <2>1. Control'
    BY <1>1, <1>2, <1>4, NextPassTypes, Zenon DEF WorkerInv, Control
  <2>2. \A k \in Jobs : Ready(k)'
    BY <1>1, <1>2, <1>4 DEF WorkerInv, Control, Ready, NextPass, Goto
  <2> QED
    BY <2>1, <2>2 DEF WorkerInv
<1> QED
  BY <1>3, <1>4

LEMMA WorkKeeps ==
    ASSUME WorkerInv, NEW j \in Jobs, Work(j)
    PROVE  WorkerInv'
<1>1. CASE Gate(j)
  <2>1. pc[j] = "gate" /\ pass' = pass /\ lock' = lock /\ policy' = policy
    BY <1>1 DEF Gate
  <2>2. CASE Stop(j, "SKIPPED")
    BY <2>1, <2>2, OneStop
  <2>3. CASE mine' = [mine EXCEPT ![j] = policy] /\ Goto(j, "pass") /\ UNCHANGED <<at, reason>>
    <3>1. Reserved' = Reserved
      BY <2>1 DEF Reserved
    <3>2. Control'
      BY <2>1, <2>3 DEF WorkerInv, Control, Goto, Pcs
    <3>3. \A k \in Jobs : Ready(k)'
      BY <2>1, <2>3, <3>1 DEF WorkerInv, Control, Ready, Goto
    <3> QED
      BY <3>2, <3>3 DEF WorkerInv
  <2> QED
    BY <1>1, <2>2, <2>3 DEF Gate
<1>2. CASE Unreviewable(j)
  <2>1. Stop(j, "SKIPPED") /\ pc[j] # "reserve" /\ pass' = pass /\ lock' = lock /\ policy' = policy
    BY <1>2 DEF Unreviewable
  <2> QED
    BY <2>1, OneStop
<1>3. CASE ReadFails(j)
  <2>1. pc[j] # "reserve" /\ pass' = pass /\ lock' = lock /\ policy' = policy
    BY <1>3 DEF ReadFails
  <2>2. \E s : Stop(j, s)
    BY <1>3, ErrorStops DEF ReadFails
  <2> QED
    BY <2>1, <2>2, OneStop
<1>4. CASE ResumePass(j)
  <2>1. pc[j] = "pass" /\ pass' = pass /\ lock' = lock /\ policy' = policy
    BY <1>4 DEF ResumePass, AtPass
  <2>2. CASE Stop(j, "FAILED")
    BY <2>1, <2>2, OneStop
  <2>3. CASE /\ pass[j][at[j]] = [state |-> "SUCCEEDED", digest |-> mine[j]]
             /\ Goto(j, "call") /\ UNCHANGED <<at, mine, reason>>
    <3>1. Reserved' = Reserved
      BY <2>1 DEF Reserved
    <3>2. at[j] \in 1..MaxPasses
      BY <1>4 DEF ResumePass, AtPass, WorkerInv, Control
    <3>3. <<j, at[j]>> \in Reserved
      BY <2>3, <3>2 DEF Reserved
    <3>4. Control'
      BY <2>1, <2>3 DEF WorkerInv, Control, Goto, Pcs
    <3>5. \A k \in Jobs : Ready(k)'
      BY <2>1, <2>3, <3>1, <3>2, <3>3 DEF WorkerInv, Control, Ready, Goto
    <3> QED
      BY <3>4, <3>5 DEF WorkerInv
  <2> QED
    BY <1>4, <2>2, <2>3 DEF ResumePass
<1>5. CASE CountBudget(j)
  <2>1. /\ pc[j] = "pass" /\ at[j] \in 1..MaxPasses /\ pass[j][at[j]].state = "NONE"
        /\ lock = None /\ lock' = j
        /\ pass' = pass /\ policy' = policy /\ at' = at /\ mine' = mine
    BY <1>5 DEF CountBudget, AtPass, WorkerInv, Control
  <2>2. reason' \in [Jobs -> Reasons]
    BY <1>5 DEF CountBudget, Grounds, Reasons, WorkerInv, Control
  <2>3. pc' = [pc EXCEPT ![j] = "reserve"]
    BY <1>5 DEF CountBudget, Goto
  <2>4. Reserved' = Reserved
    BY <2>1 DEF Reserved
  <2>5. <<j, at[j]>> \notin Reserved
    BY <2>1 DEF Reserved
  <2>6. Control'
    BY <2>1, <2>2, <2>3 DEF WorkerInv, Control, Pcs
  <2>7. \A k \in Jobs : Ready(k)'
    BY <2>1, <2>3, <2>4, <2>5 DEF WorkerInv, Control, Ready
  <2> QED
    BY <2>6, <2>7 DEF WorkerInv
<1>6. CASE Reserve(j)
  <2>1. /\ pc[j] = "reserve" /\ lock = j /\ lock' = None /\ policy' = policy
        /\ at[j] \in 1..MaxPasses /\ mine[j] \in Policies
    BY <1>6 DEF Reserve, WorkerInv, Ready
  <2>2. PICK p \in 1..MaxPasses : p = at[j]
    BY <2>1
  <2>3. PICK r \in [state : PassStates, digest : Policies \cup {None}] :
           /\ pass' = [pass EXCEPT ![j][p] = r]
           /\ r.state = IF reason[j] = "NONE" THEN "RESERVED" ELSE "SKIPPED"
    <3> DEFINE x == [state |-> IF reason[j] = "NONE" THEN "RESERVED" ELSE "SKIPPED",
                     digest |-> mine[j]]
    <3>1. pass' = [pass EXCEPT ![j][p] = x]
      BY <1>6, <2>2 DEF Reserve
    <3>2. x \in [state : PassStates, digest : Policies \cup {None}]
      BY <2>1 DEF PassStates
    <3>3. x.state = IF reason[j] = "NONE" THEN "RESERVED" ELSE "SKIPPED"
      OBVIOUS
    <3> HIDE DEF x
    <3> QED
      BY <3>1, <3>2, <3>3
  <2>4. pass' \in PassTable
    BY <2>3, OthersPass, Zenon
  <2>5. pass'[j][p] = r
    BY <2>3 DEF WorkerInv, Control, PassTable
  <2>6. \A k \in Jobs, o \in 1..MaxPasses : <<k, o>> # <<j, p>> =>
            (<<k, o>> \in Reserved' <=> <<k, o>> \in Reserved)
    BY <2>3, OthersPass, Zenon
  <2>7. \A k \in Jobs \ {j} : at[k] \in 1..MaxPasses => (<<k, at[k]>> \in Reserved' <=> <<k, at[k]>> \in Reserved)
    BY <2>6
  <2>8. reason[j] = "NONE" => <<j, p>> \in Reserved'
    BY <2>3, <2>5 DEF Reserved
  <2>9. \A k \in Jobs \ {j} : pc[k] # "reserve"
    BY <2>1 DEF WorkerInv, Ready
  <2>10. CASE reason[j] = "NONE" /\ Goto(j, "call") /\ UNCHANGED <<at, mine, reason>>
    <3>1. Control'
      BY <2>1, <2>4, <2>10 DEF WorkerInv, Control, Goto, Pcs
    <3>2. \A k \in Jobs : Ready(k)'
      BY <2>1, <2>2, <2>7, <2>8, <2>9, <2>10 DEF WorkerInv, Control, Ready, Goto
    <3> QED
      BY <3>1, <3>2 DEF WorkerInv
  <2>11. CASE Stop(j, "FAILED")
    <3>1. /\ pc' = [pc EXCEPT ![j] = "idle"]
          /\ \A k \in Jobs \ {j} : at'[k] = at[k] /\ mine'[k] = mine[k] /\ reason'[k] = reason[k]
          /\ at' \in [Jobs -> 1..MaxPasses + 1] /\ mine' \in [Jobs -> Policies \cup {None}]
          /\ reason' \in [Jobs -> Reasons]
      BY <2>11, Stops
    <3>2. Control'
      BY <2>1, <2>4, <3>1 DEF WorkerInv, Control, Pcs
    <3>3. \A k \in Jobs : Ready(k)'
      BY <2>1, <2>7, <2>9, <3>1 DEF WorkerInv, Control, Ready
    <3> QED
      BY <3>2, <3>3 DEF WorkerInv
  <2>12. CASE NextPass(j)
    <3>1. Control'
      BY <2>1, <2>4, <2>12, NextPassTypes, Zenon DEF WorkerInv, Control
    <3>2. \A k \in Jobs : Ready(k)'
      BY <2>1, <2>7, <2>9, <2>12 DEF WorkerInv, Control, Ready, NextPass, Goto
    <3> QED
      BY <3>1, <3>2 DEF WorkerInv
  <2>13. \/ reason[j] = "NONE" /\ Goto(j, "call") /\ UNCHANGED <<at, mine, reason>>
         \/ Stop(j, "FAILED")
         \/ NextPass(j)
    BY <1>6 DEF Reserve
  <2> QED
    BY <2>10, <2>11, <2>12, <2>13
<1>7. CASE Call(j)
  <2>1. /\ pc[j] = "call" /\ pc' = [pc EXCEPT ![j] = "answer"]
        /\ pass' = pass /\ lock' = lock /\ policy' = policy
        /\ at' = at /\ mine' = mine /\ reason' = reason
    BY <1>7 DEF Call, Goto
  <2>2. Reserved' = Reserved
    BY <2>1 DEF Reserved
  <2>3. Control'
    BY <2>1 DEF WorkerInv, Control, Pcs
  <2>4. \A k \in Jobs : Ready(k)'
    BY <2>1, <2>2 DEF WorkerInv, Control, Ready
  <2> QED
    BY <2>3, <2>4 DEF WorkerInv
<1>8. CASE NoCall(j)
  <2>1. /\ pc[j] \in {"call", "answer"} /\ Settle(j, at[j], "UNKNOWN") /\ \E t : Stop(j, t)
        /\ lock' = lock /\ policy' = policy
    BY <1>8 DEF NoCall
  <2> QED
    BY <2>1, SettledStops DEF PassStates
<1>9. CASE Answered(j)
  <2>1. pc[j] \in {"call", "answer"} /\ lock' = lock /\ policy' = policy
    BY <1>9 DEF Answered
  <2>2. PICK s \in {"SUCCEEDED", "FAILED", "UNKNOWN"} :
           /\ Settle(j, at[j], s)
           /\ (\E t : Stop(j, t)) \/ NextPass(j)
    BY <1>9 DEF Answered, Failures
  <2> QED
    BY <2>1, <2>2, SettledStops DEF PassStates
<1>10. CASE TimesOut(j)
  <2>1. /\ pc[j] \in {"call", "answer"} /\ Settle(j, at[j], "UNKNOWN") /\ \E t : Stop(j, t)
        /\ lock' = lock /\ policy' = policy
    BY <1>10 DEF TimesOut
  <2> QED
    BY <2>1, SettledStops DEF PassStates
<1>11. CASE Persist(j) \/ Recheck(j) \/ Look(j) \/ List(j)
  <2>1. pc[j] # "reserve" /\ pass' = pass /\ lock' = lock /\ policy' = policy
    BY <1>11 DEF Persist, Recheck, Look, List
  <2>2. \/ \E s : Stop(j, s)
        \/ /\ \E l \in {"recheck", "look", "record", "list", "post"} : Goto(j, l)
           /\ UNCHANGED <<at, mine, reason>>
    BY <1>11 DEF Persist, Recheck, Look, List
  <2>3. CASE \E s : Stop(j, s)
    BY <2>1, <2>3, OneStop
  <2>4. CASE /\ \E l \in {"recheck", "look", "record", "list", "post"} : Goto(j, l)
             /\ UNCHANGED <<at, mine, reason>>
    <3>1. Aside(j)
      BY <2>1, <2>4, GotoAside DEF Pcs
    <3> QED
      BY <3>1, AsideKeeps
  <2> QED
    BY <2>2, <2>3, <2>4
<1>12. CASE Post(j) \/ PostLost(j) \/ PostFails(j) \/ PostRefused(j) \/ Record(j) \/ Finish(j)
  <2>1. pc[j] # "reserve" /\ pass' = pass /\ lock' = lock /\ policy' = policy
    BY <1>12 DEF Post, PostLost, PostFails, PostRefused, Record, Finish, Posting
  <2>2. ASSUME Again(j)
        PROVE  \/ \E s : Stop(j, s)
               \/ UNCHANGED <<pc, at, mine, reason>>
    BY <2>2, ErrorStops DEF Again
  <2>3. \/ \E s : Stop(j, s)
        \/ UNCHANGED <<pc, at, mine, reason>>
        \/ /\ \E l \in {"record", "fallback", "finish"} : Goto(j, l)
           /\ UNCHANGED <<at, mine, reason>>
    BY <1>12, <2>2 DEF Post, PostLost, PostFails, PostRefused, Record, Finish
  <2>4. CASE \E s : Stop(j, s)
    BY <2>1, <2>4, OneStop
  <2>5. CASE UNCHANGED <<pc, at, mine, reason>>
    BY <2>1, <2>5, StayAside
  <2>6. CASE /\ \E l \in {"record", "fallback", "finish"} : Goto(j, l)
             /\ UNCHANGED <<at, mine, reason>>
    <3>1. Aside(j)
      BY <2>1, <2>6, GotoAside DEF Pcs
    <3> QED
      BY <3>1, AsideKeeps
  <2> QED
    BY <2>3, <2>4, <2>5, <2>6
<1> QED
  BY <1>1, <1>2, <1>3, <1>4, <1>5, <1>6, <1>7, <1>8, <1>9, <1>10, <1>11, <1>12 DEF Work

LEMMA EndsKeeps ==
    ASSUME WorkerInv, NEW j \in Jobs, Crash(j) \/ Cancel(j)
    PROVE  WorkerInv'
<1>1. /\ pass' = pass /\ policy' = policy
      /\ lock' = IF lock = j THEN None ELSE lock
      /\ \E l \in {"idle", "down"} : pc' = [pc EXCEPT ![j] = l]
      /\ at' = [at EXCEPT ![j] = 1] /\ mine' = [mine EXCEPT ![j] = None]
      /\ reason' = [reason EXCEPT ![j] = "NONE"]
  BY DEF Crash, Cancel, Ends, Stop, Goto, Leave
<1>2. Reserved' = Reserved
  BY <1>1 DEF Reserved
<1>3. Control'
  <2>1. 1 \in 1..MaxPasses + 1 /\ {"idle", "down"} \subseteq Pcs /\ "NONE" \in Reasons
    BY DEF Pcs, Reasons
  <2>2. pc' \in [Jobs -> Pcs]
    <3>1. PICK l \in Pcs : pc' = [pc EXCEPT ![j] = l]
      BY <1>1, <2>1
    <3> QED
      BY <3>1, Zenon DEF WorkerInv, Control
  <2>3. at' \in [Jobs -> 1..MaxPasses + 1]
    BY <1>1, <2>1, Zenon DEF WorkerInv, Control
  <2>4. mine' \in [Jobs -> Policies \cup {None}] /\ reason' \in [Jobs -> Reasons]
    BY <1>1, <2>1, Zenon DEF WorkerInv, Control
  <2>5. lock' \in Jobs \cup {None}
    BY <1>1, Zenon DEF WorkerInv, Control
  <2> QED
    BY <1>1, <2>2, <2>3, <2>4, <2>5, Zenon DEF WorkerInv, Control
<1>4. ASSUME NEW k \in Jobs PROVE Ready(k)'
  <2>1. CASE k = j
    <3>1. pc'[j] \in {"idle", "down"} /\ lock' # j
      BY <1>1 DEF WorkerInv, Control
    <3> QED
      BY <2>1, <3>1 DEF Ready
  <2>2. CASE k # j
    <3>1. pc'[k] = pc[k] /\ at'[k] = at[k] /\ mine'[k] = mine[k]
      BY <1>1, <2>2 DEF WorkerInv, Control
    <3>2. (lock' = k) <=> (lock = k)
      BY <1>1, <2>2 DEF WorkerInv, Control
    <3> QED
      BY <1>2, <3>1, <3>2 DEF WorkerInv, Ready
  <2> QED
    BY <2>1, <2>2
<1> QED
  BY <1>3, <1>4 DEF WorkerInv

LEMMA WorkerInvStep == WorkerInv /\ [Next]_vars => WorkerInv'
<1> SUFFICES ASSUME WorkerInv, [Next]_vars PROVE WorkerInv'
  OBVIOUS
<1>1. ASSUME NEW j \in Jobs, Claim(j) PROVE WorkerInv'
  <2>1. /\ pc[j] # "reserve" /\ Goto(j, "gate")
        /\ pass' = pass /\ lock' = lock /\ policy' = policy
        /\ at' = at /\ mine' = mine /\ reason' = reason
    BY <1>1 DEF Claim, WorkerInv, Ready
  <2>2. Aside(j)
    BY <2>1, GotoAside DEF Pcs
  <2> QED
    BY <2>2, AsideKeeps
<1>2. ASSUME NEW j \in Jobs, Work(j) PROVE WorkerInv'
  BY <1>2, WorkKeeps
<1>3. ASSUME NEW j \in Jobs, Crash(j) \/ Cancel(j) PROVE WorkerInv'
  BY <1>3, EndsKeeps
<1>4. ASSUME NEW j \in Jobs, Recover(j) PROVE WorkerInv'
  <2>1. /\ pc[j] # "reserve" /\ Stop(j, "FAILED")
        /\ pass' = pass /\ lock' = lock /\ policy' = policy
    BY <1>4 DEF Recover
  <2> QED
    BY <2>1, OneStop
<1>5. ASSUME NEW p \in Pulls, Push(p) PROVE WorkerInv'
  BY <1>5, StayAside DEF Push, worker
<1>6. ASSUME NEW q \in Policies, ChangePolicy(q) PROVE WorkerInv'
  <2>1. /\ pass' = pass /\ lock' = lock /\ policy' = q /\ pc' = pc
        /\ at' = at /\ mine' = mine /\ reason' = reason
    BY <1>6 DEF ChangePolicy, worker
  <2>2. Reserved' = Reserved
    BY <2>1 DEF Reserved
  <2> QED
    BY <2>1, <2>2 DEF WorkerInv, Control, Ready
<1>7. CASE UNCHANGED service
  BY <1>7, StayAside DEF service, worker
<1>8. CASE UNCHANGED vars
  BY <1>7, <1>8 DEF vars
<1> QED
  BY <1>1, <1>2, <1>3, <1>4, <1>5, <1>6, <1>7, <1>8 DEF Next

LEMMA WorkerInvInit == Init => WorkerInv
<1> SUFFICES ASSUME Init PROVE WorkerInv
  OBVIOUS
<1>1. Control
  BY DEF Init, Control, PassTable, Pcs, Reasons, PassStates
<1>2. \A j \in Jobs : Ready(j)
  BY DEF Init, Ready
<1> QED
  BY <1>1, <1>2 DEF WorkerInv

\* The invariant of the workers.
LEMMA WorkerInvHolds == Spec => []WorkerInv
<1>1. Init => WorkerInv
  BY WorkerInvInit
<1>2. WorkerInv /\ [Next]_vars => WorkerInv'
  BY WorkerInvStep
<1> QED
  BY <1>1, <1>2, PTL DEF Spec

-----------------------------------------------------------------------------
\* The executor under the service is the executor of the module Executor.

LEMMA CallStep ==
    ASSUME WorkerInv, NEW j \in Jobs, Work(j)
    PROVE  E!Next \/ executor' = executor
<1>1. ASSUME NEW c \in Jobs, E!Abandon(c) \/ E!Take(c) PROVE E!Next
  BY <1>1 DEF E!Next
<1>2. CASE Call(j)
  <2>1. <<j, at[j]>> \in Jobs \X (1..MaxPasses) /\ mine[j] \in Policies
    BY <1>2 DEF Call, WorkerInv, Ready
  <2>2. E!Send(j, <<j, at[j]>>, mine[j])
    BY <1>2 DEF Call
  <2> QED
    BY <2>1, <2>2 DEF E!Next
<1>3. CASE Answered(j)
  BY <1>1, <1>3 DEF Answered
<1>4. CASE TimesOut(j)
  BY <1>1, <1>4 DEF TimesOut
<1>5. CASE ~(Call(j) \/ Answered(j) \/ TimesOut(j))
  BY <1>5 DEF Work, Gate, Unreviewable, ReadFails, ResumePass, CountBudget, Reserve, NoCall,
       Persist, Recheck, Look, List, Post, PostLost, PostFails, PostRefused, Record, Finish
<1> QED
  BY <1>2, <1>3, <1>4, <1>5

LEMMA SameInit == E!Init <=> EP!Init
  BY DEF E!Init, EP!Init, E!NoRecord, EP!NoRecord, E!Nobody, EP!Nobody, E!Idle, EP!Idle

LEMMA SameNext == E!Next <=> EP!Next
  BY SameCalls, SameReceive, SameRun, Zenon DEF E!Next, EP!Next

LEMMA HangUpStep ==
    ASSUME NEW j \in Jobs, HangUp(j)
    PROVE  E!Next \/ executor' = executor
  BY DEF HangUp, E!Next

LEMMA ExecutorSteps == WorkerInv /\ [Next]_vars => [E!Next]_executor
<1> SUFFICES ASSUME WorkerInv, [Next]_vars PROVE E!Next \/ executor' = executor
  OBVIOUS
<1>1. ASSUME NEW j \in Jobs, Claim(j) \/ Recover(j) PROVE executor' = executor
  BY <1>1 DEF Claim, Recover
<1>2. ASSUME NEW j \in Jobs, Crash(j) \/ Cancel(j) PROVE E!Next \/ executor' = executor
  BY <1>2, HangUpStep DEF Crash, Cancel, Ends
<1>3. CASE \E p \in Pulls : Push(p)
  BY <1>3 DEF Push
<1>4. CASE \E q \in Policies : ChangePolicy(q)
  BY <1>4 DEF ChangePolicy
<1>5. CASE ExecutorStep
  BY <1>5 DEF ExecutorStep, E!Next
<1>6. CASE UNCHANGED vars
  BY <1>6 DEF vars
<1> QED
  BY <1>1, <1>2, <1>3, <1>4, <1>5, <1>6, CallStep DEF Next

\* The service uses the executor only as a caller of Executor may: everything
\* that is proved of the executor alone holds under the service.
THEOREM ExecutorImplemented == Spec => E!Spec
<1>1. Init => E!Init
  BY DEF Init
<1>2. WorkerInv /\ [Next]_vars => [E!Next]_(E!vars)
  BY ExecutorSteps DEF E!vars
<1> QED
  BY <1>1, <1>2, WorkerInvHolds, PTL DEF Spec, E!Spec

\* The executor's types, and its promise of one process for each identity.
LEMMA ExecutorPromises == Spec => [](EP!TypeOK /\ EP!OneProcess)
<1>1. Init => EP!Init
  BY SameInit DEF Init
<1>2. WorkerInv /\ [Next]_vars => [EP!Next]_(EP!vars)
  BY ExecutorSteps, SameNext DEF EP!vars
<1>3. EP!Spec => []EP!TypeOK
  BY EP!TypeCorrect, ServiceAssumption DEF EP!ExecutorAssumption
<1>4. EP!Spec => []EP!OneProcess
  BY EP!AtMostOnce, ServiceAssumption DEF EP!ExecutorAssumption
<1>5. Spec => EP!Spec
  BY <1>1, <1>2, WorkerInvHolds, PTL DEF Spec, EP!Spec
<1> QED
  BY <1>3, <1>4, <1>5, PTL

-----------------------------------------------------------------------------
\* The budget.

\* What is on its way to the executor, at it, or was run by it is reserved.
Backed ==
    /\ \A q \in net : q.id \in Reserved
    /\ running # E!Nobody => running.id \in Reserved
    /\ \A i \in Jobs \X (1..MaxPasses) : procs[i] > 0 => i \in Reserved

\* The worker that holds the lock still has the room that it has counted.
BudgetInv ==
    /\ Cardinality(Reserved) <= Budget
    /\ \A j \in Jobs : pc[j] = "reserve" /\ reason[j] = "NONE" => Cardinality(Reserved) < Budget
    /\ Backed

LEMMA FinitePasses ==
    /\ IsFiniteSet(Jobs \X (1..MaxPasses))
    /\ IsFiniteSet(Reserved) /\ Cardinality(Reserved) \in Nat
<1>1. IsFiniteSet(1..MaxPasses)
  <2>1. 1 \in Int /\ MaxPasses \in Int
    OBVIOUS
  <2> QED
    BY <2>1, FS_Interval, Zenon
<1>2. IsFiniteSet(Jobs \X (1..MaxPasses))
  BY <1>1, FS_Product
<1>3. Reserved \in SUBSET (Jobs \X (1..MaxPasses))
  BY DEF Reserved
<1> QED
  BY <1>2, <1>3, FS_Subset, FS_CardinalityType

\* The executor's own steps, and the calls, ask for nothing that was not asked
\* for before, but the identity that is sent.
LEMMA BackedStep ==
    ASSUME EP!TypeOK, Backed, Reserved \subseteq Reserved',
           \/ executor' = executor
           \/ \E c \in Jobs : E!Abandon(c) \/ E!Take(c)
           \/ \E c \in Jobs, i \in Reserved', d \in Policies : E!Send(c, i, d)
           \/ ExecutorStep
    PROVE  Backed'
<1>0. /\ \A q \in net : q.id \in Reserved'
      /\ \A q \in net : [q EXCEPT !.caller = None].id = q.id
      /\ running # E!Nobody => running.id \in Reserved'
      /\ \A i \in Jobs \X (1..MaxPasses) : procs[i] > 0 => i \in Reserved'
  <2>1. \A q \in net : [q EXCEPT !.caller = None].id = q.id
    <3>1. net \subseteq EP!Requests
      BY DEF EP!TypeOK
    <3> QED
      BY <3>1 DEF EP!Requests
  <2> QED
    BY <2>1 DEF Backed
<1>r. \/ running = E!Nobody
      \/ running.id \in Jobs \X (1..MaxPasses) /\ running.id # None
  BY DEF EP!TypeOK, EP!Nobody, E!Nobody
<1>1. CASE executor' = executor
  BY <1>0, <1>1 DEF Backed, E!Nobody
<1>2. CASE \E c \in Jobs : E!Abandon(c)
  <2>1. PICK c \in Jobs : E!Abandon(c)
    BY <1>2
  <2>2. procs' = procs
    BY <2>1 DEF E!Abandon, E!ghosts
  <2>3. \A q \in net' : q.id \in Reserved'
    <3> TAKE q \in net'
    <3>1. PICK o \in net : q = IF o.caller = c THEN [o EXCEPT !.caller = None] ELSE o
      BY <2>1 DEF E!Abandon
    <3>2. q.id = o.id
      BY <1>0, <3>1
    <3> QED
      BY <1>0, <3>2
  <2>4. c # None
    OBVIOUS
  <2>5. \/ running' = running
        \/ running # E!Nobody /\ running' = [running EXCEPT !.caller = None]
    <3>1. running' = IF running.caller = c THEN [running EXCEPT !.caller = None] ELSE running
      BY <2>1, Zenon DEF E!Abandon
    <3>2. E!Nobody.caller = None
      BY DEF E!Nobody
    <3>3. CASE running.caller = c
      <4>1. running # E!Nobody
        BY <2>4, <3>2, <3>3
      <4> QED
        BY <3>1, <3>3, <4>1
    <3>4. CASE running.caller # c
      BY <3>1, <3>4
    <3> QED
      BY <3>3, <3>4
  <2>6. running # E!Nobody => [running EXCEPT !.caller = None].id = running.id
    BY DEF EP!TypeOK, EP!Nobody, E!Nobody
  <2>7. running' # E!Nobody => running'.id \in Reserved'
    BY <1>0, <2>5, <2>6
  <2>8. E!Nobody' = E!Nobody
    BY DEF E!Nobody
  <2> QED
    BY <1>0, <2>2, <2>3, <2>7, <2>8 DEF Backed
<1>3. CASE \E c \in Jobs : E!Take(c)
  BY <1>0, <1>3 DEF E!Take, Backed, E!Nobody, E!ghosts
<1>4. CASE \E c \in Jobs, i \in Reserved', d \in Policies : E!Send(c, i, d)
  BY <1>0, <1>4 DEF E!Send, Backed, E!Nobody, E!ghosts
<1>5. ASSUME NEW q \in net, E!Receive(q) PROVE Backed'
  <2>1. procs' = procs /\ net' \subseteq net
    BY <1>5 DEF E!Receive, E!Unreadable, E!Replay, E!Conflict, E!InProgress, E!Busy, E!Admit,
         E!AdmitFails, E!Reply, E!ghosts
  <2>2. running' = running \/ running'.id = q.id
    BY <1>5 DEF E!Receive, E!Unreadable, E!Replay, E!Conflict, E!InProgress, E!Busy, E!Admit,
         E!AdmitFails, E!Reply
  <2> QED
    BY <1>0, <2>1, <2>2 DEF Backed, E!Nobody
<1>6. CASE E!Reject
  BY <1>0, <1>6 DEF E!Reject, Backed, E!ghosts
<1>7. CASE E!Spawn
  <2>1. /\ net' = net /\ running # E!Nobody /\ running' = [running EXCEPT !.spawned = TRUE]
        /\ procs' = [procs EXCEPT ![running.id] = @ + 1]
    BY <1>7 DEF E!Spawn
  <2>2. running'.id = running.id
    BY <2>1 DEF EP!TypeOK, EP!Nobody, E!Nobody
  <2>3. \A i \in Jobs \X (1..MaxPasses) : procs'[i] > 0 => i = running.id \/ procs[i] > 0
    BY <2>1 DEF EP!TypeOK
  <2> QED
    BY <1>0, <2>1, <2>2, <2>3 DEF Backed, E!Nobody
<1>8. CASE \E s \in {"SUCCEEDED", "FAILED"} : E!Finish(s) \/ E!FinishNotDurable(s)
  BY <1>0, <1>8 DEF E!Finish, E!FinishNotDurable, Backed, E!ghosts
<1>9. CASE E!Restart
  BY <1>0, <1>9 DEF E!Restart, Backed
<1> QED
  BY <1>1, <1>2, <1>3, <1>4, <1>5, <1>6, <1>7, <1>8, <1>9 DEF ExecutorStep

\* No worker comes to reserve a pass but by counting the processes.
NoClaim(j) ==
    /\ pc' = pc \/ \E l \in Pcs \ {"reserve"} : pc' = [pc EXCEPT ![j] = l]
    /\ reason' = reason \/ reason' = [reason EXCEPT ![j] = "NONE"]
    /\ reason' = reason \/ pc' # pc

LEMMA StopNoClaim ==
    ASSUME NEW j \in Jobs, NEW s, Stop(j, s), pc[j] # "idle", WorkerInv
    PROVE  NoClaim(j)
  BY DEF WorkerInv, Control, Stop, Goto, Leave, NoClaim, Pcs

LEMMA WorkNoClaim ==
    ASSUME WorkerInv, NEW j \in Jobs, Work(j), ~CountBudget(j)
    PROVE  NoClaim(j)
<1>1. \A l \in Pcs \ {"reserve"} : Goto(j, l) /\ reason' = reason => NoClaim(j)
  BY DEF Goto, NoClaim
<1>2. NextPass(j) => NoClaim(j)
  BY <1>1 DEF NextPass, Pcs
<1>3. ASSUME AfterError(j, TRUE) \/ AfterError(j, FALSE), pc[j] # "idle" PROVE NoClaim(j)
  BY <1>3, StopNoClaim, ErrorStops
<1>4. ASSUME Again(j), pc[j] # "idle" PROVE NoClaim(j)
  BY <1>3, <1>4 DEF Again, NoClaim
<1>5. CASE Gate(j) \/ Unreviewable(j) \/ ResumePass(j) \/ Reserve(j)
  <2>1. pc[j] # "idle"
    BY <1>5 DEF Gate, Unreviewable, ResumePass, AtPass, Reserve
  <2>2. \/ \E s : Stop(j, s)
        \/ NextPass(j)
        \/ \E l \in {"pass", "call"} : Goto(j, l) /\ reason' = reason
    BY <1>5 DEF Gate, Unreviewable, ResumePass, Reserve
  <2> QED
    BY <1>1, <1>2, <2>1, <2>2, StopNoClaim DEF Pcs
<1>6. CASE ReadFails(j)
  BY <1>3, <1>6 DEF ReadFails
<1>7. CASE Call(j) \/ NoCall(j) \/ Answered(j) \/ TimesOut(j)
  <2>1. pc[j] # "idle"
    BY <1>7 DEF Call, NoCall, Answered, TimesOut
  <2>2. \/ \E s : Stop(j, s)
        \/ NextPass(j)
        \/ Goto(j, "answer") /\ reason' = reason
    BY <1>7 DEF Call, NoCall, Answered, TimesOut
  <2> QED
    BY <1>1, <1>2, <2>1, <2>2, StopNoClaim DEF Pcs
<1>8. CASE Persist(j) \/ Recheck(j) \/ Look(j) \/ List(j) \/ Post(j) \/ Record(j)
           \/ Finish(j) \/ PostRefused(j)
  <2>1. pc[j] # "idle"
    BY <1>8 DEF Persist, Recheck, Look, List, Post, Record, Finish, PostRefused, Posting
  <2>2. \/ \E s : Stop(j, s)
        \/ \E l \in {"recheck", "look", "record", "list", "post", "fallback", "finish"} :
              Goto(j, l) /\ reason' = reason
    BY <1>8 DEF Persist, Recheck, Look, List, Post, Record, Finish, PostRefused
  <2> QED
    BY <1>1, <2>1, <2>2, StopNoClaim DEF Pcs
<1>9. CASE PostLost(j) \/ PostFails(j)
  BY <1>4, <1>9 DEF PostLost, PostFails, Posting
<1> QED
  BY <1>5, <1>6, <1>7, <1>8, <1>9 DEF Work

\* A step after which there is as much room as before, or as was counted.
Roomy ==
    /\ Reserved' = Reserved
    /\ \A k \in Jobs : pc'[k] = "reserve" /\ reason'[k] = "NONE" =>
          \/ pc[k] = "reserve" /\ reason[k] = "NONE"
          \/ Cardinality(Reserved) < Budget

\* A step that makes use of the room.
Taken ==
    \E j \in Jobs :
        /\ pc[j] = "reserve" /\ reason[j] = "NONE" /\ at[j] \in 1..MaxPasses
        /\ Reserved' = Reserved \cup {<<j, at[j]>>}
        /\ \A k \in Jobs : pc'[k] # "reserve"

LEMMA NoClaimRoomy ==
    ASSUME WorkerInv, NEW j \in Jobs, NoClaim(j), Reserved' = Reserved
    PROVE  Roomy
<1> SUFFICES ASSUME NEW k \in Jobs, pc'[k] = "reserve", reason'[k] = "NONE"
             PROVE  pc[k] = "reserve" /\ reason[k] = "NONE"
  BY DEF Roomy
<1>1. CASE k # j
  BY <1>1 DEF NoClaim, WorkerInv, Control
<1>2. CASE k = j
  BY <1>2 DEF NoClaim, WorkerInv, Control
<1> QED
  BY <1>1, <1>2

LEMMA ReservedStep ==
    ASSUME WorkerInv, NEW j \in Jobs, Work(j)
    PROVE  Roomy \/ Taken
<1>1. CASE CountBudget(j)
  <2>1. /\ pass' = pass /\ Goto(j, "reserve") /\ lock = None
        /\ \E r \in Grounds : reason' = [reason EXCEPT ![j] = r]
    BY <1>1 DEF CountBudget
  <2>2. Reserved' = Reserved
    BY <2>1 DEF Reserved
  <2>3. reason'[j] = "NONE" => ~(Cardinality(Reserved) >= Budget)
    BY <2>1 DEF Grounds, WorkerInv, Control
  <2>4. \A k \in Jobs \ {j} : pc'[k] = pc[k]
    BY <2>1 DEF Goto, WorkerInv, Control
  <2>5. \A k \in Jobs : pc[k] # "reserve"
    BY <2>1 DEF WorkerInv, Ready
  <2>6. reason'[j] = "NONE" => Cardinality(Reserved) < Budget
    BY <2>3, FinitePasses
  <2> QED
    BY <2>2, <2>4, <2>5, <2>6 DEF Roomy
<1>2. CASE Reserve(j)
  <2>1. /\ pc[j] = "reserve" /\ lock = j /\ at[j] \in 1..MaxPasses /\ mine[j] \in Policies
        /\ <<j, at[j]>> \notin Reserved
    BY <1>2 DEF Reserve, WorkerInv, Ready
  <2>2. NoClaim(j)
    BY <1>2, WorkNoClaim DEF Work, CountBudget, Reserve, AtPass
  <2>3. PICK p \in 1..MaxPasses : p = at[j]
    BY <2>1
  <2>4. PICK r \in [state : PassStates, digest : Policies \cup {None}] :
           /\ pass' = [pass EXCEPT ![j][p] = r]
           /\ r.state = IF reason[j] = "NONE" THEN "RESERVED" ELSE "SKIPPED"
    <3> DEFINE x == [state |-> IF reason[j] = "NONE" THEN "RESERVED" ELSE "SKIPPED",
                     digest |-> mine[j]]
    <3>1. pass' = [pass EXCEPT ![j][p] = x]
      BY <1>2, <2>3 DEF Reserve
    <3>2. x \in [state : PassStates, digest : Policies \cup {None}]
      BY <2>1 DEF PassStates
    <3>3. x.state = IF reason[j] = "NONE" THEN "RESERVED" ELSE "SKIPPED"
      OBVIOUS
    <3> HIDE DEF x
    <3> QED
      BY <3>1, <3>2, <3>3
  <2>5. pass'[j][p] = r
    BY <2>4 DEF WorkerInv, Control, PassTable
  <2>6. \A k \in Jobs, o \in 1..MaxPasses : <<k, o>> # <<j, p>> =>
            (<<k, o>> \in Reserved' <=> <<k, o>> \in Reserved)
    BY <2>4, OthersPass, Zenon
  <2>7. <<j, p>> \in Reserved' <=> reason[j] = "NONE"
    BY <2>4, <2>5 DEF Reserved
  <2>8. \A x \in Jobs \X (1..MaxPasses) :
           x \in Reserved' <=> x \in Reserved \/ (x = <<j, p>> /\ reason[j] = "NONE")
    <3> TAKE x \in Jobs \X (1..MaxPasses)
    <3>1. PICK k \in Jobs, o \in 1..MaxPasses : x = <<k, o>>
      OBVIOUS
    <3> QED
      BY <2>1, <2>3, <2>6, <2>7, <3>1
  <2>9. Reserved \subseteq Jobs \X (1..MaxPasses) /\ Reserved' \subseteq Jobs \X (1..MaxPasses)
    BY DEF Reserved
  <2>10. CASE reason[j] = "NONE"
    <3>1. Reserved' = Reserved \cup {<<j, at[j]>>}
      BY <2>3, <2>8, <2>9, <2>10
    <3>2. \A k \in Jobs : pc'[k] # "reserve"
      <4>1. pc'[j] # "reserve"
        BY <1>2 DEF Reserve, NextPass, Stop, Goto, WorkerInv, Control
      <4>2. \A k \in Jobs \ {j} : pc[k] # "reserve"
        BY <2>1 DEF WorkerInv, Ready
      <4>3. \A k \in Jobs \ {j} : pc'[k] = pc[k]
        BY <2>2 DEF NoClaim, WorkerInv, Control
      <4> QED
        BY <4>1, <4>2, <4>3
    <3> QED
      BY <2>1, <2>10, <3>1, <3>2 DEF Taken
  <2>11. CASE reason[j] # "NONE"
    <3>1. Reserved' = Reserved
      BY <2>8, <2>9, <2>11
    <3> QED
      BY <2>2, <3>1, NoClaimRoomy
  <2> QED
    BY <2>10, <2>11
<1>3. CASE NoCall(j) \/ Answered(j) \/ TimesOut(j)
  <2>1. /\ at[j] \in 1..MaxPasses /\ <<j, at[j]>> \in Reserved
        /\ ~CountBudget(j)
    BY <1>3 DEF NoCall, Answered, TimesOut, WorkerInv, Ready, CountBudget, AtPass
  <2>2. PICK s \in PassStates \ {"NONE", "SKIPPED"} : Settle(j, at[j], s)
    BY <1>3 DEF NoCall, Answered, TimesOut, Failures, PassStates
  <2>3. Reserved' = Reserved
    BY <2>1, <2>2, SettleKeeps
  <2> QED
    BY <2>1, <2>3, WorkNoClaim, NoClaimRoomy
<1>4. CASE ~(CountBudget(j) \/ Reserve(j) \/ NoCall(j) \/ Answered(j) \/ TimesOut(j))
  <2>1. pass' = pass
    BY <1>4 DEF Work, Gate, Unreviewable, ReadFails, ResumePass, Call, Persist, Recheck, Look,
         List, Post, PostLost, PostFails, PostRefused, Record, Finish
  <2>2. Reserved' = Reserved
    BY <2>1 DEF Reserved
  <2> QED
    BY <1>4, <2>2, WorkNoClaim, NoClaimRoomy
<1> QED
  BY <1>1, <1>2, <1>3, <1>4

LEMMA RoomKept ==
    ASSUME BudgetInv, Roomy \/ Taken, Backed'
    PROVE  BudgetInv'
<1>1. CASE Roomy
  BY <1>1 DEF Roomy, BudgetInv
<1>2. CASE Taken
  <2>1. PICK j \in Jobs : /\ pc[j] = "reserve" /\ reason[j] = "NONE"
                          /\ Reserved' = Reserved \cup {<<j, at[j]>>}
                          /\ \A k \in Jobs : pc'[k] # "reserve"
    BY <1>2 DEF Taken
  <2>2. Cardinality(Reserved) \in Nat /\ Cardinality(Reserved) < Budget
    BY <2>1, FinitePasses DEF BudgetInv
  <2>3. /\ Cardinality(Reserved \cup {<<j, at[j]>>}) \in Nat
        /\ Cardinality(Reserved \cup {<<j, at[j]>>}) <= Cardinality(Reserved) + 1
    <3> DEFINE x == <<j, at[j]>>
    <3>1. /\ IsFiniteSet(Reserved \cup {x})
          /\ Cardinality(Reserved \cup {x}) =
                IF x \in Reserved THEN Cardinality(Reserved) ELSE Cardinality(Reserved) + 1
      <4> HIDE DEF x
      <4> QED
        BY FinitePasses, FS_AddElement, Zenon
    <3> HIDE DEF x
    <3>2. Cardinality(Reserved \cup {x}) \in Nat /\ Cardinality(Reserved \cup {x}) <= Cardinality(Reserved) + 1
      BY <2>2, <3>1
    <3> QED
      BY <3>2 DEF x
  <2>4. /\ Cardinality(Reserved') \in Nat
        /\ Cardinality(Reserved') <= Cardinality(Reserved) + 1
    BY <2>1, <2>3, Zenon
  <2>5. Budget \in Nat
    OBVIOUS
  <2>6. Cardinality(Reserved') <= Budget
    BY <2>2, <2>4, <2>5
  <2> QED
    BY <2>1, <2>6, Zenon DEF BudgetInv
<1> QED
  BY <1>1, <1>2

LEMMA BudgetInvInit == Init => BudgetInv
<1> SUFFICES ASSUME Init PROVE BudgetInv
  OBVIOUS
<1>1. Reserved = {}
  BY DEF Init, Reserved
<1>2. Cardinality(Reserved) = 0
  BY <1>1, FS_EmptySet
<1>3. Backed
  BY DEF Init, E!Init, Backed
<1> QED
  BY <1>2, <1>3 DEF Init, BudgetInv

LEMMA BudgetInvStep == WorkerInv /\ EP!TypeOK /\ BudgetInv /\ [Next]_vars => BudgetInv'
<1> SUFFICES ASSUME WorkerInv, EP!TypeOK, BudgetInv, [Next]_vars PROVE BudgetInv'
  OBVIOUS
<1>1. Backed
  BY DEF BudgetInv
<1>2. ASSUME NEW j \in Jobs, Work(j) PROVE BudgetInv'
  <2>1. Roomy \/ Taken
    BY <1>2, ReservedStep
  <2>2. Reserved \subseteq Reserved'
    BY <2>1 DEF Roomy, Taken
  <2>3. \/ executor' = executor
        \/ \E c \in Jobs : E!Abandon(c) \/ E!Take(c)
        \/ \E c \in Jobs, i \in Reserved', d \in Policies : E!Send(c, i, d)
    <3>1. CASE Call(j)
      <4>1. <<j, at[j]>> \in Reserved' /\ mine[j] \in Policies
        BY <3>1, <2>2 DEF Call, WorkerInv, Ready
      <4> QED
        BY <3>1, <4>1 DEF Call
    <3>2. CASE Answered(j) \/ TimesOut(j)
      BY <3>2 DEF Answered, TimesOut
    <3>3. CASE ~(Call(j) \/ Answered(j) \/ TimesOut(j))
      BY <1>2, <3>3 DEF Work, Gate, Unreviewable, ReadFails, ResumePass, CountBudget, Reserve,
           NoCall, Persist, Recheck, Look, List, Post, PostLost, PostFails, PostRefused, Record,
           Finish
    <3> QED
      BY <3>1, <3>2, <3>3
  <2>4. Backed'
    BY <1>1, <2>2, <2>3, BackedStep
  <2> QED
    BY <2>1, <2>4, RoomKept
<1>3. ASSUME NEW j \in Jobs, Claim(j) \/ Recover(j) \/ Crash(j) \/ Cancel(j) PROVE BudgetInv'
  <2>1. /\ pass' = pass
        /\ \/ executor' = executor
           \/ E!Abandon(j) \/ E!Take(j)
    BY <1>3 DEF Claim, Recover, Crash, Cancel, Ends, HangUp
  <2>2. Reserved' = Reserved
    BY <2>1 DEF Reserved
  <2>3. \A k \in Jobs : pc'[k] = "reserve" => pc[k] = "reserve" /\ reason'[k] = reason[k]
    BY <1>3 DEF Claim, Recover, Crash, Cancel, Ends, Stop, Goto, Leave, WorkerInv, Control
  <2>4. Backed'
    BY <1>1, <2>1, <2>2, BackedStep
  <2>5. Roomy
    BY <2>2, <2>3 DEF Roomy
  <2> QED
    BY <2>4, <2>5, RoomKept
<1>4. CASE \/ \E p \in Pulls : Push(p)
           \/ \E q \in Policies : ChangePolicy(q)
           \/ ExecutorStep /\ UNCHANGED service
           \/ UNCHANGED vars
  <2>1. pass' = pass /\ pc' = pc /\ reason' = reason
    BY <1>4 DEF Push, ChangePolicy, service, worker, vars
  <2>2. Reserved' = Reserved
    BY <2>1 DEF Reserved
  <2>3. executor' = executor \/ ExecutorStep
    BY <1>4 DEF Push, ChangePolicy, vars
  <2>4. Backed'
    BY <1>1, <2>2, <2>3, BackedStep
  <2>5. Roomy
    BY <2>1, <2>2 DEF Roomy
  <2> QED
    BY <2>4, <2>5, RoomKept
<1> QED
  BY <1>2, <1>3, <1>4 DEF Next

\* However many workers reserve, resume and repeat their passes, and whatever
\* fails in between, the processes that the executor starts stay in the budget.
THEOREM BudgetHeld == Spec => []BudgetHolds
<1>1. Init => BudgetInv
  BY BudgetInvInit
<1>2. WorkerInv /\ EP!TypeOK /\ BudgetInv /\ [Next]_vars => BudgetInv'
  BY BudgetInvStep
<1>3. Spec => [](WorkerInv /\ EP!TypeOK /\ EP!OneProcess)
  BY WorkerInvHolds, ExecutorPromises, PTL
<1>4. EP!TypeOK /\ EP!OneProcess /\ BudgetInv => BudgetHolds
  <2> SUFFICES ASSUME EP!TypeOK, EP!OneProcess, BudgetInv PROVE BudgetHolds
    OBVIOUS
  <2>1. DOMAIN procs = Jobs \X (1..MaxPasses)
    BY DEF EP!TypeOK
  <2>2. {i \in DOMAIN procs : procs[i] > 0} \in SUBSET Reserved
    BY <2>1 DEF BudgetInv, Backed
  <2>3. Cardinality({i \in DOMAIN procs : procs[i] > 0}) <= Cardinality(Reserved)
    BY <2>2, FinitePasses, FS_Subset
  <2>4. Cardinality({i \in DOMAIN procs : procs[i] > 0}) \in Nat
    BY <2>2, FinitePasses, FS_Subset, FS_CardinalityType
  <2>5. Cardinality({i \in DOMAIN procs : procs[i] > 0}) <= Budget
    BY <2>3, <2>4, FinitePasses DEF BudgetInv
  <2> QED
    BY <2>1, <2>5 DEF BudgetHolds, EP!OneProcess
<1> QED
  BY <1>1, <1>2, <1>3, <1>4, PTL DEF Spec
=============================================================================
