---------------------------- MODULE JobLifecycle ----------------------------
(***************************************************************************)
(* What the queue promises for each review job, whoever acts on it: the    *)
(* states it may pass through, that a terminal state is final, that        *)
(* attempts counts the starts, and that the execution identity is drawn    *)
(* once, while the job runs, and never changes.                            *)
(***************************************************************************)
EXTENDS Naturals

CONSTANT Jobs

VARIABLES status, attempts, execution

lifecycle == <<status, attempts, execution>>

Init ==
    /\ status = [j \in Jobs |-> "ABSENT"]
    /\ attempts = [j \in Jobs |-> 0]
    /\ execution = [j \in Jobs |-> 0]

\* The successors of a status.
After(s) ==
    CASE s = "ABSENT"  -> {"PENDING"}
      [] s = "PENDING" -> {"RUNNING", "SKIPPED", "FAILED"}
      [] s = "RUNNING" -> {"PENDING", "SUCCEEDED", "SKIPPED", "FAILED"}
      [] OTHER         -> {}

Starts(j) == status[j] = "PENDING" /\ status'[j] = "RUNNING"
Binds(j) ==
    /\ status[j] = "RUNNING" /\ status'[j] = "RUNNING"
    /\ execution[j] = 0 /\ execution'[j] = attempts[j]

Step(j) ==
    /\ status'[j] = status[j] \/ status'[j] \in After(status[j])
    /\ attempts'[j] = IF Starts(j) THEN attempts[j] + 1 ELSE attempts[j]
    /\ execution'[j] = execution[j] \/ Binds(j)

\* Recovery and superseding move several jobs in one transaction, a claim one.
Next ==
    /\ \A j \in Jobs : Step(j)
    /\ \A i, j \in Jobs : Starts(i) /\ Starts(j) => i = j

Spec == Init /\ [][Next]_lifecycle
=============================================================================
