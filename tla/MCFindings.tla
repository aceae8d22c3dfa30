------------------------------ MODULE MCFindings ------------------------------
\* One review under two policies.

EXTENDS MCReviewCases

McPolicies ==
    {[confidence |-> 8, low |-> FALSE, findings |-> 3, severity |-> 1, categories |-> {}, without |-> {},
      type |-> "SUGGESTION", profile |-> "BALANCED", inline |-> 1],
     [confidence |-> 8, low |-> TRUE, findings |-> 2, severity |-> 2, categories |-> {"BUG", "PERFORMANCE"},
      without |-> {"QUESTION"}, type |-> "SHOULD_FIX", profile |-> "CONSERVATIVE", inline |-> 2]}

Next == (\E policy \in McPolicies : Fetch(policy, McIgnored)) \/ FindingsSteps
Spec == FindingsInit /\ [][Next]_findings
=============================================================================
