-------------------------- MODULE MCReviewService --------------------------
\* Two jobs: an AUTO one and a command of one pull request, for its first or its
\* second head (Publish, Duplicate), or two AUTO jobs that run side by side
\* (Passes).

EXTENDS ReviewService, TLC

Symmetry == Permutations(Policies)

\* Of the failures of the worker and of the executor one happens, and a lost
\* answer of GitHub meets only those of the worker.
Troubles ==
    /\ crashes + restarts + faults <= 1
    /\ lost = 0 \/ restarts + faults = 0
=============================================================================
