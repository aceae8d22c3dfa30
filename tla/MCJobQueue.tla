----------------------------- MODULE MCJobQueue -----------------------------
EXTENDS JobQueue, TLC
CONSTANTS r1, r2, p1
McRepoOf == [p \in Pulls |-> IF p = p1 THEN r1 ELSE r2]
Symmetry == Permutations(Workers) \cup Permutations(Webs) \cup Permutations(Heads) \cup
            Permutations(Comments)
=============================================================================
