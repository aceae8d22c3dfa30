---------------------------- MODULE MCReviewCases ----------------------------
\* The diffs and the findings that the cases of a review need.

EXTENDS Findings

File(path, hunk) == [path |-> path, start |-> 1, hunk |-> hunk,
                     binary |-> FALSE, quoted |-> FALSE, large |-> FALSE]
X == <<"x">>
Y == <<"y">>

Removed == File(Y, <<"-">>)
Modified == File(X, <<"-", "+", "+", "+">>)
Usual == {<<Modified, Removed>>}

\* Ordinary diffs, and those at whose lines or names the parser stumbles.
McDiffs ==
    Usual \cup
    { <<File(X, <<"+", "++", "+">>)>>,
      <<File(X, <<"+", "split", "+">>)>>,
      <<File(<<"a", "x">>, <<"+", "+", "+">>)>>,
      <<File(<<"b", "z">>, <<"+">>)>>,
      <<Modified, File(<<"a", "x">>, <<"-", "+">>)>>,
      <<Modified, [File(Y, <<"+", "+", "+", "+">>) EXCEPT !.quoted = TRUE, !.start = 2]>>,
      <<[Modified EXCEPT !.binary = TRUE]>>, <<[Modified EXCEPT !.large = TRUE]>>,
      <<Modified, File(Y, <<"+">>), File(<<"z">>, <<"+">>)>>,
      <<Modified, File(Y, <<"+">>), File(<<"lock">>, <<"+">>)>>,
      <<File(<<"lock">>, <<"+">>)>>, <<File(<<"dist", "x">>, <<"+">>)>>, <<Removed>> }
McTree == {X}
McIgnored == {<<"z">>}

Plainly == [scope |-> "LINE", path |-> X, line |-> 1, type |-> "MUST_FIX", category |-> "BUG",
            severity |-> 3, confidence |-> 9, relation |-> None, introduced |-> "unset",
            anchor |-> None, defect |-> None, text |-> "t", has |-> {}]
Anchored == [kind |-> "ADDED_LINE", path |-> X, line |-> 1]

\* Findings of the model: an old one and a modern one, and what may be wrong with each.
Ordinary ==
    {Plainly, [Plainly EXCEPT !.scope = "FILE"]} \cup {[Plainly EXCEPT !.line = n] : n \in 0..4}
      \cup {[Plainly EXCEPT !.path = p] : p \in {None, Y, <<"a", "x">>, <<"..", "x">>}}
      \cup {[Plainly EXCEPT !.severity = n] : n \in {1, 2}}
      \cup {[Plainly EXCEPT !.confidence = n] : n \in {7, 8}}
      \cup {[Plainly EXCEPT !.has = S] : S \in {{"null side"}, {"causal"}, {"patch"}, {"fix"},
                                               {"why", "action", "condition", "impact", "patch"}}}
      \cup {[Plainly EXCEPT !.category = c, !.has = S] : c \in {"PERFORMANCE"}, S \in {{}, {"cause"}}}
      \cup {[Plainly EXCEPT !.type = t, !.severity = n, !.has = S] :
              t \in {"SUGGESTION", "QUESTION", "POSITIVE"}, n \in {1, 4},
              S \in {{}, {"action"}, {"why", "asks", "three words"}}}

Impact == [Plainly EXCEPT !.relation = "CROSS_FILE_IMPACT", !.introduced = "yes", !.anchor = Anchored,
                          !.has = {"causal", "specific", "symbol", "chain", "condition", "impact", "evidence"}]
Modern ==
    {Impact} \cup {[Impact EXCEPT !.scope = s, !.path = p] : s \in {"FILE", "PR"}, p \in {None, X, Y}}
      \cup {[Impact EXCEPT !.defect = "d", !.line = n, !.severity = v] : n \in {1, 2}, v \in {2, 3}}
      \cup {[Impact EXCEPT !.anchor = a] :
              a \in {None, [Anchored EXCEPT !.line = 4], [kind |-> "CHANGED_FILE", path |-> Y, line |-> 0]}}
      \cup {[Impact EXCEPT !.has = S] : S \in {{}, {"causal"}, Impact.has \cup {"fix", "broad"}}}
      \cup {[Impact EXCEPT !.introduced = b] : b \in {"no", "unset"}}
      \cup {[Impact EXCEPT !.relation = r] : r \in {"PRE_EXISTING_UNRELATED", "PR_WIDE", "DIRECT_CHANGE"}}
      \cup {[Impact EXCEPT !.defect = "d", !.anchor = [Anchored EXCEPT !.line = 4]]}

\* Findings that meet each other: twins, and more of them than the budget allows.
Twins == {Plainly, [Plainly EXCEPT !.severity = 2], [Plainly EXCEPT !.confidence = 8],
          [Impact EXCEPT !.defect = "d"], [Impact EXCEPT !.defect = "d", !.line = 2, !.severity = 2],
          [Impact EXCEPT !.scope = "FILE"], [Plainly EXCEPT !.path = <<"a", "x">>]}
Several == {Plainly, [Plainly EXCEPT !.line = 3, !.severity = 2],
            [Plainly EXCEPT !.line = 2, !.type = "SUGGESTION", !.severity = 2, !.has = {"action"}],
            [Plainly EXCEPT !.line = 2, !.type = "POSITIVE", !.severity = 1, !.has = {"why", "three words"}],
            [Plainly EXCEPT !.line = 3, !.type = "POSITIVE", !.severity = 4, !.has = {"why", "three words"}]}

Placements == {[Plainly EXCEPT !.line = n, !.path = p] : n \in 1..4, p \in {X, <<"a", "x">>, <<"b", "z">>, Y}}
General == [Plainly EXCEPT !.scope = "PR", !.path = None, !.line = 0, !.has = {"condition", "impact", "evidence"}]

\* The usual diff meets every answer, the others meet findings at all their places.
McOutputs ==
    [diff \in McDiffs |->
        IF diff \in Usual
        THEN {<<f>> : f \in Ordinary \cup Modern} \cup Twins \X Twins \cup Several \X Several \X Several
        ELSE {<<>>, <<General>>} \cup {<<f>> : f \in Placements}]
McKnown == {{}, {Fingerprint(Plainly)}}
=============================================================================
