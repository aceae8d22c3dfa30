------------------------------- MODULE Findings -------------------------------
\* From the diff of a pull request and the findings of the model to the inline
\* comments of a Review: parse_unified_diff (app/review/diff.py), the wire model
\* (app/codex/schemas.py), validate_findings_with_diagnostics
\* (app/review/validator.py), fingerprint (app/review/deduplicator.py), StageCounts
\* (app/review/diagnostics.py) and the payload (app/review/publisher.py) with its
\* fallback (app/review/service.py).
\*
\* A path is the sequence of its parts, an optional text of a finding is the
\* presence of its name in the field "has", a confidence is in tenths.

EXTENDS Integers, Sequences, FiniteSets, SequencesExt, Nullable

CONSTANTS
    Diffs,           \* what git diff may print: sequences of file diffs
    Outputs,         \* what the model may answer to each of them: sequences of findings
    Known,           \* sets of fingerprints that an earlier attempt recorded
    Tree,            \* files of the head that the pull request leaves alone
    Emergency,       \* the five comments of a review with a serious defect
    MaxChangedFiles  \* settings.max_changed_files

VARIABLES
    review,   \* the review at work: its phase, the policy snapshot and the diff
    changed,  \* the manifest of changed files: path |-> added lines
    raw,      \* the findings of the model
    verdict,  \* what validation made of them
    posted    \* the Review on GitHub: inline comments, and whether it is the fallback

findings == <<review, changed, raw, verdict, posted>>

Phases == {"none", "fetched", "refused", "answered", "validated", "miscounted", "published"}

-----------------------------------------------------------------------------
\* The diff.

\* A file as git prints it: its name, the number of its first new line, and of each line
\* of its hunk what the parser can tell of it.
FileDiff == [path : Seq(STRING), start : Nat, hunk : Seq({"+", "++", "split", "-"}),
             binary : BOOLEAN, quoted : BOOLEAN, large : BOOLEAN]

\* The parts of a path that stay: one leading a, then one leading b is removed,
\* whether it is git's prefix or a directory; None when the path is unsafe.
Without(path, part) == IF Len(path) > 1 /\ path[1] = part THEN Tail(path) ELSE path
NormalizePath(path) ==
    IF path = None \/ ".." \in Range(path) THEN None ELSE Without(Without(path, "a"), "b")

\* What a line of a hunk does to the counter of new lines: one whose text starts with
\* ++ looks like a file header and is passed over; one that holds a character at which
\* str.splitlines breaks counts twice.
Added == {"+", "++", "split"}
Recorded == {"+", "split"}

\* Mutant: a removed line moves the counter of new lines as well.
CountedRemoved == Recorded \cup {"-"}
Counted == Recorded

\* How many lines before line k of the hunk are of these kinds, the number at which
\* line k is recorded, and its number in the file.
Before(file, k, kinds) == Cardinality({m \in 1..k - 1 : file.hunk[m] \in kinds})
RecordedAt(file, k) == file.start + Before(file, k, Counted) + Before(file, k, {"split"})
InFile(file, k) == file.start + Before(file, k, Added)

LinesOf(file, kinds) == {k \in DOMAIN file.hunk : file.hunk[k] \in kinds}
ParsedLines(file) == {RecordedAt(file, k) : k \in LinesOf(file, Recorded)}

\* A file whose header git puts in quotes does not match DIFF_HEADER: its lines go
\* to the file before it.
Section(diff, k) == {n \in k..Len(diff) : \A m \in k + 1..n : diff[m].quoted}

\* save(): the entries that are kept, as a binary or ignored file is left out.
Saved(diff, patterns) ==
    {k \in DOMAIN diff :
        /\ ~diff[k].quoted
        /\ NormalizePath(diff[k].path) \notin patterns \cup {None}
        /\ \A n \in Section(diff, k) : ~diff[n].binary}

\* Of the entries for one path the last is in the result.
ParseUnifiedDiff(diff, patterns) ==
    LET saved == Saved(diff, patterns)
        For(p) == {k \in saved : NormalizePath(diff[k].path) = p}
        last(p) == CHOOSE k \in For(p) : \A n \in For(p) : n <= k
    IN  [p \in {NormalizePath(diff[k].path) : k \in saved} |->
            UNION {ParsedLines(diff[n]) : n \in Section(diff, last(p))}]

\* fetch_and_diff gives up when there are too many files, or when a file with added
\* lines is not in the checkout under its name or is too large.
Refused(diff, manifest) ==
    \/ Cardinality(DOMAIN manifest) > MaxChangedFiles
    \/ \E p \in DOMAIN manifest : manifest[p] # {} /\ p \notin Tree \cup {diff[k].path : k \in DOMAIN diff}
    \/ \E k \in DOMAIN diff : diff[k].large /\ diff[k].path \in DOMAIN manifest

NoReviewableReason(diff, manifest) ==
    CASE DOMAIN manifest = {} ->
            IF \E k \in DOMAIN diff : diff[k].binary THEN "BINARY_ONLY" ELSE "ALL_FILES_IGNORED"
      [] OTHER ->
            IF \A p \in DOMAIN manifest : Last(p) = "lock" THEN "LOCKFILE_ONLY"
            ELSE IF \A p \in DOMAIN manifest : p[1] = "dist" THEN "GENERATED_ONLY"
            ELSE IF \A p \in DOMAIN manifest : manifest[p] = {} THEN "NO_REVIEWABLE_CODE"
            ELSE None

-----------------------------------------------------------------------------
\* A finding.

Defects == {"MUST_FIX", "SHOULD_FIX"}
OutsideLine == {"CROSS_FILE_IMPACT", "PR_WIDE"}
TypeOrder == [MUST_FIX |-> 5, SHOULD_FIX |-> 4, SUGGESTION |-> 3, QUESTION |-> 2, POSITIVE |-> 1]
CRITICAL == 4
HIGH == 3
LOW == 1

\* A finding on the wire; a missing line is 0.
Texts == {"side", "null side", "fix", "broad", "patch", "snippet", "action", "why", "asks", "three words",
          "condition", "impact", "evidence", "cause", "causal", "specific", "chain", "symbol"}
Finding == [scope : {"LINE", "FILE", "PR"}, path : {None} \cup Seq(STRING), line : Nat,
            type : DOMAIN TypeOrder, category : STRING, severity : LOW..CRITICAL, confidence : 0..10,
            relation : {None, "DIRECT_CHANGE", "CHANGED_FILE_CONTEXT", "PRE_EXISTING_UNRELATED"} \cup OutsideLine,
            introduced : {"yes", "no", "unset"}, defect : {None} \cup STRING, text : STRING, has : SUBSET Texts,
            anchor : {None} \cup [kind : {"ADDED_LINE", "CHANGED_FILE"}, path : Seq(STRING), line : Nat]]

ASSUME FindingsAssumption ==
    /\ {Emergency, MaxChangedFiles} \subseteq Nat \ {0}
    /\ Diffs \subseteq Seq(FileDiff)
    /\ \A diff \in Diffs : Outputs[diff] \subseteq Seq(Finding)

\* The wire model: a LINE finding is on the right side unless it says null, and an
\* old suggested_fix is an action.
Decoded(f) ==
    [f EXCEPT !.has = @ \cup (IF f.scope = "LINE" /\ "null side" \notin @ THEN {"side"} ELSE {})
                        \cup (IF "fix" \in @ THEN {"action"} ELSE {})]

RelationOf(f) ==
    IF f.relation # None THEN f.relation
    ELSE [LINE |-> "DIRECT_CHANGE", FILE |-> "CHANGED_FILE_CONTEXT", PR |-> "PR_WIDE"][f.scope]

\* The kind of anchor a finding must have, None when it needs none.
ExpectedAnchorKind(f, manifest, required) ==
    LET named == IF f.anchor = None THEN None ELSE NormalizePath(f.anchor.path)
        path == IF named # None THEN named ELSE NormalizePath(f.path)
    IN  IF ~required /\ RelationOf(f) \notin OutsideLine THEN None
        ELSE IF path \in DOMAIN manifest /\ manifest[path] = {} THEN "CHANGED_FILE"
        ELSE "ADDED_LINE"

AnchorMatches(f, manifest, expected) ==
    /\ f.anchor # None /\ expected # None
    /\ LET path == NormalizePath(f.anchor.path)
       IN  /\ path \in DOMAIN manifest
           /\ f.anchor.kind = expected
           /\ f.scope = "FILE" /\ f.path # None => NormalizePath(f.path) = path
           /\ IF expected = "CHANGED_FILE" THEN f.anchor.line = 0
              ELSE f.anchor.line \in manifest[path]

ScopeRelationIsValid(f) ==
    RelationOf(f) \in [LINE |-> {"DIRECT_CHANGE", "CROSS_FILE_IMPACT"},
                       FILE |-> {"DIRECT_CHANGE", "CHANGED_FILE_CONTEXT", "CROSS_FILE_IMPACT"},
                       PR |-> OutsideLine][f.scope]

\* The identity of a finding: of its defect where the model names one, else of its
\* place and its words.
Fingerprint(f) ==
    IF f.defect # None /\ f.anchor # None /\ f.introduced = "yes"
       /\ {"chain", "symbol", "causal"} \subseteq f.has
    THEN <<"semantic-v1", f.anchor.path, f.category, f.defect>>
    ELSE <<f.scope, f.path, f.line, f.text>>

-----------------------------------------------------------------------------
\* Validation: the checks that a finding passes in turn.  A check is its stage, the
\* reason it rejects for, and whether it rejects.

Grounding(f, manifest) ==
    LET expected == ExpectedAnchorKind(f, manifest, FALSE)
        impact == f.relation # None /\ RelationOf(f) \in OutsideLine
    IN  << <<"grounding", "INVALID_CHANGED_FILE_ANCHOR",
             f.defect # None /\ ~AnchorMatches(f, manifest, ExpectedAnchorKind(f, manifest, TRUE))>>,
           <<"relation", "CHANGE_RELATION_MISSING", f.relation = None /\ "causal" \in f.has>>,
           <<"relation", "PRE_EXISTING_UNRELATED",
             RelationOf(f) = "PRE_EXISTING_UNRELATED" \/ f.introduced = "no">>,
           <<"relation", "CHANGE_RELATION_MISSING", f.relation # None /\ f.introduced # "yes">>,
           <<"relation", "INVALID_SCOPE_RELATION", ~ScopeRelationIsValid(f)>>,
           <<"grounding", "CAUSAL_ANCHOR_MISSING", impact /\ f.anchor = None>>,
           <<"grounding", "INVALID_CROSS_FILE_IMPACT", impact /\ ~AnchorMatches(f, manifest, expected)>>,
           <<"grounding", "CAUSAL_EVIDENCE_MISSING", impact /\ "causal" \notin f.has>>,
           <<"grounding", "CAUSAL_EVIDENCE_NOT_SPECIFIC", impact /\ "specific" \notin f.has>> >>

Location(f, manifest) ==
    LET path == NormalizePath(f.path)
    IN  << <<"scope", "OUT_OF_SCOPE_SUGGESTED_FIX",
             f.relation # None /\ {"fix", "broad"} \subseteq f.has>>,
           <<"evidence", "MISSING_STRUCTURED_EVIDENCE",
             f.scope # "LINE" /\ ~({"condition", "impact", "evidence"} \subseteq f.has)>>,
           <<"scope", "INVALID_LOCATION",
             \/ f.scope # "PR" /\ f.path = None
             \/ f.scope = "LINE" /\ (f.line = 0 \/ "side" \notin f.has)>>,
           <<"scope", "INVALID_PATH", f.path # None /\ path = None>>,
           <<"scope", "FILE_NOT_CHANGED", f.path # None /\ path \notin DOMAIN manifest>>,
           <<"scope", "NO_CHANGED_FILES", f.scope = "PR" /\ DOMAIN manifest = {}>>,
           <<"scope", "LINE_NOT_CHANGED",
             f.scope = "LINE" /\ path \in DOMAIN manifest /\ f.line \notin manifest[path]>> >>

Policy(f, policy) ==
    << <<"confidence", "BELOW_CONFIDENCE", f.confidence < policy.confidence>>,
       <<"severity", "LOW_DISABLED", f.severity = LOW /\ ~policy.low /\ f.type \in Defects>>,
       <<"severity", "BELOW_SEVERITY", f.severity < policy.severity>>,
       <<"policy", "UNKNOWN_CATEGORY", policy.categories # {} /\ f.category \notin policy.categories>>,
       <<"policy", "REVIEW_TYPE_DISABLED", f.type \in policy.without>>,
       <<"policy", "BELOW_REVIEW_TYPE",
         f.type \in Defects \cup {"SUGGESTION"} /\ TypeOrder[f.type] < TypeOrder[policy.type]>>,
       <<"policy", "PROFILE_EXCLUDED",
         policy.profile = "CONSERVATIVE" /\ f.category \in {"PERFORMANCE", "SIMPLIFICATION", "TESTING"}>> >>

\* The evidence that each review_type asks for.
TypeEvidence(f) ==
    CASE f.type \in Defects ->
            \/ {"why", "action", "patch"} \cap f.has = {}
            \/ {"condition", "impact", "action"} \subseteq f.has
      [] f.scope # "LINE" -> FALSE
      [] f.type = "SUGGESTION" -> "action" \in f.has
      [] f.type = "QUESTION" -> {"why", "asks"} \subseteq f.has
      [] f.type = "POSITIVE" -> {"why", "three words"} \subseteq f.has

Evidence(f) ==
    << <<"evidence", "EVIDENCE_NOT_SUPPORTED",
         f.category \in {"SIMPLIFICATION", "PERFORMANCE"} /\ "cause" \notin f.has>>,
       <<"evidence", "REVIEW_TYPE_EVIDENCE_MISSING", ~TypeEvidence(f)>>,
       <<"evidence", "SUGGESTED_PATCH_INVALID", "patch" \in f.has /\ "snippet" \notin f.has>> >>

ChecksOf(f, manifest, policy) ==
    Grounding(f, manifest) \o Location(f, manifest) \o Policy(f, policy) \o Evidence(f)

\* A finding passes when no check rejects it; otherwise the first that does counts.
Passes(f, manifest, policy) ==
    LET checks == ChecksOf(f, manifest, policy) IN \A k \in DOMAIN checks : ~checks[k][3]
Rejection(f, manifest, policy) ==
    LET checks == ChecksOf(f, manifest, policy) IN checks[SelectInSeq(checks, LAMBDA c : c[3])]

\* Validation goes through the findings by severity, confidence and grounding, and
\* publishes them by developer value.  Both sorts keep the order of equals.
Precedes(s, t) == \E k \in DOMAIN s : s[k] > t[k] /\ \A m \in 1..k - 1 : s[m] = t[m]

\* Mutant: the certain findings are visited first.
CertainFirst(all, i) ==
    LET f == all[i]
    IN  <<f.confidence, f.severity, IF "causal" \in f.has /\ f.anchor # None THEN 1 ELSE 0, -i>>

VisitKey(all, i) ==
    LET f == all[i]
    IN  <<f.severity, f.confidence, IF "causal" \in f.has /\ f.anchor # None THEN 1 ELSE 0, -i>>

\* Mutant: an action outweighs the type of the finding.
ActionFirst(f) ==
    << 100 * f.severity + TypeOrder[f.type]
         + (IF {"action", "patch"} \cap f.has # {} THEN 4 ELSE 0)
         + (IF {"causal", "why"} \cap f.has # {} THEN 1 ELSE 0),
       f.confidence, TypeOrder[f.type], -f.line >>

SelectionScore(f) ==
    << 100 * f.severity + 10 * TypeOrder[f.type]
         + (IF {"action", "patch"} \cap f.has # {} THEN 4 ELSE 0)
         + (IF {"causal", "why"} \cap f.has # {} THEN 1 ELSE 0),
       f.confidence, TypeOrder[f.type], -f.line >>

Rank(all, i) == SelectionScore(all[i]) \o VisitKey(all, i)

\* Findings as they are compared and published: with their path normalised.
Placed(f) == IF f.path = None THEN f ELSE [f EXCEPT !.path = NormalizePath(f.path)]

\* A passing finding is a duplicate of what is known and of passing ones before it.
Duplicates(all, passing, known) ==
    {i \in passing :
        \/ Fingerprint(Placed(all[i])) \in known
        \/ \E j \in passing :
              /\ Precedes(VisitKey(all, j), VisitKey(all, i))
              /\ Fingerprint(Placed(all[j])) = Fingerprint(Placed(all[i]))}

Least(a, b) == IF a <= b THEN a ELSE b

InlineBudget(all, accepted, policy) ==
    Least(IF \E i \in accepted : all[i].type \in Defects /\ all[i].severity >= HIGH
          THEN Emergency ELSE policy.inline,
          policy.findings)

\* Going through the accepted findings by rank, one positive is kept, and as many LINE
\* findings as the budget allows: the one set in which the kept findings of a higher
\* rank say of each finding whether it is kept.
Lines(all, S) == {i \in S : all[i].scope = "LINE"}
Positives(all, S) == {i \in S : all[i].type = "POSITIVE"}
Ahead(all, S, i) == {j \in S : Precedes(Rank(all, j), Rank(all, i))}
Admits(all, kept, budget, i) ==
    /\ all[i].type = "POSITIVE" => Positives(all, Ahead(all, kept, i)) = {}
    /\ all[i].scope = "LINE" => Cardinality(Lines(all, Ahead(all, kept, i))) < budget
Kept(all, accepted, budget) ==
    CHOOSE kept \in SUBSET accepted : \A i \in accepted : i \in kept <=> Admits(all, kept, budget, i)

\* Mutant: what is over the budget is dropped without a reason.
OverPositives(all, kept, over) ==
    {<<"POSITIVE_LIMIT_EXCEEDED", i>> :
        i \in {n \in Positives(all, over) : Positives(all, kept) # {}}}

\* What is over the limits is counted under the limit it hit, and all of it once
\* more as MAX_FINDINGS_EXCEEDED.
OverLimit(all, kept, over) ==
    {<<"MAX_FINDINGS_EXCEEDED", i>> : i \in over}
        \cup {<<IF i \in Positives(all, over) /\ Positives(all, kept) # {}
                THEN "POSITIVE_LIMIT_EXCEEDED" ELSE "COMMENT_BUDGET_EXCEEDED", i>> : i \in over}

ValidateFindings(all, manifest, policy, known) ==
    LET passing == {i \in DOMAIN all : Passes(all[i], manifest, policy)}
        failing == DOMAIN all \ passing
        rejection == [i \in failing |-> Rejection(all[i], manifest, policy)]
        duplicates == Duplicates(all, passing, known)
        accepted == passing \ duplicates
        kept == Kept(all, accepted, InlineBudget(all, accepted, policy))
    IN  [kept |-> kept, accepted |-> accepted, evident |-> passing,
         scope |-> {i \in failing : rejection[i][1] \notin {"scope", "relation", "grounding"}} \cup passing,
         rejected |-> {<<rejection[i][2], i>> : i \in failing}
                        \cup {<<"DUPLICATE", i>> : i \in duplicates}
                        \cup OverLimit(all, kept, accepted \ kept)]

NoVerdict == [kept |-> {}, accepted |-> {}, evident |-> {}, scope |-> {}, rejected |-> {}]

\* StageCounts: the numbers may not grow from stage to stage, and the published and
\* the rejected candidates must be all of them.
NonIncreasing(values) == \A k \in 1..Len(values) - 1 : values[k] >= values[k + 1]
CountsHold(all, v) ==
    /\ NonIncreasing(<<Len(all), Cardinality(v.scope), Cardinality(v.evident),
                       Cardinality(v.accepted), Cardinality(v.kept)>>)
    /\ Len(all) = Cardinality(v.kept) + Cardinality(v.rejected)

-----------------------------------------------------------------------------
\* A review.

FindingsInit ==
    /\ review = [phase |-> "none", policy |-> None, diff |-> <<>>, known |-> {}, reason |-> None]
    /\ changed = <<>> /\ raw = <<>> /\ verdict = NoVerdict
    /\ posted = [comments |-> {}, summary |-> {}, fallback |-> FALSE]

\* The checkout and its manifest, under the policy of the job.
Fetch(policy, patterns) ==
    /\ review.phase = "none"
    /\ \E diff \in Diffs :
          LET manifest == ParseUnifiedDiff(diff, patterns)
          IN  /\ review' = [phase |-> IF Refused(diff, manifest) THEN "refused" ELSE "fetched",
                            policy |-> policy, diff |-> diff, known |-> {}, reason |-> None]
              /\ changed' = manifest
    /\ UNCHANGED <<raw, verdict, posted>>

\* The passes have ended; their findings are decoded.
Answer ==
    /\ review.phase = "fetched"
    /\ \E output \in Outputs[review.diff] : raw' = [k \in DOMAIN output |-> Decoded(output[k])]
    /\ review' = [review EXCEPT !.phase = "answered"]
    /\ UNCHANGED <<changed, verdict, posted>>

\* Validation and the check of its numbers, which ends the review when they do not add up.
Validate ==
    /\ review.phase = "answered"
    /\ \E known \in Known :
          /\ verdict' = ValidateFindings(raw, changed, review.policy, known)
          /\ review' = [review EXCEPT
                !.known = known,
                !.phase = IF CountsHold(raw, verdict') THEN "validated" ELSE "miscounted",
                !.reason = IF verdict'.kept # {} THEN None
                           ELSE LET why == NoReviewableReason(review.diff, changed)
                                IN  IF why # None THEN why ELSE "NO_VALID_INLINE_OBSERVATION"]
    /\ UNCHANGED <<changed, raw, posted>>

\* The place of a comment, as GitHub gets it.
Place(f) == <<NormalizePath(f.path), f.line>>
Inline == {Place(raw[i]) : i \in Lines(raw, verdict.kept)}

\* The lines that the pull request really adds.
AddedPlaces(diff) ==
    UNION {{<<diff[n].path, InFile(diff[n], k)>> : k \in LinesOf(diff[n], Added)} : n \in DOMAIN diff}

\* GitHub takes comments on added lines; it may take or refuse (422) one on a line
\* near them, and a refused review is posted once more without comments.
Publish ==
    /\ review.phase = "validated"
    /\ \E refused \in BOOLEAN :
       /\ refused => ~(Inline \subseteq AddedPlaces(review.diff))
       /\ posted' = [comments |-> IF refused THEN {} ELSE Inline,
                     summary |-> IF refused THEN verdict.kept
                                 ELSE verdict.kept \ Lines(raw, verdict.kept),
                     fallback |-> refused]
    /\ review' = [review EXCEPT !.phase = "published"]
    /\ UNCHANGED <<changed, raw, verdict>>

FindingsSteps == Answer \/ Validate \/ Publish

-----------------------------------------------------------------------------
\* Properties.

FindingsTypeOK ==
    /\ review.phase \in Phases /\ review.diff \in Diffs \cup {<<>>} /\ review.known \in Known \cup {{}}
    /\ \A p \in DOMAIN changed : changed[p] \subseteq Nat
    /\ verdict.kept \cup verdict.accepted \cup verdict.evident \cup verdict.scope \subseteq DOMAIN raw
    /\ posted.fallback \in BOOLEAN /\ posted.summary \subseteq DOMAIN raw

Validated == review.phase \in {"validated", "miscounted", "published"}
Dropped == {v[2] : v \in verdict.rejected}

\* StageCounts asserts that the published and the rejected candidates are all the
\* candidates (diagnostics.py:68).
CandidatesConserved == Validated => Len(raw) = Cardinality(verdict.kept) + Cardinality(verdict.rejected)

\* Every finding of the model is published or rejected for a reason, never both, and
\* the numbers of a review fail to add up only when findings were over its limits.
EveryFindingAccounted ==
    Validated => /\ verdict.kept \cup Dropped = DOMAIN raw
                 /\ verdict.kept \cap Dropped = {}
                 /\ review.phase = "miscounted" => verdict.accepted # verdict.kept

\* A diff that the parser reads as git means it: no line that splitlines breaks, no
\* quoted name, no directory that is taken for a prefix.
Plain(diff) ==
    \A n \in DOMAIN diff :
        /\ "split" \notin Range(diff[n].hunk) /\ ~diff[n].quoted
        /\ NormalizePath(diff[n].path) = diff[n].path

\* In such a diff every inline comment stands on a line that the pull request adds,
\* although the parser's numbers may miss some, and GitHub refuses no review.
CommentsOnAddedLines ==
    review.phase = "published" /\ Plain(review.diff) =>
        posted.comments \subseteq AddedPlaces(review.diff) /\ ~posted.fallback

\* A finding dropped as a duplicate within the review loses nothing: the twin that
\* stays is at least as severe, and as certain if it is as severe.
DuplicateKeepsWorst ==
    Validated =>
        \A d \in verdict.evident \ verdict.accepted :
            \/ Fingerprint(Placed(raw[d])) \in review.known
            \/ \E i \in verdict.accepted :
                  /\ Fingerprint(Placed(raw[i])) = Fingerprint(Placed(raw[d]))
                  /\ raw[i].severity >= raw[d].severity
                  /\ raw[i].severity = raw[d].severity => raw[i].confidence >= raw[d].confidence

\* The budget for comments never silences a defect for something worth less: what is
\* published before a dropped MUST_FIX is more severe, or as severe and a MUST_FIX too.
BudgetKeepsDefects ==
    Validated =>
        \A i \in verdict.accepted \ verdict.kept, j \in Lines(raw, verdict.kept) :
            raw[i].type = "MUST_FIX" =>
                \/ raw[j].severity > raw[i].severity
                \/ raw[j].severity = raw[i].severity /\ raw[j].type = "MUST_FIX"
=============================================================================
