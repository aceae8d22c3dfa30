-------------------------------- MODULE Intake --------------------------------
\* From the settings to the comments: the catalog, the forms of the administrators, the
\* deliveries of GitHub, the worker and one review in full, side by side.
\*
\* What comes from outside is bounded by a case: the rows that were saved before, how
\* often each kind of input may still come, and which inputs of the kind these are.

EXTENDS WebhookDelivery, Findings

CONSTANTS
    Cases,      \* bound: the cases
    Ignored     \* the ignored paths

\* The rows of a case came from forms that were accepted.
SeededPair(m, e) == m # None => m \in Models /\ e \in Seeded[m]
Inputs == {"forms", "commands", "deliveries", "redeliveries", "faults", "crashes", "pushes", "reviews"}
ASSUME CasesAssumption ==
    \A c \in Cases :
        LET g == Overlay(c.global, DefaultGlobal, DefaultGlobal)
            r == Overlay(c.repository, DefaultRepository, DefaultRepository)
        IN  /\ Sets(c.global, {}) /\ Sets(c.repository, {None}) /\ DOMAIN c.repository \subseteq RepositoryFields
            /\ SeededPair(g["model"], g["effort"]) /\ SeededPair(r["model"], EffortOr(r["effort"]))
            /\ "left" \in DOMAIN c /\ c.left \in [Inputs -> Nat]

VARIABLE case   \* the case, with the inputs that are left of it

vars == <<policyVars, webhooks, findings, case>>

Init ==
    /\ case \in Cases
    /\ PolicyInit(case.global, case.repository)
    /\ DeliveriesInit
    /\ FindingsInit

Input(kind) == case.left[kind] > 0 /\ case' = [case EXCEPT !.left[kind] = @ - 1]

\* One of several that are alike.
OneOf(S) == IF S = {} THEN {} ELSE {CHOOSE x \in S : TRUE}

\* The policy of the job, as validation takes it.
ReviewPolicyOf(g, r) ==
    LET e == Effective(g, r)
    IN  [confidence |-> e["confidence"], low |-> e["low"], findings |-> e["findings"],
         severity |-> e["severity"], categories |-> e["categories"], type |-> e["type"],
         profile |-> e["profile"], inline |-> e["inline"],
         without |-> (IF e["suggestions"] THEN {} ELSE {"SUGGESTION"})
                       \cup (IF e["questions"] THEN {} ELSE {"QUESTION"})
                       \cup (IF e["positives"] THEN {} ELSE {"POSITIVE"})]

Administration ==
    /\ \/ /\ Input("forms")
          /\ \E s \in OneOf({t \in Sessions : session[t] = None}), kind \in Pages \cup Commands :
                kind \in case.kinds /\ PolicyStart(s, kind)
       \/ Input("commands") /\ CatalogCommand /\ UNCHANGED <<settings, session, overtaken>>
       \/ Input("commands") /\ Reconcile
       \/ CatalogResult /\ UNCHANGED <<settings, session, overtaken, case>>
       \/ PolicySteps /\ UNCHANGED case
    /\ UNCHANGED <<webhooks, findings>>

Sending ==
    /\ \/ \E h \in OneOf({k \in Handlers : handler[k] = None}) :
             \/ /\ Input("deliveries")
                /\ \E d \in OneOf({k \in Deliveries : deliveries[k] = None}), event \in Events, at \in Heads :
                      event \in case.events /\ Receive(h, d, event, at)
             \/ Input("redeliveries") /\ \E d \in Deliveries : Redeliver(h, d)
       \/ Input("faults") /\ \E h \in Handlers : GitHubFails(h)
       \/ Input("crashes") /\ \E h \in Handlers : HandlerEnds(h)
       \/ Input("pushes") /\ Push
    /\ UNCHANGED findings

Handling ==
    /\ \E h \in Handlers : HandlerStep(h) \/ IgnoreSender(h)
    /\ UNCHANGED <<findings, case>>

\* A job starts, and its review is followed from the checkout if the case has it.
Starting(j) ==
    /\ Start(j)
    /\ IF jobs'[j].status = "REVIEWING" /\ case.left["reviews"] > 0
       THEN Input("reviews") /\ Fetch(ReviewPolicyOf(global, repository), Ignored)
       ELSE UNCHANGED <<findings, case>>

\* A review may fail at any point; it succeeds when it is published.
Ending(j) ==
    /\ \/ review.phase \in {"none", "published"} /\ EndReview(j, "SUCCEEDED")
       \/ review.phase # "published" /\ EndReview(j, "FAILED")
    /\ UNCHANGED <<findings, case>>

Working(j) ==
    \/ Starting(j) \/ Ending(j)
    \/ (Claim(j) \/ Tell(j)) /\ UNCHANGED <<findings, case>>

Reviewing ==
    /\ \E j \in DOMAIN jobs : jobs[j].status = "REVIEWING"
    /\ FindingsSteps
    /\ UNCHANGED <<policyVars, webhooks, case>>

Watching ==
    /\ case.watched
    /\ \/ \E d \in Deliveries : Recover(d)
       \/ \E j \in DOMAIN jobs : StalePending(j)
    /\ UNCHANGED <<findings, case>>

Next ==
    \/ Administration \/ Sending \/ Handling \/ Reviewing \/ Watching
    \/ \E j \in DOMAIN jobs : Working(j)

\* The web process and the worker go on with something of what they have begun, and
\* the timer of the watchdog fires again and again.
Fairness ==
    /\ WF_vars((\E h \in Handlers : HandlerStep(h)) /\ UNCHANGED <<findings, case>>)
    /\ WF_vars(\E j \in DOMAIN jobs : Working(j))
    /\ WF_vars(Watching)

Spec == Init /\ [][Next]_vars /\ Fairness

\* The rows hold what their columns allow, and the findings that a review keeps are
\* findings of the model.
TypeOK == PolicyTypeOK /\ DeliveriesTypeOK /\ FindingsTypeOK /\ case.left \in [Inputs -> Nat]
=============================================================================
