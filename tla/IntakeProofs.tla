----------------------------- MODULE IntakeProofs -----------------------------
(***************************************************************************)
(* Theorems about Intake, in layers: the catalog, which only the commands  *)
(* of the operators change; the rows and requests of the deliveries; and   *)
(* the jobs that stand behind them.                                        *)
(***************************************************************************)
EXTENDS Intake, TLAPS

-----------------------------------------------------------------------------
(* Layer 1: the catalog.                                                   *)

\* No form, delivery, job or review touches the catalog.
LEMMA CatalogFrame == [Next]_vars => CatalogNext \/ UNCHANGED models
<1>. SUFFICES ASSUME [Next]_vars PROVE CatalogNext \/ UNCHANGED models
  OBVIOUS
<1>. USE DEF policyVars
<1>1. CASE Administration
  BY <1>1 DEF Administration, CatalogNext, PolicyStart, Open, Command, PolicySteps, ReadRow, ReadCatalog, Commit, Reconcile
<1>2. CASE Sending
  BY <1>2 DEF Sending, Receive, Redeliver, GitHubFails, HandlerEnds, Push
<1>3. CASE Handling
  BY <1>3 DEF Handling, HandlerStep, IgnoreSender, Reserve, ReadPolicy, PullRequest, Checks, Notice, Post, Enqueue,
              Suspend, List, Restore, Finished
<1>4. CASE Reviewing
  BY <1>4 DEF Reviewing
<1>5. CASE Watching
  BY <1>5 DEF Watching, Recover, StalePending
<1>6. CASE \E j \in DOMAIN jobs : Working(j)
  BY <1>6 DEF Working, Starting, Ending, Start, EndReview, Claim, Tell
<1>7. CASE UNCHANGED vars
  BY <1>7 DEF vars
<1>. QED
  BY <1>1, <1>2, <1>3, <1>4, <1>5, <1>6, <1>7 DEF Next

\* A verification is of an entry.
CatalogInv ==
    /\ CatalogTypeOK
    /\ \A m \in Models, e \in Efforts : verification[<<m, e>>] # None => catalog[m] # None
    /\ EffortsAreVerified

\* The seeded catalog: what it offers counts as verified.
LEMMA CatalogInvInit == CatalogInit => CatalogInv
<1>. SUFFICES ASSUME CatalogInit PROVE CatalogInv
  OBVIOUS
<1>. USE CatalogAssumption
<1>1. CatalogTypeOK
  BY DEF CatalogInit, CatalogTypeOK, Entry, Terminal, Verified
<1>2. \A m \in Models, e \in Efforts : verification[<<m, e>>] # None => catalog[m] # None
  <2>. SUFFICES ASSUME NEW m \in Models, NEW e \in Efforts, verification[<<m, e>>] # None PROVE catalog[m] # None
    OBVIOUS
  <2>1. <<m, e>> \in Models \X Efforts /\ e \in Seeded[m]
    BY DEF CatalogInit
  <2>2. catalog[m] = Verified(Seeded[m])
    BY <2>1 DEF CatalogInit
  <2>3. Verified(Seeded[m]) \in Entry
    BY DEF Verified, Entry
  <2>. QED
    BY <2>2, <2>3
<1>3. EffortsAreVerified
  BY DEF CatalogInit, EffortsAreVerified, Verified
<1>. QED
  BY <1>1, <1>2, <1>3 DEF CatalogInv

\* What the end of a verification makes of an entry.
LEMMA ConcludedEntry ==
    ASSUME NEW entry \in Entry, NEW e \in Efforts, NEW result \in Terminal
    PROVE  /\ Concluded(entry, e, result) \in Entry
           /\ Concluded(entry, e, result).enabled => Concluded(entry, e, result).efforts # {}
           /\ \A f \in Concluded(entry, e, result).efforts :
                 f \in entry.efforts \/ (f = e /\ result = "SUCCEEDED")
BY DEF Concluded, Verified, Entry, Terminal

\* A command or a result sets one entry and the verification of one of its pairs: the
\* effects that keep the invariant.
LEMMA CatalogWrite ==
    ASSUME CatalogInv, NEW m \in Models, NEW e \in Efforts, NEW entry \in Entry,
           NEW state \in Terminal \cup {"RUNNING", None},
           catalog' = [catalog EXCEPT ![m] = entry],
           verification' = [verification EXCEPT ![<<m, e>>] = state],
           \A f \in entry.efforts :
              \/ f = e /\ state = "SUCCEEDED"
              \/ f # e /\ catalog[m] # None /\ f \in catalog[m].efforts,
           entry.enabled => entry.efforts # {}
    PROVE  CatalogInv'
<1>. USE CatalogAssumption DEF CatalogInv
<1>0. <<m, e>> \in Models \X Efforts /\ entry # None
  OBVIOUS
<1>1. CatalogTypeOK'
  BY DEF CatalogTypeOK
<1>2. \A n \in Models : catalog'[n] = IF n = m THEN entry ELSE catalog[n]
  BY DEF CatalogTypeOK
<1>3. \A n \in Models, f \in Efforts :
          verification'[<<n, f>>] = IF n = m /\ f = e THEN state ELSE verification[<<n, f>>]
  BY DEF CatalogTypeOK
<1>4. \A n \in Models, f \in Efforts : verification'[<<n, f>>] # None => catalog'[n] # None
  BY <1>0, <1>2, <1>3
<1>5. EffortsAreVerified'
  <2>. SUFFICES ASSUME NEW n \in Models, catalog'[n] # None
                PROVE  /\ \A f \in catalog'[n].efforts : verification'[<<n, f>>] = "SUCCEEDED"
                       /\ catalog'[n].enabled => catalog'[n].efforts # {}
    BY DEF EffortsAreVerified
  <2>1. CASE n = m
    <3>1. entry.efforts \subseteq Efforts
      BY DEF Entry
    <3>. QED
      BY <2>1, <3>1, <1>2, <1>3 DEF EffortsAreVerified
  <2>2. CASE n # m
    <3>1. catalog[n] \in Entry /\ catalog'[n] = catalog[n]
      BY <2>2, <1>2 DEF CatalogTypeOK
    <3>2. catalog[n].efforts \subseteq Efforts
      BY <3>1 DEF Entry
    <3>. QED
      BY <2>2, <3>1, <3>2, <1>3 DEF EffortsAreVerified
  <2>. QED
    BY <2>1, <2>2
<1>. QED
  BY <1>1, <1>4, <1>5

\* Each command and each recorded result keeps the catalog in step with its
\* verifications.
LEMMA CatalogInvStep == CatalogInv /\ CatalogNext => CatalogInv'
<1>. SUFFICES ASSUME CatalogInv, CatalogNext PROVE CatalogInv'
  OBVIOUS
<1>. USE CatalogAssumption
<1>1. ASSUME NEW m \in Models, AddCandidate(m) PROVE CatalogInv'
  <2>1. CatalogTypeOK'
    BY <1>1 DEF AddCandidate, Candidate, CatalogInv, CatalogTypeOK, Entry
  <2>2. EffortsAreVerified'
    BY <1>1 DEF AddCandidate, Candidate, CatalogInv, CatalogTypeOK, EffortsAreVerified
  <2>3. Candidate # None
    <3>1. Candidate \in Entry
      BY DEF Candidate, Entry
    <3>. QED
      BY <3>1
  <2>4. \A n \in Models, e \in Efforts : verification'[<<n, e>>] # None => catalog'[n] # None
    BY <1>1, <2>3 DEF AddCandidate, CatalogInv, CatalogTypeOK
  <2>. QED
    BY <2>1, <2>2, <2>4 DEF CatalogInv
<1>2. ASSUME NEW m \in Models, NEW e \in Efforts, StartVerification(m, e) PROVE CatalogInv'
  <2>. DEFINE entry == [catalog[m] EXCEPT !.status = "VERIFYING"]
  <2>1. catalog[m] \in Entry /\ catalog[m] # None
    BY <1>2 DEF StartVerification, CatalogInv, CatalogTypeOK
  <2>2. entry \in Entry /\ entry.efforts = catalog[m].efforts /\ entry.enabled = catalog[m].enabled
    BY <2>1 DEF Entry
  <2>3. e \notin catalog[m].efforts
    BY <1>2, <2>1 DEF StartVerification, CatalogInv, EffortsAreVerified, Terminal
  <2>4. catalog[m].enabled => catalog[m].efforts # {}
    BY <2>1 DEF CatalogInv, EffortsAreVerified
  <2>5. /\ catalog' = [catalog EXCEPT ![m] = entry]
        /\ verification' = [verification EXCEPT ![<<m, e>>] = "RUNNING"]
    BY <1>2 DEF StartVerification
  <2>. HIDE DEF entry
  <2>0. PICK running \in Terminal \cup {"RUNNING", None} : running = "RUNNING"
    OBVIOUS
  <2>6. \A f \in entry.efforts :
           \/ f = e /\ running = "SUCCEEDED"
           \/ f # e /\ catalog[m] # None /\ f \in catalog[m].efforts
    BY <2>1, <2>2, <2>3
  <2>7. verification' = [verification EXCEPT ![<<m, e>>] = running]
    BY <2>0, <2>5
  <2>8. entry \in Entry /\ (entry.enabled => entry.efforts # {})
    BY <2>2, <2>4
  <2>9. catalog' = [catalog EXCEPT ![m] = entry]
    BY <2>5
  <2>. QED
    BY <2>6, <2>7, <2>8, <2>9, CatalogWrite, Zenon
<1>3. ASSUME NEW m \in Models, NEW e \in Efforts, NEW result \in Terminal, FinishVerification(m, e, result)
      PROVE CatalogInv'
  <2>1. CASE verification[<<m, e>>] \in Terminal
    BY <1>3, <2>1 DEF FinishVerification, models, CatalogInv, CatalogTypeOK, EffortsAreVerified
  <2>2. CASE verification[<<m, e>>] \notin Terminal
    <3>. DEFINE entry == Concluded(catalog[m], e, result)
    <3>1. catalog[m] \in Entry /\ catalog[m] # None
      BY <1>3 DEF FinishVerification, CatalogInv, CatalogTypeOK
    <3>2. e \notin catalog[m].efforts
      BY <2>2, <3>1 DEF CatalogInv, EffortsAreVerified, Terminal
    <3>3. /\ entry \in Entry
          /\ entry.enabled => entry.efforts # {}
          /\ \A f \in entry.efforts : f \in catalog[m].efforts \/ (f = e /\ result = "SUCCEEDED")
      BY <3>1, ConcludedEntry
    <3>4. /\ catalog' = [catalog EXCEPT ![m] = entry]
          /\ verification' = [verification EXCEPT ![<<m, e>>] = result]
      BY <1>3, <2>2 DEF FinishVerification
    <3>. HIDE DEF entry
    <3>5. \A f \in entry.efforts :
             \/ f = e /\ result = "SUCCEEDED"
             \/ f # e /\ catalog[m] # None /\ f \in catalog[m].efforts
      BY <3>1, <3>2, <3>3
    <3>. QED
      BY <3>3, <3>4, <3>5, CatalogWrite, Zenon
  <2>. QED
    BY <2>1, <2>2
<1>4. ASSUME NEW m \in Models, NEW status \in {"DISABLED", "RETIRED"}, Disable(m, status) PROVE CatalogInv'
  <2>1. catalog[m] \in Entry /\ catalog[m] # None
    BY <1>4 DEF Disable, CatalogInv, CatalogTypeOK
  <2>2. CatalogTypeOK'
    BY <1>4, <2>1 DEF Disable, CatalogInv, CatalogTypeOK, Entry
  <2>3. catalog'[m] \in Entry /\ catalog'[m].efforts = catalog[m].efforts /\ ~catalog'[m].enabled
    BY <1>4, <2>1 DEF Disable, CatalogInv, CatalogTypeOK, Entry
  <2>4. \A n \in Models : n # m => catalog'[n] = catalog[n]
    BY <1>4 DEF Disable, CatalogInv, CatalogTypeOK
  <2>5. EffortsAreVerified'
    BY <1>4, <2>1, <2>3, <2>4, ZenonT(30) DEF Disable, CatalogInv, EffortsAreVerified
  <2>6. \A n \in Models, e \in Efforts : verification'[<<n, e>>] # None => catalog'[n] # None
    BY <1>4, <2>3, <2>4 DEF Disable, CatalogInv
  <2>. QED
    BY <2>2, <2>5, <2>6 DEF CatalogInv
<1>. QED
  BY <1>1, <1>2, <1>3, <1>4 DEF CatalogNext, CatalogCommand, CatalogResult

\* So does every step of the system.
LEMMA CatalogInvNext == CatalogInv /\ [Next]_vars => CatalogInv'
<1>1. CatalogInv /\ UNCHANGED models => CatalogInv'
  BY DEF models, CatalogInv, CatalogTypeOK, EffortsAreVerified
<1>. QED
  BY <1>1, CatalogFrame, CatalogInvStep

\* The invariant of the catalog.
LEMMA CatalogInvariant == Spec => []CatalogInv
<1>1. Init => CatalogInv
  BY CatalogInvInit DEF Init, PolicyInit
<1>. QED
  BY <1>1, CatalogInvNext, PTL DEF Spec

\* Whatever the operators do side by side, and whatever else happens: a model offers
\* the efforts it was verified with, and is in use only with one of them.
THEOREM OfferedIsVerified == Spec => []EffortsAreVerified
<1>1. CatalogInv => EffortsAreVerified
  BY DEF CatalogInv
<1>. QED
  BY <1>1, CatalogInvariant, PTL

\* What a step of the catalog may bring back into use.
Reenabled ==
    \A m \in Models :
        catalog[m] # None /\ ~catalog[m].enabled /\ catalog'[m] # None /\ catalog'[m].enabled =>
           \E e \in Efforts : verification[<<m, e>>] = "RUNNING" /\ verification'[<<m, e>>] \in Terminal

\* Only a result that is recorded for the first time enables an entry.
LEMMA ReenabledStep == CatalogInv /\ CatalogNext => Reenabled
<1>. SUFFICES ASSUME CatalogInv, CatalogNext, NEW n \in Models,
                     catalog[n] # None, ~catalog[n].enabled, catalog'[n] # None, catalog'[n].enabled
              PROVE  \E e \in Efforts : verification[<<n, e>>] = "RUNNING" /\ verification'[<<n, e>>] \in Terminal
  BY DEF Reenabled
<1>. USE CatalogAssumption DEF CatalogInv, CatalogTypeOK
<1>0. catalog[n] \in Entry
  OBVIOUS
<1>1. ASSUME NEW m \in Models, AddCandidate(m) PROVE FALSE
  BY <1>1 DEF AddCandidate
<1>2. ASSUME NEW m \in Models, NEW e \in Efforts, StartVerification(m, e) PROVE FALSE
  BY <1>0, <1>2 DEF StartVerification, Entry
<1>3. ASSUME NEW m \in Models, NEW e \in Efforts, NEW result \in Terminal, FinishVerification(m, e, result)
      PROVE verification[<<n, e>>] = "RUNNING" /\ verification'[<<n, e>>] \in Terminal
  <2>1. verification[<<m, e>>] \notin Terminal /\ m = n
    BY <1>3 DEF FinishVerification, models
  <2>2. <<m, e>> \in Models \X Efforts
    OBVIOUS
  <2>3. verification[<<m, e>>] = "RUNNING"
    BY <1>3, <2>1, <2>2 DEF FinishVerification
  <2>. QED
    BY <1>3, <2>1, <2>2, <2>3 DEF FinishVerification
<1>4. ASSUME NEW m \in Models, NEW status \in {"DISABLED", "RETIRED"}, Disable(m, status) PROVE FALSE
  BY <1>0, <1>4 DEF Disable, Entry
<1>. QED
  BY <1>1, <1>2, <1>3, <1>4 DEF CatalogNext, CatalogCommand, CatalogResult

\* A model out of use comes back by the end of a running verification of it alone.
THEOREM OnlyVerificationReenablesHolds == Spec => OnlyVerificationReenables
<1>1. CatalogInv /\ [Next]_vars => [Reenabled]_models
  BY CatalogFrame, ReenabledStep
<1>2. [Reenabled]_models <=> [\A m \in Models :
          catalog[m] # None /\ ~catalog[m].enabled /\ catalog'[m] # None /\ catalog'[m].enabled =>
             \E e \in Efforts : verification[<<m, e>>] = "RUNNING"
                                /\ verification'[<<m, e>>] \in Terminal]_models
  BY DEF Reenabled
<1>. QED
  BY <1>1, <1>2, CatalogInvariant, PTL DEF Spec, OnlyVerificationReenables

-----------------------------------------------------------------------------
(* Layer 2: the rows and the requests.                                     *)

\* The steps that concern deliveries, requests, jobs and notices.
HandlerAction(h) ==
    \/ \E d \in Deliveries, event \in Events, at \in Heads : Receive(h, d, event, at)
    \/ \E d \in Deliveries : Redeliver(h, d)
    \/ GitHubFails(h) \/ HandlerEnds(h) \/ HandlerStep(h) \/ IgnoreSender(h)
JobAction(j) ==
    \/ Claim(j) \/ Start(j) \/ Tell(j) \/ StalePending(j)
    \/ \E status \in {"SUCCEEDED", "FAILED"} : EndReview(j, status)
WebhookAction ==
    \/ \E h \in Handlers : HandlerAction(h)
    \/ \E j \in DOMAIN jobs : JobAction(j)
    \/ \E d \in Deliveries : Recover(d)
    \/ Push

\* No form and no step of a review is among them.
LEMMA WebhookFrame == [Next]_vars => WebhookAction \/ UNCHANGED webhooks
<1>. SUFFICES ASSUME [Next]_vars PROVE WebhookAction \/ UNCHANGED webhooks
  OBVIOUS
<1>. USE DEF WebhookAction
<1>1. CASE Administration
  BY <1>1 DEF Administration
<1>2. CASE Sending
  <2>1. ASSUME NEW h \in Handlers, NEW d \in Deliveries, NEW event \in Events, NEW at \in Heads,
               Receive(h, d, event, at)
        PROVE  WebhookAction
    BY <2>1 DEF HandlerAction
  <2>2. ASSUME NEW h \in Handlers,
               \/ \E d \in Deliveries : Redeliver(h, d)
               \/ GitHubFails(h) \/ HandlerEnds(h)
        PROVE  WebhookAction
    BY <2>2 DEF HandlerAction
  <2>3. \A h : h \in OneOf({k \in Handlers : handler[k] = None}) => h \in Handlers
    BY DEF OneOf
  <2>4. \A d : d \in OneOf({k \in Deliveries : deliveries[k] = None}) => d \in Deliveries
    BY DEF OneOf
  <2>. QED
    BY <1>2, <2>1, <2>2, <2>3, <2>4 DEF Sending
<1>3. CASE Handling
  BY <1>3 DEF Handling, HandlerAction
<1>4. CASE Reviewing
  BY <1>4 DEF Reviewing
<1>5. CASE Watching
  BY <1>5 DEF Watching, JobAction
<1>6. CASE \E j \in DOMAIN jobs : Working(j)
  BY <1>6 DEF Working, Starting, Ending, JobAction
<1>7. CASE UNCHANGED vars
  BY <1>7 DEF vars
<1>. QED
  BY <1>1, <1>2, <1>3, <1>4, <1>5, <1>6, <1>7 DEF Next

\* Types, with V for the models and efforts that the settings have named so far.
RequestOf(V) ==
    [delivery : Deliveries, step : Steps, head : Heads, attempts : Nat, model : V, effort : V,
     code : Codes \cup {None}, result : DeliveryStates \cup {None}]
JobOf(V) ==
    [delivery : Deliveries, trigger : {"AUTO", "COMMAND"}, head : Heads,
     status : Active \cup {"SUCCEEDED", "FAILED", "SKIPPED"}, model : V, effort : V, untold : BOOLEAN]
NoticeRow == [row : BOOLEAN, posted : Nat, known : BOOLEAN, lost : Nat]
Rows == [Deliveries -> {None} \cup DeliveryRow]
Requests(V) == [Handlers -> {None} \cup RequestOf(V)]
Notices == [Codes \X Heads -> NoticeRow]

Typed(V) ==
    /\ None \in V
    /\ deliveries \in Rows
    /\ handler \in Requests(V)
    /\ jobs \in Seq(JobOf(V))
    /\ notices \in Notices
    /\ head \in Heads

\* Another set of names that has the same ones and more will do.
LEMMA TypedWider == ASSUME NEW V, NEW W, V \subseteq W, Typed(V) PROVE Typed(W)
<1>1. RequestOf(V) \subseteq RequestOf(W) /\ JobOf(V) \subseteq JobOf(W)
  BY DEF RequestOf, JobOf
<1>2. Requests(V) \subseteq Requests(W)
  BY <1>1 DEF Requests
<1>3. jobs \in Seq(JobOf(W))
  <2>. HIDE DEF JobOf
  <2>. QED
    BY <1>1 DEF Typed
<1>. QED
  BY <1>2, <1>3 DEF Typed

\* A request that ends leaves rows and requests well formed.
LEMMA FinishTypes ==
    ASSUME NEW V, Typed(V), NEW h \in Handlers, handler[h] # None, NEW status \in DeliveryStates,
           deliveries[handler[h].delivery] # None, Finish(h, status)
    PROVE  deliveries' \in Rows /\ handler' \in Requests(V)
<1>1. handler[h] \in RequestOf(V)
  BY DEF Typed, Requests
<1>2. PICK d \in Deliveries : d = handler[h].delivery
  BY <1>1 DEF RequestOf
<1>3. deliveries[d] \in DeliveryRow
  BY <1>2 DEF Typed, Rows
<1>4. [deliveries[d] EXCEPT !.status = status] \in DeliveryRow
  BY <1>3 DEF DeliveryRow
<1>5. deliveries' = [deliveries EXCEPT ![d] = [deliveries[d] EXCEPT !.status = status]]
  BY <1>2 DEF Finish
<1>6. deliveries' \in Rows
  BY <1>4, <1>5 DEF Typed, Rows
<1>7. handler' \in Requests(V)
  BY DEF Finish, Typed, Requests
<1>. QED
  BY <1>6, <1>7

\* A request moves to a step and keeps the rest, or gets a model, a head or a code.
LEMMA RequestTypes ==
    ASSUME NEW V, Typed(V), NEW h \in Handlers, NEW request \in RequestOf(V) \cup {None},
           handler' = [handler EXCEPT ![h] = request]
    PROVE  handler' \in Requests(V)
BY DEF Typed, Requests

\* So does one that goes on.
LEMMA ContinueTypes ==
    ASSUME NEW V, Typed(V), NEW h \in Handlers, handler[h] # None, NEW step \in Steps, Continue(h, step)
    PROVE  handler' \in Requests(V)
<1>1. handler[h] \in RequestOf(V)
  BY DEF Typed, Requests
<1>2. [handler[h] EXCEPT !.step = step] \in RequestOf(V)
  BY <1>1 DEF RequestOf
<1>3. handler' = [handler EXCEPT ![h] = [handler[h] EXCEPT !.step = step]]
  BY DEF Continue
<1>. QED
  BY <1>2, <1>3, RequestTypes

\* Columns of one job are written, never which delivery and which head it is for.
JobsKept ==
    /\ DOMAIN jobs \subseteq DOMAIN jobs'
    /\ \A j \in DOMAIN jobs : jobs'[j].delivery = jobs[j].delivery /\ jobs'[j].head = jobs[j].head

\* A job is replaced by one of the same delivery and head.
LEMMA JobTypes ==
    ASSUME NEW V, Typed(V), NEW j \in DOMAIN jobs, NEW job \in JobOf(V),
           job.delivery = jobs[j].delivery, job.head = jobs[j].head,
           jobs' = [jobs EXCEPT ![j] = job]
    PROVE  jobs' \in Seq(JobOf(V)) /\ DOMAIN jobs' = DOMAIN jobs /\ JobsKept
<1>1. jobs \in Seq(JobOf(V))
  BY DEF Typed
<1>. HIDE DEF JobOf
<1>2. jobs' \in Seq(JobOf(V)) /\ DOMAIN jobs' = DOMAIN jobs
  BY <1>1
<1>3. \A i \in DOMAIN jobs : jobs'[i] = IF i = j THEN job ELSE jobs[i]
  BY <1>1
<1>. QED
  BY <1>2, <1>3 DEF JobsKept

\* A request is for a delivery that is recorded, only a restored installation is
\* restored, and a request that finishes has a result.
IsRecorded(request) ==
    /\ deliveries[request.delivery] # None
    /\ request.step = "finish" => request.result \in DeliveryStates
    /\ request.step = "restore" => deliveries[request.delivery].event = "restored"
RequestsRecorded == \A h \in Handlers : handler[h] # None => IsRecorded(handler[h])

\* A recorded delivery stays, with its event.
RowsKept ==
    \A d \in Deliveries : deliveries[d] # None =>
        deliveries'[d] # None /\ deliveries'[d].event = deliveries[d].event

\* What a request does: to the types, the rows, the jobs and itself.
RequestDoes(V, h) ==
    /\ Typed(V)'
    /\ RowsKept
    /\ JobsKept
    /\ \A k \in Handlers \ {h} : handler'[k] = handler[k]
    /\ (handler[h] # None => IsRecorded(handler[h]))'

\* A request that goes on with the rows as they are.
LEMMA GoesOn ==
    ASSUME NEW V, Typed(V), RequestsRecorded, NEW h \in Handlers, handler[h] # None,
           NEW request \in RequestOf(V), request.delivery = handler[h].delivery,
           request.step = "restore" => deliveries[request.delivery].event = "restored",
           request.step = "finish" => request.result \in DeliveryStates,
           handler' = [handler EXCEPT ![h] = request], UNCHANGED <<deliveries, head>>,
           notices' \in Notices, jobs' \in Seq(JobOf(V)), JobsKept
    PROVE  RequestDoes(V, h)
<1>1. handler' \in Requests(V)
  BY RequestTypes
<1>2. Typed(V)'
  BY <1>1 DEF Typed
<1>3. RowsKept
  BY DEF RowsKept
<1>4. handler'[h] = request /\ \A k \in Handlers \ {h} : handler'[k] = handler[k]
  BY DEF Typed, Requests
<1>5. IsRecorded(request)'
  BY DEF IsRecorded, RequestsRecorded
<1>. QED
  BY <1>2, <1>3, <1>4, <1>5 DEF RequestDoes

\* A request that ends.
LEMMA GoesOff ==
    ASSUME NEW V, Typed(V), RequestsRecorded, NEW h \in Handlers, handler[h] # None,
           NEW status \in DeliveryStates, Finish(h, status), UNCHANGED <<jobs, notices, head>>
    PROVE  RequestDoes(V, h)
<1>1. deliveries[handler[h].delivery] # None
  BY DEF RequestsRecorded, IsRecorded
<1>2. Typed(V)'
  BY <1>1, FinishTypes DEF Typed
<1>3. RowsKept
  <2>1. handler[h] \in RequestOf(V)
    BY DEF Typed, Requests
  <2>2. PICK d \in Deliveries : d = handler[h].delivery
    BY <2>1 DEF RequestOf
  <2>3. deliveries[d] \in DeliveryRow
    BY <1>1, <2>2 DEF Typed, Rows
  <2>4. \A c \in Deliveries : deliveries'[c] = IF c = d THEN [deliveries[d] EXCEPT !.status = status] ELSE deliveries[c]
    BY <2>2 DEF Finish, Typed, Rows
  <2>5. [deliveries[d] EXCEPT !.status = status] \in DeliveryRow
        /\ [deliveries[d] EXCEPT !.status = status].event = deliveries[d].event
    BY <2>3 DEF DeliveryRow
  <2>. QED
    BY <2>4, <2>5, RowAssumption DEF RowsKept
<1>4. handler'[h] = None /\ \A k \in Handlers \ {h} : handler'[k] = handler[k]
  BY DEF Typed, Requests, Finish
<1>5. JobsKept
  BY DEF JobsKept
<1>. QED
  BY <1>2, <1>3, <1>4, <1>5 DEF RequestDoes

\* The arrival of a delivery.
LEMMA ReceiveDoes ==
    ASSUME NEW V, Typed(V), NEW h \in Handlers, NEW d \in Deliveries, NEW event \in Events, NEW at \in Heads,
           Receive(h, d, event, at)
    PROVE  RequestDoes(V, h)
<1>. DEFINE row == [event |-> event, head |-> at, status |-> "PROCESSING", attempts |-> 1]
            request == [Request(d, "policy") EXCEPT !.head = at]
<1>1. row \in DeliveryRow /\ row # None
  BY RowAssumption DEF DeliveryRow, DeliveryStates
<1>2. request \in RequestOf(V) /\ request.delivery = d /\ request.step = "policy"
  BY DEF Request, RequestOf, Typed, Steps
<1>3. /\ deliveries' = [deliveries EXCEPT ![d] = row]
      /\ handler' = [handler EXCEPT ![h] = request]
      /\ deliveries[d] = None
      /\ UNCHANGED <<jobs, notices, head>>
  BY DEF Receive
<1>. HIDE DEF row, request
<1>4. deliveries' \in Rows /\ \A c \in Deliveries : deliveries'[c] = IF c = d THEN row ELSE deliveries[c]
  BY <1>1, <1>3 DEF Typed, Rows
<1>5. handler' \in Requests(V) /\ \A k \in Handlers : handler'[k] = IF k = h THEN request ELSE handler[k]
  BY <1>2, <1>3 DEF Typed, Requests
<1>6. Typed(V)'
  BY <1>3, <1>4, <1>5 DEF Typed
<1>7. RowsKept /\ JobsKept
  BY <1>3, <1>4 DEF RowsKept, JobsKept
<1>8. IsRecorded(request)'
  BY <1>1, <1>2, <1>4 DEF IsRecorded
<1>. QED
  BY <1>5, <1>6, <1>7, <1>8 DEF RequestDoes

\* A second request for it.
LEMMA RedeliverDoes ==
    ASSUME NEW V, Typed(V), NEW h \in Handlers, NEW d \in Deliveries, Redeliver(h, d)
    PROVE  RequestDoes(V, h)
<1>1. deliveries[d] \in DeliveryRow
  BY DEF Redeliver, Typed, Rows
<1>2. PICK request \in RequestOf(V) :
         request = [Request(d, "reserve") EXCEPT !.head = deliveries[d].head, !.attempts = deliveries[d].attempts]
  BY <1>1 DEF Request, RequestOf, Typed, Steps, DeliveryRow
<1>3. request.delivery = d /\ request.step = "reserve"
  BY <1>1, <1>2 DEF Request, DeliveryRow
<1>4. handler' = [handler EXCEPT ![h] = request] /\ deliveries[d] # None /\ UNCHANGED <<deliveries, jobs, notices, head>>
  BY <1>2 DEF Redeliver
<1>5. handler' \in Requests(V) /\ \A k \in Handlers : handler'[k] = IF k = h THEN request ELSE handler[k]
  BY <1>2, <1>4 DEF Typed, Requests
<1>6. Typed(V)'
  BY <1>4, <1>5 DEF Typed
<1>7. RowsKept /\ JobsKept
  BY <1>4 DEF RowsKept, JobsKept
<1>8. IsRecorded(request)'
  BY <1>3, <1>4 DEF IsRecorded
<1>. QED
  BY <1>5, <1>6, <1>7, <1>8 DEF RequestDoes

\* The second half of a redelivery.
LEMMA ReserveDoes ==
    ASSUME NEW V, Typed(V), RequestsRecorded, NEW h \in Handlers, Reserve(h)
    PROVE  RequestDoes(V, h)
<1>1. handler[h] \in RequestOf(V) /\ handler[h] # None
  BY DEF Reserve, At, Typed, Requests
<1>2. PICK d \in Deliveries : d = handler[h].delivery
  BY <1>1 DEF RequestOf
<1>3. deliveries[d] \in DeliveryRow
  BY <1>1, <1>2 DEF RequestsRecorded, IsRecorded, Typed, Rows
<1>4. PICK row \in DeliveryRow :
         row = [deliveries[d] EXCEPT !.status = "PROCESSING", !.attempts = handler[h].attempts + 1]
  <2>1. PICK n \in Nat \ {0} : n = handler[h].attempts + 1
    BY <1>1 DEF RequestOf
  <2>. QED
    BY <1>3, <2>1 DEF DeliveryRow, DeliveryStates
<1>5. row.event = deliveries[d].event /\ row # None
  BY <1>3, <1>4, RowAssumption DEF DeliveryRow
<1>6. deliveries' = [deliveries EXCEPT ![d] = row]
  BY <1>2, <1>3, <1>4 DEF Reserve, Typed, Rows, DeliveryRow
<1>7. deliveries' \in Rows /\ \A c \in Deliveries : deliveries'[c] = IF c = d THEN row ELSE deliveries[c]
  BY <1>6 DEF Typed, Rows
<1>8. PICK request \in RequestOf(V) : request = [handler[h] EXCEPT !.step = "policy"]
  BY <1>1 DEF RequestOf, Steps
<1>9. request.delivery = d /\ request.step = "policy"
  BY <1>1, <1>2, <1>8 DEF RequestOf
<1>10. handler' = [handler EXCEPT ![h] = request]
  BY <1>8 DEF Reserve, Continue
<1>11. handler' \in Requests(V) /\ \A k \in Handlers : handler'[k] = IF k = h THEN request ELSE handler[k]
  BY <1>10 DEF Typed, Requests
<1>12. Typed(V)'
  BY <1>7, <1>11 DEF Typed, Reserve
<1>13. RowsKept /\ JobsKept
  BY <1>5, <1>7 DEF RowsKept, JobsKept, Reserve
<1>14. IsRecorded(request)'
  BY <1>5, <1>7, <1>9 DEF IsRecorded
<1>. QED
  BY <1>11, <1>12, <1>13, <1>14 DEF RequestDoes

\* One more job, after the others, some of which it replaces.
LEMMA WithJobTypes ==
    ASSUME NEW V, Typed(V), NEW h \in Handlers, handler[h] \in RequestOf(V), jobs' = WithJob(h)
    PROVE  /\ jobs' \in Seq(JobOf(V))
           /\ JobsKept
           /\ DOMAIN jobs' = DOMAIN jobs \cup {Len(jobs) + 1}
           /\ jobs'[Len(jobs) + 1] = NewJob(h)
<1>. DEFINE others == [j \in DOMAIN jobs |->
              IF Superseded(h, jobs[j]) THEN [jobs[j] EXCEPT !.status = "SKIPPED"] ELSE jobs[j]]
<1>1. NewJob(h) \in JobOf(V)
  BY DEF NewJob, JobOf, RequestOf, Active, Trigger
<1>2. \A j \in DOMAIN jobs : /\ others[j] \in JobOf(V)
                             /\ others[j].delivery = jobs[j].delivery /\ others[j].head = jobs[j].head
  <2>. SUFFICES ASSUME NEW j \in DOMAIN jobs
                PROVE  /\ others[j] \in JobOf(V)
                       /\ others[j].delivery = jobs[j].delivery /\ others[j].head = jobs[j].head
    OBVIOUS
  <2>1. jobs[j] \in JobOf(V)
    <3>. HIDE DEF JobOf
    <3>. QED
      BY DEF Typed
  <2>. QED
    BY <2>1 DEF JobOf
<1>3. jobs \in Seq(JobOf(V)) /\ jobs' = Append(others, NewJob(h))
  BY DEF Typed, WithJob
<1>. HIDE DEF JobOf
<1>4. others \in Seq(JobOf(V)) /\ Len(others) = Len(jobs) /\ DOMAIN others = DOMAIN jobs
  <2>1. DOMAIN jobs = 1..Len(jobs) /\ Len(jobs) \in Nat
    BY <1>3
  <2>2. others \in [1..Len(jobs) -> JobOf(V)]
    BY <1>2, <2>1
  <2>. HIDE DEF others
  <2>. QED
    BY <2>1, <2>2
<1>. HIDE DEF others
<1>5. jobs' \in Seq(JobOf(V)) /\ DOMAIN jobs' = 1..Len(jobs) + 1
  BY <1>1, <1>3, <1>4
<1>6. \A j \in DOMAIN jobs : jobs'[j] = others[j]
  BY <1>1, <1>3, <1>4
<1>7. jobs'[Len(jobs) + 1] = NewJob(h)
  BY <1>1, <1>3, <1>4
<1>8. DOMAIN jobs' = DOMAIN jobs \cup {Len(jobs) + 1}
  BY <1>3, <1>5
<1>. QED
  BY <1>2, <1>5, <1>6, <1>7, <1>8 DEF JobsKept

\* Jobs that stay are kept.
LEMMA JobsUnchanged == UNCHANGED jobs => JobsKept
BY DEF JobsKept

\* A step that only moves the request on, perhaps with a result.
LEMMA StepDoes ==
    ASSUME NEW V, Typed(V), RequestsRecorded, NEW h \in Handlers, handler[h] # None,
           NEW request \in RequestOf(V), request.delivery = handler[h].delivery, request.step # "restore",
           request.step = "finish" => request.result \in DeliveryStates,
           handler' = [handler EXCEPT ![h] = request], UNCHANGED <<deliveries, jobs, head>>, notices' \in Notices
    PROVE  RequestDoes(V, h)
<1>1. jobs' \in Seq(JobOf(V)) /\ JobsKept
  BY JobsUnchanged DEF Typed
<1>. QED
  BY <1>1, GoesOn

\* What a busy handler holds is a request.
LEMMA RequestAt ==
    ASSUME NEW V, Typed(V), NEW h \in Handlers, handler[h] # None
    PROVE  handler[h] \in RequestOf(V)
BY DEF Typed, Requests

\* One notice is written.
LEMMA NoticeTypes ==
    ASSUME NEW V, Typed(V), NEW key, NEW row,
           key \in Codes \X Heads => row \in NoticeRow,
           notices' = [notices EXCEPT ![key] = row]
    PROVE  notices' \in Notices
BY DEF Typed, Notices

\* A notice is committed, or its comment posted.
LEMMA NoticeDoes ==
    ASSUME NEW V, Typed(V), RequestsRecorded, NEW h \in Handlers, Notice(h)
    PROVE  RequestDoes(V, h)
<1>1. handler[h] # None
  BY DEF Notice, At
<1>2. CASE notices[Key(h)].row
  BY <1>1, <1>2, GoesOff DEF Notice, DeliveryStates
<1>3. CASE ~notices[Key(h)].row
  <2>1. PICK request \in RequestOf(V) : request = [handler[h] EXCEPT !.step = "post"]
    BY <1>1, RequestAt DEF RequestOf, Steps
  <2>2. request.delivery = handler[h].delivery /\ request.step \notin {"restore", "finish"}
    BY <1>1, <2>1, RequestAt DEF RequestOf
  <2>3. handler' = [handler EXCEPT ![h] = request]
    BY <1>3, <2>1 DEF Notice, Continue
  <2>4. notices' \in Notices
    <3>1. PICK key : key = Key(h)
      OBVIOUS
    <3>2. PICK row : row = [notices[key] EXCEPT !.row = TRUE]
      OBVIOUS
    <3>3. key \in Codes \X Heads => row \in NoticeRow
      BY <3>2, ZenonT(30) DEF Typed, Notices, NoticeRow
    <3>4. notices' = [notices EXCEPT ![key] = row]
      BY <1>3, <3>1, <3>2 DEF Notice
    <3>. QED
      BY <3>3, <3>4, NoticeTypes
  <2>. QED
    BY <1>1, <1>3, <2>2, <2>3, <2>4, StepDoes DEF Notice
<1>. QED
  BY <1>2, <1>3

\* The comment of a status notice.
LEMMA PostDoes ==
    ASSUME NEW V, Typed(V), RequestsRecorded, NEW h \in Handlers, Post(h)
    PROVE  RequestDoes(V, h)
<1>1. handler[h] # None
  BY DEF Post, At
<1>2. PICK request \in RequestOf(V) : request = [handler[h] EXCEPT !.step = "finish", !.result = "IGNORED"]
  BY <1>1, RequestAt, ZenonT(30) DEF RequestOf, Steps, DeliveryStates
<1>3. /\ request.delivery = handler[h].delivery
      /\ request.step # "restore" /\ request.result \in DeliveryStates
  BY <1>1, <1>2, RequestAt DEF RequestOf, DeliveryStates
<1>4. handler' = [handler EXCEPT ![h] = request]
  BY <1>1, <1>2, RequestAt DEF Post, RequestOf, Typed, Requests
<1>5. notices' \in Notices
  <2>1. PICK key : key = Key(h)
    OBVIOUS
  <2>2. PICK n \in {0, 1} : notices' = [notices EXCEPT ![key].row = TRUE, ![key].posted = @ + n]
    BY <2>1 DEF Post
  <2>3. CASE key \notin Codes \X Heads
    BY <2>2, <2>3 DEF Typed, Notices
  <2>4. CASE key \in Codes \X Heads
    <3>1. notices[key] \in NoticeRow
      BY <2>4 DEF Typed, Notices
    <3>2. PICK row \in NoticeRow : row = [notices[key] EXCEPT !.row = TRUE, !.posted = @ + n]
      <4>1. PICK sum \in Nat : sum = notices[key].posted + n
        BY <3>1 DEF NoticeRow
      <4>2. [notices[key] EXCEPT !.row = TRUE, !.posted = sum] \in NoticeRow
        BY <3>1 DEF NoticeRow
      <4>. QED
        BY <4>1, <4>2
    <3>3. notices' = [notices EXCEPT ![key] = row]
      BY <2>2, <2>4, <3>1, <3>2 DEF Typed, Notices, NoticeRow
    <3>. QED
      BY <3>2, <3>3, NoticeTypes
  <2>. QED
    BY <2>3, <2>4
<1>. QED
  BY <1>1, <1>3, <1>4, <1>5, StepDoes DEF Post

\* The request takes the pair of the moment with it.
LEMMA ReadPolicyDoes ==
    ASSUME NEW V, Typed(V), RequestsRecorded, NEW h \in Handlers, ReadPolicy(h),
           {Chosen(global, repository, "model"), Chosen(global, repository, "effort")} \subseteq V
    PROVE  RequestDoes(V, h)
<1>1. handler[h] # None
  BY DEF ReadPolicy, At
<1>2. ASSUME NEW status \in DeliveryStates, Finish(h, status) PROVE RequestDoes(V, h)
  BY <1>1, <1>2, GoesOff DEF ReadPolicy
<1>3. ASSUME Resolvable(catalog, global, repository), Admitted(h) PROVE RequestDoes(V, h)
  <2>1. PICK request \in RequestOf(V) : request = [handler[h] EXCEPT
                 !.step = IF Event(h) = "command" THEN "pull" ELSE "enqueue",
                 !.model = Chosen(global, repository, "model"),
                 !.effort = Chosen(global, repository, "effort")]
    BY <1>1, RequestAt, ZenonT(30) DEF RequestOf, Steps
  <2>2. request.delivery = handler[h].delivery /\ request.step \notin {"restore", "finish"}
    BY <1>1, <2>1, RequestAt DEF RequestOf
  <2>3. handler' = [handler EXCEPT ![h] = request]
    BY <1>1, <1>3, <2>1, RequestAt DEF ReadPolicy, RequestOf, Typed, Requests
  <2>4. notices' \in Notices
    BY DEF ReadPolicy, Typed
  <2>. QED
    BY <1>1, <1>3, <2>2, <2>3, <2>4, StepDoes DEF ReadPolicy
<1>. QED
  BY <1>2, <1>3 DEF ReadPolicy, DeliveryStates

\* A command takes the head of the moment.
LEMMA PullRequestDoes ==
    ASSUME NEW V, Typed(V), RequestsRecorded, NEW h \in Handlers, PullRequest(h)
    PROVE  RequestDoes(V, h)
<1>1. handler[h] # None
  BY DEF PullRequest, At
<1>2. PICK request \in RequestOf(V) : request = [handler[h] EXCEPT !.step = "checks", !.head = head]
  BY <1>1, RequestAt, ZenonT(30) DEF RequestOf, Steps, Typed
<1>3. request.delivery = handler[h].delivery /\ request.step \notin {"restore", "finish"}
  BY <1>1, <1>2, RequestAt DEF RequestOf
<1>4. handler' = [handler EXCEPT ![h] = request]
  BY <1>1, <1>2, RequestAt DEF PullRequest, RequestOf, Typed, Requests
<1>5. notices' \in Notices
  BY DEF PullRequest, Typed
<1>. QED
  BY <1>1, <1>3, <1>4, <1>5, StepDoes DEF PullRequest

\* A command is answered or goes on.
LEMMA ChecksDoes ==
    ASSUME NEW V, Typed(V), RequestsRecorded, NEW h \in Handlers, Checks(h)
    PROVE  RequestDoes(V, h)
<1>1. handler[h] # None
  BY DEF Checks, At
<1>2. ASSUME NEW code \in Codes, handler' = [handler EXCEPT ![h].step = "notice", ![h].code = code]
      PROVE  RequestDoes(V, h)
  <2>1. PICK request \in RequestOf(V) : request = [handler[h] EXCEPT !.step = "notice", !.code = code]
    BY <1>1, RequestAt DEF RequestOf, Steps
  <2>2. request.delivery = handler[h].delivery /\ request.step \notin {"restore", "finish"}
    BY <1>1, <2>1, RequestAt DEF RequestOf
  <2>3. handler' = [handler EXCEPT ![h] = request]
    BY <1>1, <1>2, <2>1, RequestAt DEF RequestOf, Typed, Requests
  <2>4. notices' \in Notices
    BY DEF Checks, Typed
  <2>. QED
    BY <1>1, <2>2, <2>3, <2>4, StepDoes DEF Checks
<1>3. CASE handler' = [handler EXCEPT ![h].step = "enqueue"]
  <2>1. PICK request \in RequestOf(V) : request = [handler[h] EXCEPT !.step = "enqueue"]
    BY <1>1, RequestAt DEF RequestOf, Steps
  <2>2. request.delivery = handler[h].delivery /\ request.step \notin {"restore", "finish"}
    BY <1>1, <2>1, RequestAt DEF RequestOf
  <2>3. handler' = [handler EXCEPT ![h] = request]
    BY <1>3, <2>1
  <2>4. notices' \in Notices
    BY DEF Checks, Typed
  <2>. QED
    BY <1>1, <2>2, <2>3, <2>4, StepDoes DEF Checks
<1>. QED
  BY <1>2, <1>3 DEF Checks, Codes

\* The admission, with or without a new job.
LEMMA EnqueueDoes ==
    ASSUME NEW V, Typed(V), RequestsRecorded, NEW h \in Handlers, Enqueue(h)
    PROVE  RequestDoes(V, h)
<1>1. handler[h] # None
  BY DEF Enqueue, At
<1>2. CASE Finish(h, "FAILED_RETRYABLE") /\ UNCHANGED jobs
  BY <1>1, <1>2, GoesOff DEF Enqueue, DeliveryStates
<1>3. CASE /\ handler' = [handler EXCEPT ![h].step = "finish", ![h].result = "PROCESSED"]
           /\ UNCHANGED deliveries
           /\ jobs' = WithJob(h) \/ jobs' = jobs
  <2>1. PICK request \in RequestOf(V) : request = [handler[h] EXCEPT !.step = "finish", !.result = "PROCESSED"]
    BY <1>1, RequestAt, ZenonT(30) DEF RequestOf, Steps, DeliveryStates
  <2>2. /\ request.delivery = handler[h].delivery
        /\ request.step # "restore" /\ request.result \in DeliveryStates
    BY <1>1, <2>1, RequestAt DEF RequestOf, DeliveryStates
  <2>3. handler' = [handler EXCEPT ![h] = request]
    BY <1>1, <1>3, <2>1, RequestAt DEF RequestOf, Typed, Requests
  <2>4. notices' \in Notices
    BY DEF Enqueue, Typed
  <2>5. jobs' \in Seq(JobOf(V)) /\ JobsKept
    BY <1>1, <1>3, RequestAt, WithJobTypes, JobsUnchanged DEF Typed
  <2>. QED
    BY <1>1, <1>3, <2>2, <2>3, <2>4, <2>5, GoesOn DEF Enqueue
<1>. QED
  BY <1>2, <1>3 DEF Enqueue

\* The events of the installation make no job.
LEMMA InstallationDoes ==
    ASSUME NEW V, Typed(V), RequestsRecorded, NEW h \in Handlers, Suspend(h) \/ Restore(h) \/ List(h)
    PROVE  RequestDoes(V, h)
<1>1. handler[h] # None /\ UNCHANGED <<deliveries, jobs, notices, head>>
  BY DEF Suspend, Restore, List, At
<1>2. jobs' \in Seq(JobOf(V)) /\ JobsKept /\ notices' \in Notices
  BY <1>1, JobsUnchanged DEF Typed
<1>3. CASE Suspend(h) \/ Restore(h)
  <2>1. PICK request \in RequestOf(V) : request = [handler[h] EXCEPT !.step = "finish", !.result = "PROCESSED"]
    BY <1>1, RequestAt, ZenonT(30) DEF RequestOf, Steps, DeliveryStates
  <2>2. /\ request.delivery = handler[h].delivery
        /\ request.step # "restore" /\ request.result \in DeliveryStates
    BY <1>1, <2>1, RequestAt DEF RequestOf, DeliveryStates
  <2>3. handler' = [handler EXCEPT ![h] = request]
    BY <1>1, <1>3, <2>1, RequestAt DEF Suspend, Restore, RequestOf, Typed, Requests
  <2>. QED
    BY <1>1, <1>2, <2>2, <2>3, GoesOn
<1>4. CASE List(h)
  <2>1. PICK request \in RequestOf(V) : request = [handler[h] EXCEPT !.step = "restore"]
    BY <1>1, RequestAt DEF RequestOf, Steps
  <2>2. request.delivery = handler[h].delivery /\ request.step # "finish"
    BY <1>1, <2>1, RequestAt DEF RequestOf
  <2>3. handler' = [handler EXCEPT ![h] = request] /\ deliveries[handler[h].delivery].event = "restored"
    BY <1>4, <2>1 DEF List, Continue, Event
  <2>. QED
    BY <1>1, <1>2, <2>2, <2>3, GoesOn
<1>. QED
  BY <1>3, <1>4

\* Every step of a request keeps the types, the rows and the jobs.
LEMMA HandlerDoes ==
    ASSUME NEW V, Typed(V), RequestsRecorded, NEW h \in Handlers, HandlerAction(h),
           {Chosen(global, repository, "model"), Chosen(global, repository, "effort")} \subseteq V
    PROVE  RequestDoes(V, h)
<1>1. CASE \E d \in Deliveries, event \in Events, at \in Heads : Receive(h, d, event, at)
  BY <1>1, ReceiveDoes
<1>2. CASE \E d \in Deliveries : Redeliver(h, d)
  BY <1>2, RedeliverDoes
<1>3. CASE GitHubFails(h)
  BY <1>3, GoesOff DEF GitHubFails, At, DeliveryStates
<1>4. CASE HandlerEnds(h)
  <2>1. handler' \in Requests(V) /\ handler'[h] = None /\ \A k \in Handlers \ {h} : handler'[k] = handler[k]
    BY <1>4 DEF HandlerEnds, Typed, Requests
  <2>2. Typed(V)'
    BY <1>4, <2>1 DEF HandlerEnds, Typed
  <2>3. RowsKept /\ JobsKept
    BY <1>4 DEF HandlerEnds, RowsKept, JobsKept
  <2>. QED
    BY <2>1, <2>2, <2>3 DEF RequestDoes
<1>5. CASE IgnoreSender(h)
  BY <1>5, GoesOff DEF IgnoreSender, At, DeliveryStates
<1>6. CASE Finished(h)
  <2>1. handler[h].result \in DeliveryStates
    BY <1>6 DEF Finished, At, RequestsRecorded, IsRecorded
  <2>. QED
    BY <1>6, <2>1, GoesOff DEF Finished, At
<1>7. CASE HandlerStep(h) /\ ~Finished(h)
  BY <1>7, ReserveDoes, ReadPolicyDoes, PullRequestDoes, ChecksDoes, NoticeDoes, PostDoes, EnqueueDoes,
     InstallationDoes DEF HandlerStep
<1>. QED
  BY <1>1, <1>2, <1>3, <1>4, <1>5, <1>6, <1>7 DEF HandlerAction

\* What a job does, or the watchdog: nothing to the requests.
JobDoes(V) ==
    /\ Typed(V)'
    /\ RowsKept
    /\ JobsKept
    /\ UNCHANGED handler

\* A step of the worker or the watchdog changes one job.
LEMMA JobActionDoes ==
    ASSUME NEW V, Typed(V), NEW j \in DOMAIN jobs, JobAction(j)
    PROVE  JobDoes(V) /\ DOMAIN jobs' = DOMAIN jobs
<1>1. jobs[j] \in JobOf(V) /\ jobs \in Seq(JobOf(V))
  <2>. HIDE DEF JobOf
  <2>. QED
    BY DEF Typed
<1>2. UNCHANGED <<deliveries, handler, head>>
  BY DEF JobAction, Claim, Start, Tell, StalePending, EndReview
<1>3. RowsKept
  BY <1>2 DEF RowsKept
<1>4. CASE Tell(j)
  <2>1. PICK job \in JobOf(V) : job = [jobs[j] EXCEPT !.untold = FALSE]
    BY <1>1 DEF JobOf
  <2>2. job.delivery = jobs[j].delivery /\ job.head = jobs[j].head
    BY <1>1, <2>1 DEF JobOf
  <2>3. jobs' = [jobs EXCEPT ![j] = job]
    BY <1>4, <2>1 DEF Tell
  <2>4. jobs' \in Seq(JobOf(V)) /\ DOMAIN jobs' = DOMAIN jobs /\ JobsKept
    BY <2>2, <2>3, JobTypes
  <2>5. notices' \in Notices
    <3>1. PICK key \in Codes \X Heads : key = <<"FAILED", jobs[j].head>>
      BY <1>1 DEF JobOf, Codes
    <3>2. notices[key] \in NoticeRow
      BY DEF Typed, Notices
    <3>3. CASE notices' = [notices EXCEPT ![key].row = TRUE]
      <4>1. [notices[key] EXCEPT !.row = TRUE] \in NoticeRow
        BY <3>2 DEF NoticeRow
      <4>. QED
        BY <3>3, <4>1 DEF Typed, Notices
    <3>4. ASSUME NEW known \in BOOLEAN,
                 notices' = [notices EXCEPT ![key] = [row |-> TRUE, posted |-> @.posted + 1, known |-> known,
                                                      lost |-> @.lost + (IF known THEN 0 ELSE 1)]]
          PROVE  notices' \in Notices
      <4>1. [row |-> TRUE, posted |-> notices[key].posted + 1, known |-> known,
             lost |-> notices[key].lost + (IF known THEN 0 ELSE 1)] \in NoticeRow
        BY <3>2 DEF NoticeRow
      <4>. QED
        BY <3>4, <4>1 DEF Typed, Notices
    <3>. QED
      BY <1>4, <3>1, <3>3, <3>4 DEF Tell
  <2>. QED
    BY <1>2, <1>3, <2>4, <2>5 DEF JobDoes, Typed
<1>5. CASE ~Tell(j)
  <2>1. UNCHANGED notices
    BY <1>5 DEF JobAction, Claim, Start, StalePending, EndReview
  <2>2. ASSUME NEW status \in Active \cup {"SUCCEEDED", "FAILED", "SKIPPED"},
               jobs' = [jobs EXCEPT ![j].status = status]
        PROVE  jobs' \in Seq(JobOf(V)) /\ DOMAIN jobs' = DOMAIN jobs /\ JobsKept
    <3>1. PICK job \in JobOf(V) : job = [jobs[j] EXCEPT !.status = status]
      BY <1>1 DEF JobOf
    <3>2. job.delivery = jobs[j].delivery /\ job.head = jobs[j].head
      BY <1>1, <3>1 DEF JobOf
    <3>3. jobs' = [jobs EXCEPT ![j] = job]
      BY <2>2, <3>1
    <3>. QED
      BY <3>2, <3>3, JobTypes
  <2>3. ASSUME NEW status \in Active \cup {"SUCCEEDED", "FAILED", "SKIPPED"}, NEW untold \in BOOLEAN,
               jobs' = [jobs EXCEPT ![j].status = status, ![j].untold = untold]
        PROVE  jobs' \in Seq(JobOf(V)) /\ DOMAIN jobs' = DOMAIN jobs /\ JobsKept
    <3>1. PICK job \in JobOf(V) : job = [jobs[j] EXCEPT !.status = status, !.untold = untold]
      BY <1>1 DEF JobOf
    <3>2. job.delivery = jobs[j].delivery /\ job.head = jobs[j].head
      BY <1>1, <3>1 DEF JobOf
    <3>3. jobs' = [jobs EXCEPT ![j] = job]
      BY <1>1, <2>3, <3>1 DEF JobOf
    <3>. QED
      BY <3>2, <3>3, JobTypes
  <2>4. jobs' \in Seq(JobOf(V)) /\ DOMAIN jobs' = DOMAIN jobs /\ JobsKept
    <3>1. CASE Claim(j) \/ StalePending(j)
      BY <3>1, <2>2 DEF Claim, StalePending, Job, Active
    <3>2. CASE Start(j)
      BY <3>2, <2>2, <2>3 DEF Start, Active
    <3>3. CASE \E status \in {"SUCCEEDED", "FAILED"} : EndReview(j, status)
      <4>1. PICK status \in {"SUCCEEDED", "FAILED"} : EndReview(j, status)
        BY <3>3
      <4>2. PICK untold \in BOOLEAN : untold = (status = "FAILED")
        OBVIOUS
      <4>3. jobs' = [jobs EXCEPT ![j].status = status, ![j].untold = untold]
        BY <4>1, <4>2 DEF EndReview
      <4>. QED
        BY <2>3, <4>3
    <3>. QED
      BY <1>5, <3>1, <3>2, <3>3 DEF JobAction
  <2>. QED
    BY <1>2, <1>3, <2>1, <2>4 DEF JobDoes, Typed
<1>. QED
  BY <1>4, <1>5

\* The recovery changes one row.
LEMMA RecoverDoes ==
    ASSUME NEW V, Typed(V), NEW d \in Deliveries, Recover(d)
    PROVE  JobDoes(V)
<1>1. deliveries[d] \in DeliveryRow
  BY DEF Recover, Typed, Rows
<1>2. PICK row \in DeliveryRow : row = [deliveries[d] EXCEPT
          !.status = IF deliveries[d].attempts < MaxAttempts /\ UsedDelivery(d) THEN "PROCESSED" ELSE "FAILED_FINAL",
          !.attempts = @ + 1]
  <2>1. PICK n \in Nat \ {0} : n = deliveries[d].attempts + 1
    BY <1>1 DEF DeliveryRow
  <2>. QED
    BY <1>1, <2>1 DEF DeliveryRow, DeliveryStates
<1>3. row.event = deliveries[d].event /\ row # None
  BY <1>1, <1>2, RowAssumption DEF DeliveryRow
<1>4. deliveries' = [deliveries EXCEPT ![d] = row]
  BY <1>1, <1>2 DEF Recover, Typed, Rows, DeliveryRow
<1>5. deliveries' \in Rows /\ \A c \in Deliveries : deliveries'[c] = IF c = d THEN row ELSE deliveries[c]
  BY <1>4 DEF Typed, Rows
<1>6. RowsKept /\ JobsKept
  BY <1>3, <1>5 DEF RowsKept, JobsKept, Recover
<1>. QED
  BY <1>5, <1>6 DEF JobDoes, Typed, Recover

\* A push changes the head only.
LEMMA PushDoes == ASSUME NEW V, Typed(V), Push PROVE JobDoes(V)
<1>1. head' \in Heads
  BY DeliveryAssumption DEF Push, Typed, Heads
<1>. QED
  BY <1>1 DEF JobDoes, Typed, Push, RowsKept, JobsKept

DeliveryInv == (\E V : Typed(V)) /\ RequestsRecorded

\* Nothing was delivered yet.
LEMMA DeliveryInvInit == Init => DeliveryInv
<1>. SUFFICES ASSUME Init PROVE DeliveryInv
  OBVIOUS
<1>1. Typed({None})
  BY DeliveryAssumption DEF Init, DeliveriesInit, Typed, Rows, Requests, Notices, NoticeRow, Heads
<1>2. RequestsRecorded
  BY DEF Init, DeliveriesInit, RequestsRecorded
<1>. QED
  BY <1>1, <1>2 DEF DeliveryInv

\* The names of the moment may be added to the names so far.
LEMMA NamesOfNow ==
    ASSUME DeliveryInv
    PROVE  \E V : Typed(V) /\ {Chosen(global, repository, "model"), Chosen(global, repository, "effort")} \subseteq V
<1>1. PICK V : Typed(V)
  BY DEF DeliveryInv
<1>. DEFINE W == V \cup {Chosen(global, repository, "model"), Chosen(global, repository, "effort")}
<1>2. Typed(W)
  BY <1>1, TypedWider
<1>. QED
  BY <1>2

\* Every step keeps rows, requests and jobs well formed; a row keeps its event and a
\* job its delivery and head.
LEMMA DeliveryInvStep ==
    ASSUME DeliveryInv, [Next]_vars
    PROVE  DeliveryInv' /\ RowsKept /\ JobsKept
<1>1. PICK V : Typed(V) /\ {Chosen(global, repository, "model"), Chosen(global, repository, "effort")} \subseteq V
  BY NamesOfNow
<1>. USE DEF DeliveryInv
<1>2. ASSUME NEW h \in Handlers, HandlerAction(h) PROVE DeliveryInv' /\ RowsKept /\ JobsKept
  <2>1. RequestDoes(V, h)
    BY <1>1, <1>2, HandlerDoes
  <2>2. RequestsRecorded'
    <3>. SUFFICES ASSUME NEW k \in Handlers, handler'[k] # None PROVE IsRecorded(handler[k])'
      BY DEF RequestsRecorded
    <3>1. CASE k = h
      BY <2>1, <3>1 DEF RequestDoes
    <3>2. CASE k # h
      <4>1. handler'[k] = handler[k] /\ IsRecorded(handler[k])
        BY <2>1, <3>2 DEF RequestDoes, RequestsRecorded
      <4>2. handler[k].delivery \in Deliveries
        BY <1>1, <4>1, RequestAt DEF RequestOf
      <4>. QED
        BY <2>1, <4>1, <4>2 DEF RequestDoes, RowsKept, IsRecorded
    <3>. QED
      BY <3>1, <3>2
  <2>. QED
    BY <2>1, <2>2 DEF RequestDoes
<1>3. ASSUME JobDoes(V) PROVE DeliveryInv' /\ RowsKept /\ JobsKept
  <2>1. RequestsRecorded'
    <3>. SUFFICES ASSUME NEW k \in Handlers, handler'[k] # None PROVE IsRecorded(handler[k])'
      BY DEF RequestsRecorded
    <3>1. handler'[k] = handler[k] /\ IsRecorded(handler[k])
      BY <1>3 DEF JobDoes, RequestsRecorded
    <3>2. handler[k].delivery \in Deliveries
      BY <1>1, <3>1, RequestAt DEF RequestOf
    <3>. QED
      BY <1>3, <3>1, <3>2 DEF JobDoes, RowsKept, IsRecorded
  <2>. QED
    BY <1>3, <2>1 DEF JobDoes
<1>4. CASE UNCHANGED webhooks
  <2>1. Typed(V)' /\ RowsKept /\ JobsKept
    BY <1>1, <1>4 DEF webhooks, Typed, RowsKept, JobsKept
  <2>2. UNCHANGED handler
    BY <1>4 DEF webhooks
  <2>. QED
    BY <2>1, <2>2, <1>3 DEF JobDoes
<1>5. CASE WebhookAction
  <2>1. ASSUME NEW j \in DOMAIN jobs, JobAction(j) PROVE JobDoes(V)
    BY <1>1, <2>1, JobActionDoes
  <2>2. ASSUME NEW d \in Deliveries, Recover(d) PROVE JobDoes(V)
    BY <1>1, <2>2, RecoverDoes
  <2>3. ASSUME Push PROVE JobDoes(V)
    BY <1>1, <2>3, PushDoes
  <2>. QED
    BY <1>5, <1>2, <1>3, <2>1, <2>2, <2>3 DEF WebhookAction
<1>. QED
  BY <1>4, <1>5, WebhookFrame

\* The invariant of the deliveries.
LEMMA DeliveryInvariant == Spec => []DeliveryInv
<1>1. DeliveryInv /\ [Next]_vars => DeliveryInv'
  BY DeliveryInvStep
<1>. QED
  BY <1>1, DeliveryInvInit, PTL DEF Spec

-----------------------------------------------------------------------------
(* Layer 3: the jobs behind the deliveries.                                *)

\* Only Enqueue makes a job, and at most one.
LEMMA NewJobs ==
    ASSUME DeliveryInv, [Next]_vars
    PROVE  \/ DOMAIN jobs' = DOMAIN jobs
           \/ \E h \in Handlers :
                 /\ Enqueue(h) /\ handler[h] # None /\ ~UsedDelivery(handler[h].delivery)
                 /\ DOMAIN jobs' = DOMAIN jobs \cup {Len(jobs) + 1}
                 /\ jobs'[Len(jobs) + 1] = NewJob(h)
<1>1. PICK V : Typed(V)
  BY DEF DeliveryInv
<1>2. CASE UNCHANGED webhooks
  BY <1>2 DEF webhooks
<1>3. ASSUME NEW h \in Handlers, HandlerAction(h), jobs' # jobs
      PROVE  /\ Enqueue(h) /\ handler[h] # None /\ ~UsedDelivery(handler[h].delivery)
             /\ DOMAIN jobs' = DOMAIN jobs \cup {Len(jobs) + 1}
             /\ jobs'[Len(jobs) + 1] = NewJob(h)
  <2>1. Enqueue(h)
    BY <1>3 DEF HandlerAction, Receive, Redeliver, GitHubFails, HandlerEnds, IgnoreSender, HandlerStep, Reserve,
                ReadPolicy, PullRequest, Checks, Notice, Post, Suspend, List, Restore, Finished
  <2>2. jobs' = WithJob(h) /\ ~UsedDelivery(handler[h].delivery)
    BY <1>3, <2>1 DEF Enqueue
  <2>3. handler[h] # None
    BY <2>1 DEF Enqueue, At
  <2>. QED
    BY <1>1, <2>1, <2>2, <2>3, RequestAt, WithJobTypes
<1>4. ASSUME NEW j \in DOMAIN jobs, JobAction(j) PROVE DOMAIN jobs' = DOMAIN jobs
  BY <1>1, <1>4, JobActionDoes
<1>5. ASSUME Push \/ \E d \in Deliveries : Recover(d) PROVE DOMAIN jobs' = DOMAIN jobs
  BY <1>5 DEF Push, Recover
<1>. QED
  BY <1>2, <1>3, <1>4, <1>5, WebhookFrame DEF WebhookAction

\* A delivery never makes a second job: not by another request with its id, however
\* they interleave, not after a failure, a crash or a recovery.
THEOREM OneJobPerDeliveryHolds == Spec => []OneJobPerDelivery
<1>1. Init => OneJobPerDelivery
  BY DEF Init, DeliveriesInit, OneJobPerDelivery
<1>2. DeliveryInv /\ OneJobPerDelivery /\ [Next]_vars => OneJobPerDelivery'
  <2>. SUFFICES ASSUME DeliveryInv, OneJobPerDelivery, [Next]_vars PROVE OneJobPerDelivery'
    OBVIOUS
  <2>1. \A j \in DOMAIN jobs : jobs'[j].delivery = jobs[j].delivery
    BY DeliveryInvStep DEF JobsKept
  <2>2. CASE DOMAIN jobs' = DOMAIN jobs
    BY <2>1, <2>2 DEF OneJobPerDelivery
  <2>3. ASSUME NEW h \in Handlers, ~UsedDelivery(handler[h].delivery),
               DOMAIN jobs' = DOMAIN jobs \cup {Len(jobs) + 1}, jobs'[Len(jobs) + 1] = NewJob(h)
        PROVE  OneJobPerDelivery'
    <3>1. jobs'[Len(jobs) + 1].delivery = handler[h].delivery
      BY <2>3 DEF NewJob
    <3>2. \A j \in DOMAIN jobs : jobs[j].delivery # handler[h].delivery
      BY <2>3 DEF UsedDelivery
    <3>. QED
      BY <2>1, <2>3, <3>1, <3>2 DEF OneJobPerDelivery
  <2>. QED
    BY <2>2, <2>3, NewJobs
<1>. QED
  BY <1>1, <1>2, DeliveryInvariant, PTL DEF Spec

\* A request that is about to report a review as processed.
Reports(h) ==
    /\ handler[h] # None /\ handler[h].step = "finish" /\ handler[h].result = "PROCESSED"
    /\ Event(h) \in {"opened", "command"}
HasJob(h) == \E j \in DOMAIN jobs : jobs[j].delivery = handler[h].delivery \/ jobs[j].head = handler[h].head
ReportsHaveJobs == \A h \in Handlers : Reports(h) => HasJob(h)

\* It found the job, or has made it; what is processed about an installation is none.
LEMMA ReportBegins ==
    ASSUME NEW V, Typed(V), RequestsRecorded, NEW h \in Handlers, HandlerAction(h), Reports(h)',
           RequestDoes(V, h)
    PROVE  HasJob(h)'
<1>1. Enqueue(h) \/ Suspend(h) \/ Restore(h)
  <2>1. CASE handler'[h] # None /\ handler'[h].step = "finish" /\ handler'[h].result = "PROCESSED"
    <3>1. ~\E d \in Deliveries, event \in Events, at \in Heads : Receive(h, d, event, at)
      BY <2>1 DEF Receive, Request, Typed, Requests
    <3>2. ~\E d \in Deliveries : Redeliver(h, d)
      BY <2>1 DEF Redeliver, Request, Typed, Requests
    <3>3. \A status : ~Finish(h, status)
      BY <2>1 DEF Finish, Typed, Requests
    <3>4. ~HandlerEnds(h)
      BY <2>1 DEF HandlerEnds, Typed, Requests
    <3>5. \A step \in Steps \ {"finish"} : ~(handler[h] # None /\ Continue(h, step))
      <4>. SUFFICES ASSUME NEW step \in Steps \ {"finish"}, handler[h] # None, Continue(h, step) PROVE FALSE
        OBVIOUS
      <4>. QED
        BY <2>1, RequestAt DEF Continue, Typed, Requests, RequestOf
    <3>6. ~Reserve(h) /\ ~List(h)
      BY <3>5 DEF Reserve, List, At, Steps
    <3>7. ~GitHubFails(h) /\ ~IgnoreSender(h) /\ ~Finished(h)
      BY <3>3 DEF GitHubFails, IgnoreSender, Finished
    <3>8. ~ReadPolicy(h)
      <4>. SUFFICES ASSUME ReadPolicy(h) PROVE FALSE
        OBVIOUS
      <4>1. handler[h] # None
        BY DEF ReadPolicy, At
      <4>. QED
        BY <2>1, <3>3, <4>1, RequestAt DEF ReadPolicy, Typed, Requests, RequestOf
    <3>9. ~PullRequest(h)
      BY <2>1, RequestAt DEF PullRequest, At, Typed, Requests, RequestOf
    <3>10. ~Checks(h)
      BY <2>1, RequestAt DEF Checks, At, Typed, Requests, RequestOf
    <3>11. ~Notice(h)
      BY <3>3, <3>5 DEF Notice, At, Steps
    <3>12. ~Post(h)
      BY <2>1, RequestAt DEF Post, At, Typed, Requests, RequestOf
    <3>. QED
      BY <3>1, <3>2, <3>4, <3>6, <3>7, <3>8, <3>9, <3>10, <3>11, <3>12 DEF HandlerAction, HandlerStep
  <2>. QED
    BY <2>1 DEF Reports
<1>2. handler[h] # None
  BY <1>1 DEF Enqueue, Suspend, Restore, At
<1>3. handler[h] \in RequestOf(V) /\ deliveries[handler[h].delivery] # None
  BY <1>2, RequestAt DEF RequestsRecorded, IsRecorded
<1>4. CASE Enqueue(h)
  <2>1. /\ handler' = [handler EXCEPT ![h].step = "finish", ![h].result = "PROCESSED"]
        /\ UNCHANGED deliveries
    BY <1>4 DEF Enqueue, Finish, Reports, Typed, Requests
  <2>2. handler'[h].delivery = handler[h].delivery /\ handler'[h].head = handler[h].head
    BY <1>3, <2>1 DEF Typed, Requests, RequestOf
  <2>3. ~Full(h) \/ Existing(h)
    BY <1>4, <2>1 DEF Enqueue, Finish, Reports, Typed, Requests
  <2>4. CASE Existing(h)
    <3>1. PICK j \in DOMAIN jobs : jobs[j].head = handler[h].head
      BY <2>4 DEF Existing, Has
    <3>. QED
      BY <2>2, <3>1 DEF HasJob, RequestDoes, JobsKept
  <2>5. CASE UsedDelivery(handler[h].delivery)
    <3>1. PICK j \in DOMAIN jobs : jobs[j].delivery = handler[h].delivery
      BY <2>5 DEF UsedDelivery
    <3>. QED
      BY <2>2, <3>1 DEF HasJob, RequestDoes, JobsKept
  <2>6. CASE ~Existing(h) /\ ~UsedDelivery(handler[h].delivery)
    <3>1. jobs' = WithJob(h)
      BY <1>4, <2>3, <2>6 DEF Enqueue
    <3>2. Len(jobs) + 1 \in DOMAIN jobs' /\ jobs'[Len(jobs) + 1] = NewJob(h)
      BY <1>3, <3>1, WithJobTypes
    <3>. QED
      BY <2>2, <3>2 DEF HasJob, NewJob
  <2>. QED
    BY <2>4, <2>5, <2>6
<1>5. CASE Suspend(h)
  BY <1>3, <1>5 DEF Suspend, Reports, Event, Typed, Requests, RequestOf
<1>6. CASE Restore(h)
  BY <1>3, <1>6 DEF Restore, At, Reports, Event, RequestsRecorded, IsRecorded, Typed, Requests, RequestOf
<1>. QED
  BY <1>1, <1>4, <1>5, <1>6

\* A request that is not at work keeps what it is about to report.
LEMMA ReportStays ==
    ASSUME NEW V, Typed(V), RequestsRecorded, RowsKept, JobsKept, NEW h \in Handlers, handler'[h] = handler[h],
           Reports(h) => HasJob(h), Reports(h)'
    PROVE  HasJob(h)'
<1>1. handler[h] # None /\ handler[h].delivery \in Deliveries /\ deliveries[handler[h].delivery] # None
  BY RequestAt DEF Reports, RequestOf, RequestsRecorded, IsRecorded
<1>2. Reports(h)
  BY <1>1 DEF Reports, Event, RowsKept
<1>. QED
  BY <1>2 DEF HasJob, JobsKept

\* No step lets a request report a review that has no job.
LEMMA ReportsStep == ASSUME DeliveryInv, ReportsHaveJobs, [Next]_vars PROVE ReportsHaveJobs'
<1>1. PICK V : Typed(V) /\ {Chosen(global, repository, "model"), Chosen(global, repository, "effort")} \subseteq V
  BY NamesOfNow
<1>2. RequestsRecorded /\ RowsKept /\ JobsKept
  BY DeliveryInvStep DEF DeliveryInv
<1>3. ASSUME NEW h \in Handlers, HandlerAction(h) PROVE ReportsHaveJobs'
  <2>1. RequestDoes(V, h)
    BY <1>1, <1>2, <1>3, HandlerDoes
  <2>2. Reports(h)' => HasJob(h)'
    BY <1>1, <1>2, <1>3, <2>1, ReportBegins
  <2>3. \A k \in Handlers \ {h} : Reports(k)' => HasJob(k)'
    BY <1>1, <1>2, <2>1, ReportStays DEF RequestDoes, ReportsHaveJobs
  <2>. QED
    BY <2>2, <2>3 DEF ReportsHaveJobs
<1>4. ASSUME UNCHANGED handler PROVE ReportsHaveJobs'
  BY <1>1, <1>2, <1>4, ReportStays DEF ReportsHaveJobs
<1>5. CASE UNCHANGED webhooks
  BY <1>4, <1>5 DEF webhooks
<1>6. CASE WebhookAction
  <2>1. ASSUME NEW j \in DOMAIN jobs, JobAction(j) PROVE UNCHANGED handler
    BY <2>1 DEF JobAction, Claim, Start, Tell, StalePending, EndReview
  <2>2. ASSUME Push \/ \E d \in Deliveries : Recover(d) PROVE UNCHANGED handler
    BY <2>2 DEF Push, Recover
  <2>. QED
    BY <1>3, <1>4, <1>6, <2>1, <2>2 DEF WebhookAction
<1>. QED
  BY <1>5, <1>6, WebhookFrame

\* What stands behind a delivery that becomes processed.
Processing ==
    \A d \in Deliveries :
        /\ deliveries[d] # None /\ deliveries[d].event \in {"opened", "command"}
        /\ deliveries[d].status # "PROCESSED" /\ deliveries'[d].status = "PROCESSED"
        => \E j \in DOMAIN jobs :
              \/ jobs[j].delivery = d
              \/ \E h \in Handlers : At(h, "finish") /\ handler[h].delivery = d /\ jobs[j].head = handler[h].head

\* A row becomes processed by a request that reports a job, or by the watchdog, which
\* looks for the job itself.
LEMMA ProcessingStep == ASSUME DeliveryInv, ReportsHaveJobs, [Next]_vars PROVE Processing
<1>1. PICK V : Typed(V)
  BY DEF DeliveryInv
<1>. SUFFICES ASSUME NEW d \in Deliveries, deliveries[d] # None, deliveries[d].event \in {"opened", "command"},
                     deliveries[d].status # "PROCESSED", deliveries'[d].status = "PROCESSED"
              PROVE  \E j \in DOMAIN jobs :
                        \/ jobs[j].delivery = d
                        \/ \E h \in Handlers : At(h, "finish") /\ handler[h].delivery = d
                                               /\ jobs[j].head = handler[h].head
  BY DEF Processing
<1>2. deliveries[d] \in DeliveryRow
  BY <1>1 DEF Typed, Rows
<1>3. deliveries' # deliveries
  OBVIOUS
<1>4. ASSUME NEW h \in Handlers, NEW status \in DeliveryStates, handler[h] # None, Finish(h, status)
      PROVE  status = "PROCESSED" /\ handler[h].delivery = d
  <2>1. PICK c \in Deliveries : c = handler[h].delivery
    BY <1>1, <1>4, RequestAt DEF RequestOf
  <2>2. deliveries'[d] = IF c = d THEN [deliveries[d] EXCEPT !.status = status] ELSE deliveries[d]
    BY <1>1, <1>4, <2>1 DEF Finish, Typed, Rows
  <2>. QED
    BY <1>2, <2>1, <2>2 DEF DeliveryRow
<1>5. ASSUME NEW h \in Handlers, HandlerAction(h)
      PROVE  handler[h] # None /\ handler[h].step = "finish" /\ handler[h].result = "PROCESSED" /\ handler[h].delivery = d
  <2>1. CASE Finished(h)
    <3>1. handler[h] # None /\ handler[h].step = "finish" /\ handler[h].result \in DeliveryStates
      BY <2>1 DEF Finished, At, DeliveryInv, RequestsRecorded, IsRecorded
    <3>. QED
      BY <1>4, <2>1, <3>1 DEF Finished
  <2>2. ~\E e \in Deliveries, event \in Events, at \in Heads : Receive(h, e, event, at)
    BY <1>1 DEF Receive, Typed, Rows
  <2>3. ~Reserve(h)
    <3>. SUFFICES ASSUME Reserve(h) PROVE FALSE
      OBVIOUS
    <3>1. PICK c \in Deliveries : c = handler[h].delivery
      BY <1>1, RequestAt DEF Reserve, At, RequestOf
    <3>2. d # c => deliveries'[d] = deliveries[d]
      BY <1>1, <3>1 DEF Reserve, Typed, Rows
    <3>3. d = c => deliveries'[d].status = "PROCESSING"
      BY <1>1, <1>2, <3>1 DEF Reserve, Typed, Rows, DeliveryRow
    <3>. QED
      BY <3>2, <3>3
  <2>4. ~GitHubFails(h) /\ ~IgnoreSender(h)
    BY <1>4 DEF GitHubFails, IgnoreSender, At, DeliveryStates
  <2>5. ~ReadPolicy(h) /\ ~Notice(h) /\ ~Enqueue(h)
    BY <1>3, <1>4 DEF ReadPolicy, Notice, Enqueue, At, DeliveryStates
  <2>6. ~\E e \in Deliveries : Redeliver(h, e)
    BY <1>3 DEF Redeliver
  <2>7. ~HandlerEnds(h) /\ ~PullRequest(h) /\ ~Checks(h) /\ ~Post(h) /\ ~Suspend(h) /\ ~List(h) /\ ~Restore(h)
    BY <1>3 DEF HandlerEnds, PullRequest, Checks, Post, Suspend, List, Restore
  <2>. QED
    BY <1>5, <2>1, <2>2, <2>3, <2>4, <2>5, <2>6, <2>7 DEF HandlerAction, HandlerStep
<1>6. CASE \E h \in Handlers : HandlerAction(h)
  <2>1. PICK h \in Handlers : HandlerAction(h)
    BY <1>6
  <2>2. Reports(h) /\ handler[h].delivery = d /\ At(h, "finish")
    BY <1>5, <2>1 DEF Reports, At, Event
  <2>3. HasJob(h)
    BY <2>2 DEF ReportsHaveJobs
  <2>. QED
    BY <2>2, <2>3 DEF HasJob
<1>7. CASE \E e \in Deliveries : Recover(e)
  <2>1. PICK e \in Deliveries : Recover(e)
    BY <1>7
  <2>2. e = d
    BY <1>1, <2>1 DEF Recover, Typed, Rows
  <2>3. UsedDelivery(d)
    BY <1>1, <1>2, <2>1, <2>2 DEF Recover, Typed, Rows, DeliveryRow
  <2>. QED
    BY <2>3 DEF UsedDelivery
<1>8. CASE Push \/ \E j \in DOMAIN jobs : JobAction(j)
  BY <1>3, <1>8 DEF Push, JobAction, Claim, Start, Tell, StalePending, EndReview
<1>9. CASE UNCHANGED webhooks
  BY <1>3, <1>9 DEF webhooks
<1>. QED
  BY <1>6, <1>7, <1>8, <1>9, WebhookFrame DEF WebhookAction

\* The invariant of the jobs behind the deliveries.
LEMMA ReportsInvariant == Spec => [](DeliveryInv /\ ReportsHaveJobs)
<1>1. Init => ReportsHaveJobs
  BY DEF Init, DeliveriesInit, ReportsHaveJobs, Reports
<1>2. DeliveryInv /\ ReportsHaveJobs /\ [Next]_vars => ReportsHaveJobs'
  BY ReportsStep
<1>. QED
  BY <1>1, <1>2, DeliveryInvariant, PTL DEF Spec

\* A delivery about a review ends as processed only with a job behind it.
THEOREM ProcessedIsBackedHolds == Spec => ProcessedIsBacked
<1>1. DeliveryInv /\ ReportsHaveJobs /\ [Next]_vars => [Processing]_webhooks
  BY ProcessingStep
<1>2. [Processing]_webhooks <=> [\A d \in Deliveries :
          /\ deliveries[d] # None /\ deliveries[d].event \in {"opened", "command"}
          /\ deliveries[d].status # "PROCESSED" /\ deliveries'[d].status = "PROCESSED"
          => \E j \in DOMAIN jobs :
                \/ jobs[j].delivery = d
                \/ \E h \in Handlers : At(h, "finish") /\ handler[h].delivery = d
                                       /\ jobs[j].head = handler[h].head]_webhooks
  BY DEF Processing
<1>. QED
  BY <1>1, <1>2, ReportsInvariant, PTL DEF Spec, ProcessedIsBacked

-----------------------------------------------------------------------------
(* Layer 4: the notices.                                                   *)

Telling(h, step) == handler[h] # None /\ handler[h].step = step

\* The row of a notice is there before its comment, and the request that wrote it is
\* the one that posts.
NoticeInv ==
    /\ \A h \in Handlers : Telling(h, "notice") \/ Telling(h, "post") => handler[h].code \in {"REVIEWED", "IN_PROGRESS"}
    /\ \A h \in Handlers : Telling(h, "post") => notices[Key(h)].row /\ notices[Key(h)].posted = 0
    /\ \A h, k \in Handlers : Telling(h, "post") /\ Telling(k, "post") /\ Key(h) = Key(k) => h = k
    /\ \A code \in {"REVIEWED", "IN_PROGRESS"}, at \in Heads :
          /\ notices[<<code, at>>].posted <= 1
          /\ ~notices[<<code, at>>].row => notices[<<code, at>>].posted = 0
    /\ \A at \in Heads : LET n == notices[<<"FAILED", at>>] IN n.posted <= n.lost + (IF n.known THEN 1 ELSE 0)

\* Steps that leave the notices alone; a request may have found which one to tell.
LEMMA NoticesLeft ==
    ASSUME NoticeInv, UNCHANGED notices,
           \A k \in Handlers : \/ handler'[k] = handler[k]
                               \/ ~(Telling(k, "notice") \/ Telling(k, "post"))'
                               \/ ~Telling(k, "post")' /\ handler'[k].code \in {"REVIEWED", "IN_PROGRESS"}
    PROVE  NoticeInv'
<1>1. \A k \in Handlers : Telling(k, "post")' => handler'[k] = handler[k] /\ Telling(k, "post") /\ Key(k)' = Key(k)
  BY DEF Telling, Key
<1>2. \A h, k \in Handlers : (Telling(h, "post") /\ Telling(k, "post") /\ Key(h) = Key(k))' => h = k
  BY <1>1 DEF NoticeInv
<1>3. \A h \in Handlers : Telling(h, "post")' => (notices[Key(h)].row /\ notices[Key(h)].posted = 0)'
  BY <1>1 DEF NoticeInv
<1>4. \A h \in Handlers : (Telling(h, "notice") \/ Telling(h, "post"))' => handler'[h].code \in {"REVIEWED", "IN_PROGRESS"}
  BY DEF NoticeInv, Telling
<1>. QED
  BY <1>2, <1>3, <1>4 DEF NoticeInv

\* One notice is written, and one request goes on.
LEMMA NoticeWritten ==
    ASSUME NEW V, Typed(V), NoticeInv, NEW h \in Handlers, Notice(h) \/ Post(h)
    PROVE  NoticeInv'
<1>1. handler[h] \in RequestOf(V) /\ handler[h] # None
  BY RequestAt DEF Notice, Post, At
<1>2. handler[h].code \in {"REVIEWED", "IN_PROGRESS"}
  BY DEF Notice, Post, At, Telling, NoticeInv
<1>3. PICK code \in {"REVIEWED", "IN_PROGRESS"}, at \in Heads : code = handler[h].code /\ at = handler[h].head
  BY <1>1, <1>2 DEF RequestOf
<1>4. <<code, at>> = Key(h) /\ <<code, at>> \in Codes \X Heads
  BY <1>3 DEF Key, Codes
<1>5. notices[<<code, at>>] \in NoticeRow /\ notices[Key(h)] = notices[<<code, at>>]
  BY <1>4 DEF Typed, Notices
<1>6. \A k \in Handlers \ {h} : handler'[k] = handler[k]
  BY DEF Notice, Post, Finish, Continue, Typed, Requests
<1>7. \A k \in Handlers \ {h} : Key(k)' = Key(k) /\ (Telling(k, "post")' => Telling(k, "post"))
                                /\ (Telling(k, "notice")' => Telling(k, "notice"))
  BY <1>6 DEF Telling, Key
<1>8. CASE Post(h)
  <2>1. PICK n \in {0, 1} : notices' = [notices EXCEPT ![<<code, at>>].row = TRUE, ![<<code, at>>].posted = @ + n]
    BY <1>4, <1>8 DEF Post
  <2>2. /\ notices'[<<code, at>>].row = TRUE
        /\ notices'[<<code, at>>].posted = notices[<<code, at>>].posted + n
    BY <1>4, <1>5, <2>1 DEF Typed, Notices, NoticeRow
  <2>3. \A m \in Codes \X Heads : m # <<code, at>> => notices'[m] = notices[m]
    BY <1>4, <2>1 DEF Typed, Notices
  <2>4. Telling(h, "post") /\ notices[<<code, at>>].posted = 0
    BY <1>4, <1>8 DEF Post, At, Telling, NoticeInv
  <2>5. handler'[h].step = "finish"
    BY <1>1, <1>8 DEF Post, Typed, Requests, RequestOf
  <2>6. \A k \in Handlers : Telling(k, "post")' => k # h /\ Telling(k, "post") /\ Key(k)' = Key(k) /\ Key(k) # Key(h)
    BY <1>7, <2>4, <2>5 DEF Telling, NoticeInv
  <2>7. \A k \in Handlers : Telling(k, "post") => Key(k) \in Codes \X Heads
    BY RequestAt DEF NoticeInv, Telling, Key, Codes, RequestOf
  <2>8. \A k \in Handlers : Telling(k, "post")' => (notices[Key(k)].row /\ notices[Key(k)].posted = 0)'
    BY <1>4, <2>3, <2>6, <2>7 DEF NoticeInv
  <2>9. \A k \in Handlers : (Telling(k, "notice") \/ Telling(k, "post"))' => handler'[k].code \in {"REVIEWED", "IN_PROGRESS"}
    BY <1>6, <1>7, <2>5 DEF NoticeInv, Telling
  <2>10. \A k, l \in Handlers : (Telling(k, "post") /\ Telling(l, "post") /\ Key(k) = Key(l))' => k = l
    BY <2>6 DEF NoticeInv
  <2>11. \A c \in {"REVIEWED", "IN_PROGRESS"}, a \in Heads :
            /\ notices'[<<c, a>>].posted <= 1
            /\ ~notices'[<<c, a>>].row => notices'[<<c, a>>].posted = 0
    <3>. SUFFICES ASSUME NEW c \in {"REVIEWED", "IN_PROGRESS"}, NEW a \in Heads
                  PROVE  /\ notices'[<<c, a>>].posted <= 1
                         /\ ~notices'[<<c, a>>].row => notices'[<<c, a>>].posted = 0
      OBVIOUS
    <3>1. CASE <<c, a>> = <<code, at>>
      BY <2>2, <2>4, <3>1
    <3>2. CASE <<c, a>> # <<code, at>>
      BY <2>3, <3>2 DEF NoticeInv, Codes
    <3>. QED
      BY <3>1, <3>2
  <2>12. \A a \in Heads : notices'[<<"FAILED", a>>] = notices[<<"FAILED", a>>]
    BY <2>3 DEF Codes
  <2>. QED
    BY <2>8, <2>9, <2>10, <2>11, <2>12 DEF NoticeInv
<1>9. CASE Notice(h)
  <2>1. CASE notices[Key(h)].row
    <3>1. UNCHANGED notices /\ handler'[h] = None
      BY <1>9, <2>1 DEF Notice, Finish, Typed, Requests
    <3>. QED
      BY <1>6, <3>1, NoticesLeft DEF Telling
  <2>2. CASE ~notices[Key(h)].row
    <3>1. notices' = [notices EXCEPT ![<<code, at>>].row = TRUE] /\ handler' = [handler EXCEPT ![h].step = "post"]
      BY <1>4, <1>9, <2>2 DEF Notice, Continue
    <3>2. /\ notices'[<<code, at>>].row = TRUE
          /\ notices'[<<code, at>>].posted = notices[<<code, at>>].posted
          /\ notices[<<code, at>>].posted = 0
      BY <1>4, <1>5, <2>2, <3>1 DEF Typed, Notices, NoticeRow, NoticeInv
    <3>3. \A m \in Codes \X Heads : m # <<code, at>> => notices'[m] = notices[m]
      BY <1>4, <3>1 DEF Typed, Notices
    <3>4. Key(h)' = Key(h) /\ handler'[h].code = code
      <4>1. PICK request \in RequestOf(V) : request = [handler[h] EXCEPT !.step = "post"]
        BY <1>1 DEF RequestOf, Steps
      <4>2. request.step = "post" /\ request.code = handler[h].code /\ request.head = handler[h].head
        BY <1>1, <4>1 DEF RequestOf
      <4>3. handler'[h] = request
        BY <3>1, <4>1 DEF Typed, Requests
      <4>. QED
        BY <1>3, <4>2, <4>3 DEF Key
    <3>5. \A k \in Handlers \ {h} : Telling(k, "post") => Key(k) # Key(h)
      BY <2>2 DEF NoticeInv
    <3>6. \A k \in Handlers \ {h} : Telling(k, "post") => Key(k) \in Codes \X Heads
      BY RequestAt DEF NoticeInv, Telling, Key, Codes, RequestOf
    <3>7. \A k \in Handlers : Telling(k, "post")' => (notices[Key(k)].row /\ notices[Key(k)].posted = 0)'
      <4>. SUFFICES ASSUME NEW k \in Handlers, Telling(k, "post")'
                    PROVE  (notices[Key(k)].row /\ notices[Key(k)].posted = 0)'
        OBVIOUS
      <4>1. CASE k = h
        BY <1>4, <3>2, <3>4, <4>1
      <4>2. CASE k # h
        BY <1>4, <1>7, <3>3, <3>5, <3>6, <4>2 DEF NoticeInv
      <4>. QED
        BY <4>1, <4>2
    <3>8. \A k \in Handlers : (Telling(k, "notice") \/ Telling(k, "post"))' => handler'[k].code \in {"REVIEWED", "IN_PROGRESS"}
      BY <1>6, <1>7, <3>4 DEF NoticeInv
    <3>9. \A k, l \in Handlers : (Telling(k, "post") /\ Telling(l, "post") /\ Key(k) = Key(l))' => k = l
      BY <1>7, <3>4, <3>5 DEF NoticeInv
    <3>10. \A c \in {"REVIEWED", "IN_PROGRESS"}, a \in Heads :
              /\ notices'[<<c, a>>].posted <= 1
              /\ ~notices'[<<c, a>>].row => notices'[<<c, a>>].posted = 0
      <4>. SUFFICES ASSUME NEW c \in {"REVIEWED", "IN_PROGRESS"}, NEW a \in Heads
                    PROVE  /\ notices'[<<c, a>>].posted <= 1
                           /\ ~notices'[<<c, a>>].row => notices'[<<c, a>>].posted = 0
        OBVIOUS
      <4>1. CASE <<c, a>> = <<code, at>>
        BY <3>2, <4>1
      <4>2. CASE <<c, a>> # <<code, at>>
        BY <3>3, <4>2 DEF NoticeInv, Codes
      <4>. QED
        BY <4>1, <4>2
    <3>11. \A a \in Heads : notices'[<<"FAILED", a>>] = notices[<<"FAILED", a>>]
      BY <3>3 DEF Codes
    <3>. QED
      BY <3>7, <3>8, <3>9, <3>10, <3>11 DEF NoticeInv
  <2>. QED
    BY <2>1, <2>2
<1>. QED
  BY <1>8, <1>9

\* A request that takes any other step is not about to tell a notice afterwards, or it
\* has found the notice that answers its command.
LEMMA OtherMoves ==
    ASSUME NEW V, Typed(V), NEW h \in Handlers, HandlerAction(h), ~Notice(h), ~Post(h)
    PROVE  /\ UNCHANGED notices
           /\ \/ ~(Telling(h, "notice") \/ Telling(h, "post"))'
              \/ /\ Telling(h, "notice")' /\ ~Telling(h, "post")'
                 /\ handler'[h].code \in {"REVIEWED", "IN_PROGRESS"}
<1>. DEFINE Quiet == ~(Telling(h, "notice") \/ Telling(h, "post"))'
<1>1. ASSUME NEW status, Finish(h, status) PROVE Quiet
  BY <1>1 DEF Finish, Typed, Requests, Telling
<1>2. ASSUME handler[h] # None, NEW step \in Steps \ {"notice", "post"}, Continue(h, step) PROVE Quiet
  BY <1>2, RequestAt DEF Continue, Typed, Requests, RequestOf, Telling
<1>3. CASE \E d \in Deliveries, event \in Events, at \in Heads : Receive(h, d, event, at)
  BY <1>3 DEF Receive, Request, Typed, Requests, Telling
<1>4. CASE \E d \in Deliveries : Redeliver(h, d)
  BY <1>4 DEF Redeliver, Request, Typed, Requests, Telling
<1>5. CASE HandlerEnds(h)
  BY <1>5 DEF HandlerEnds, Typed, Requests, Telling
<1>6. CASE GitHubFails(h) \/ IgnoreSender(h) \/ Finished(h)
  BY <1>1, <1>6 DEF GitHubFails, IgnoreSender, Finished
<1>7. CASE Reserve(h)
  BY <1>2, <1>7 DEF Reserve, At, Steps
<1>8. CASE List(h)
  BY <1>2, <1>8 DEF List, At, Steps
<1>9. CASE ReadPolicy(h)
  <2>1. ASSUME NEW step \in {"pull", "enqueue"}, NEW m, NEW e,
               handler' = [handler EXCEPT ![h].step = step, ![h].model = m, ![h].effort = e]
        PROVE  Quiet
    BY <1>9, <2>1, RequestAt DEF ReadPolicy, At, Typed, Requests, RequestOf, Telling
  <2>. QED
    BY <1>1, <1>9, <2>1 DEF ReadPolicy
<1>10. CASE PullRequest(h)
  BY <1>10, RequestAt DEF PullRequest, At, Typed, Requests, RequestOf, Telling
<1>11. CASE Checks(h)
  <2>1. ASSUME NEW code \in {"REVIEWED", "IN_PROGRESS"},
               handler' = [handler EXCEPT ![h].step = "notice", ![h].code = code]
        PROVE  handler'[h].step = "notice" /\ handler'[h].code = code
    BY <1>11, <2>1, RequestAt DEF Checks, At, Typed, Requests, RequestOf
  <2>2. ASSUME handler' = [handler EXCEPT ![h].step = "enqueue"] PROVE Quiet
    BY <1>11, <2>2, RequestAt DEF Checks, At, Typed, Requests, RequestOf, Telling
  <2>. QED
    BY <1>11, <2>1, <2>2 DEF Checks, Telling
<1>12. CASE Enqueue(h)
  <2>1. ASSUME handler' = [handler EXCEPT ![h].step = "finish", ![h].result = "PROCESSED"] PROVE Quiet
    BY <1>12, <2>1, RequestAt DEF Enqueue, At, Typed, Requests, RequestOf, Telling
  <2>. QED
    BY <1>1, <1>12, <2>1 DEF Enqueue
<1>13. CASE Suspend(h) \/ Restore(h)
  BY <1>13, RequestAt DEF Suspend, Restore, At, Typed, Requests, RequestOf, Telling
<1>. QED
  BY <1>3, <1>4, <1>5, <1>6, <1>7, <1>8, <1>9, <1>10, <1>11, <1>12, <1>13 DEF HandlerAction, HandlerStep

\* The notice of a failure is posted again only after the id of its comment was lost.
LEMMA TellWrites ==
    ASSUME NEW V, Typed(V), NoticeInv, NEW j \in DOMAIN jobs, Tell(j)
    PROVE  NoticeInv'
<1>1. jobs[j] \in JobOf(V)
  <2>. HIDE DEF JobOf
  <2>. QED
    BY DEF Typed
<1>2. PICK at \in Heads : at = jobs[j].head
  BY <1>1 DEF JobOf
<1>3. <<"FAILED", at>> \in Codes \X Heads /\ notices[<<"FAILED", at>>] \in NoticeRow
  BY DEF Codes, Typed, Notices
<1>4. \A m \in Codes \X Heads : m # <<"FAILED", at>> => notices'[m] = notices[m]
  BY <1>2, <1>3 DEF Tell, Typed, Notices
<1>5. LET n == notices'[<<"FAILED", at>>] IN n.posted <= n.lost + (IF n.known THEN 1 ELSE 0)
  <2>. DEFINE old == notices[<<"FAILED", at>>]
  <2>1. /\ old.posted \in Nat /\ old.lost \in Nat /\ old.known \in BOOLEAN
        /\ old.posted <= old.lost + (IF old.known THEN 1 ELSE 0)
    BY <1>3 DEF NoticeRow, NoticeInv
  <2>2. CASE notices' = [notices EXCEPT ![<<"FAILED", at>>].row = TRUE]
    <3>1. /\ notices'[<<"FAILED", at>>].posted = old.posted
          /\ notices'[<<"FAILED", at>>].lost = old.lost
          /\ notices'[<<"FAILED", at>>].known = old.known
      BY <1>3, <2>2 DEF Typed, Notices, NoticeRow
    <3>. QED
      BY <2>1, <3>1
  <2>3. ASSUME ~old.known, NEW known \in BOOLEAN,
               notices'[<<"FAILED", at>>] = [row |-> TRUE, posted |-> old.posted + 1, known |-> known,
                                             lost |-> old.lost + (IF known THEN 0 ELSE 1)]
        PROVE  LET n == notices'[<<"FAILED", at>>] IN n.posted <= n.lost + (IF n.known THEN 1 ELSE 0)
    BY <2>1, <2>3
  <2>4. CASE \/ notices' = [notices EXCEPT ![<<"FAILED", at>>].row = TRUE]
             \/ /\ ~old.known
                /\ \E known \in BOOLEAN : notices' = [notices EXCEPT ![<<"FAILED", at>>] =
                      [row |-> TRUE, posted |-> @.posted + 1, known |-> known,
                       lost |-> @.lost + (IF known THEN 0 ELSE 1)]]
    <3>1. ASSUME NEW known \in BOOLEAN, ~old.known,
                 notices' = [notices EXCEPT ![<<"FAILED", at>>] =
                      [row |-> TRUE, posted |-> @.posted + 1, known |-> known,
                       lost |-> @.lost + (IF known THEN 0 ELSE 1)]]
          PROVE  notices'[<<"FAILED", at>>] = [row |-> TRUE, posted |-> old.posted + 1, known |-> known,
                                               lost |-> old.lost + (IF known THEN 0 ELSE 1)]
      BY <1>3, <3>1 DEF Typed, Notices
    <3>. QED
      BY <2>2, <2>3, <2>4, <3>1
  <2>. QED
    BY <1>2, <2>4 DEF Tell
<1>6. UNCHANGED handler
  BY DEF Tell
<1>7. \A k \in Handlers : /\ Telling(k, "post")' <=> Telling(k, "post")
                          /\ Telling(k, "notice")' <=> Telling(k, "notice")
                          /\ Key(k)' = Key(k)
  BY <1>6 DEF Telling, Key
<1>8. \A k \in Handlers : Telling(k, "post") => Key(k) \in Codes \X Heads /\ Key(k) # <<"FAILED", at>>
  BY RequestAt DEF NoticeInv, Telling, Key, Codes, RequestOf
<1>9. \A k \in Handlers : Telling(k, "post")' => (notices[Key(k)].row /\ notices[Key(k)].posted = 0)'
  BY <1>4, <1>7, <1>8 DEF NoticeInv
<1>10. \A c \in {"REVIEWED", "IN_PROGRESS"}, a \in Heads : notices'[<<c, a>>] = notices[<<c, a>>]
  BY <1>4 DEF Codes
<1>11. \A a \in Heads : LET n == notices'[<<"FAILED", a>>] IN n.posted <= n.lost + (IF n.known THEN 1 ELSE 0)
  <2>. SUFFICES ASSUME NEW a \in Heads
                PROVE  LET n == notices'[<<"FAILED", a>>] IN n.posted <= n.lost + (IF n.known THEN 1 ELSE 0)
    OBVIOUS
  <2>1. CASE a = at
    BY <1>5, <2>1
  <2>2. CASE a # at
    <3>1. notices'[<<"FAILED", a>>] = notices[<<"FAILED", a>>]
      BY <1>4, <2>2 DEF Codes
    <3>. QED
      BY <3>1 DEF NoticeInv
  <2>. QED
    BY <2>1, <2>2
<1>. QED
  BY <1>6, <1>7, <1>9, <1>10, <1>11 DEF NoticeInv

\* A comment is posted by the request that wrote the row, or by the worker while the
\* id of the comment is unknown.
LEMMA NoticeInvStep == ASSUME DeliveryInv, NoticeInv, [Next]_vars PROVE NoticeInv'
<1>1. PICK V : Typed(V) /\ {Chosen(global, repository, "model"), Chosen(global, repository, "effort")} \subseteq V
  BY NamesOfNow
<1>2. ASSUME NEW h \in Handlers, HandlerAction(h) PROVE NoticeInv'
  <2>1. CASE Notice(h) \/ Post(h)
    BY <1>1, <2>1, NoticeWritten
  <2>2. CASE ~Notice(h) /\ ~Post(h)
    <3>1. \A k \in Handlers \ {h} : handler'[k] = handler[k]
      BY <1>1, <1>2, HandlerDoes DEF DeliveryInv, RequestDoes
    <3>. QED
      BY <1>1, <1>2, <2>2, <3>1, OtherMoves, NoticesLeft
  <2>. QED
    BY <2>1, <2>2
<1>3. ASSUME UNCHANGED <<handler, notices>> PROVE NoticeInv'
  BY <1>3, NoticesLeft
<1>4. CASE UNCHANGED webhooks
  BY <1>3, <1>4 DEF webhooks
<1>5. CASE WebhookAction
  <2>1. ASSUME NEW j \in DOMAIN jobs, JobAction(j), ~Tell(j) PROVE UNCHANGED <<handler, notices>>
    BY <2>1 DEF JobAction, Claim, Start, StalePending, EndReview
  <2>2. ASSUME NEW j \in DOMAIN jobs, Tell(j) PROVE NoticeInv'
    BY <1>1, <2>2, TellWrites
  <2>3. ASSUME Push \/ \E d \in Deliveries : Recover(d) PROVE UNCHANGED <<handler, notices>>
    BY <2>3 DEF Push, Recover
  <2>. QED
    BY <1>2, <1>3, <1>5, <2>1, <2>2, <2>3 DEF WebhookAction
<1>. QED
  BY <1>4, <1>5, WebhookFrame

\* Requests side by side, crashes and jobs that fail in turn tell a head each kind of
\* notice once, but for failures whose comment's id was lost.
THEOREM NoticesOnceHolds == Spec => []NoticesOnce
<1>1. Init => NoticeInv
  BY DEF Init, DeliveriesInit, NoticeInv, Telling, Codes
<1>2. DeliveryInv /\ NoticeInv /\ [Next]_vars => NoticeInv'
  BY NoticeInvStep
<1>3. DeliveryInv /\ NoticeInv => NoticesOnce
  <2>. SUFFICES ASSUME DeliveryInv, NoticeInv, NEW code \in Codes, NEW at \in Heads
                PROVE  notices[<<code, at>>].posted <= 1 + (IF code = "FAILED" THEN notices[<<code, at>>].lost ELSE 0)
    BY DEF NoticesOnce
  <2>1. notices[<<code, at>>] \in NoticeRow
    BY DEF DeliveryInv, Typed, Notices
  <2>2. CASE code = "FAILED"
    BY <2>1, <2>2 DEF NoticeInv, NoticeRow
  <2>3. CASE code \in {"REVIEWED", "IN_PROGRESS"}
    BY <2>1, <2>3 DEF NoticeInv, NoticeRow
  <2>. QED
    BY <2>2, <2>3 DEF Codes
<1>. QED
  BY <1>1, <1>2, <1>3, DeliveryInvariant, PTL DEF Spec
=============================================================================
