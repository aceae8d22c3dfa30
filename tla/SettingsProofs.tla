---------------------------- MODULE SettingsProofs ----------------------------
(***************************************************************************)
(* Theorems about the rows of the settings, the sessions that write them,  *)
(* and the model and the effort that reviews get from them.                *)
(*                                                                         *)
(* The model and the effort: from the catalog, through the rows that store *)
(* them and the jobs that carry them, to the start of a review.  Efforts   *)
(* are never taken away, so what was checked against an older catalog      *)
(* still holds.                                                            *)
(*                                                                         *)
(* The rows and the sessions: the argument is that of optimistic locking.  *)
(* As long as no row was written from an older reading, every write raises *)
(* the version, so a session that finds the version it has read finds the  *)
(* values too.                                                             *)
(***************************************************************************)
EXTENDS IntakeProofs

Names == Models \cup {None}

\* cat may be what a session has read some time ago.
Older(cat) == \A m \in Models : cat[m] # None => catalog[m] # None /\ cat[m].efforts \subseteq catalog[m].efforts

\* The pair was verified, if it names a model.
Offered(m, e) == m # None => catalog[m] # None /\ e \in catalog[m].efforts

EffortsKept ==
    \A m \in Models : catalog[m] # None => catalog'[m] # None /\ catalog[m].efforts \subseteq catalog'[m].efforts

\* No command and no result takes an effort away.
LEMMA EffortsGrow == ASSUME CatalogInv, [Next]_vars PROVE EffortsKept
<1>1. CASE UNCHANGED models
  BY <1>1 DEF EffortsKept, models
<1>2. CASE CatalogNext
  <2>. SUFFICES ASSUME NEW n \in Models, catalog[n] # None
                PROVE  catalog'[n] # None /\ catalog[n].efforts \subseteq catalog'[n].efforts
    BY DEF EffortsKept
  <2>1. catalog[n] \in Entry /\ CatalogTypeOK
    BY DEF CatalogInv, CatalogTypeOK
  <2>2. CatalogInv'
    BY <1>2, CatalogInvStep
  <2>3. ASSUME NEW m \in Models, NEW entry \in Entry, m # n \/ catalog[n].efforts \subseteq entry.efforts,
               catalog' = [catalog EXCEPT ![m] = entry]
        PROVE  catalog'[n] # None /\ catalog[n].efforts \subseteq catalog'[n].efforts
    BY <2>1, <2>3, CatalogAssumption DEF CatalogTypeOK
  <2>4. ASSUME NEW m \in Models, AddCandidate(m)
        PROVE  catalog'[n] # None /\ catalog[n].efforts \subseteq catalog'[n].efforts
    <3>1. Candidate \in Entry /\ m # n
      BY <2>4 DEF Candidate, Entry, AddCandidate
    <3>. QED
      BY <2>3, <2>4, <3>1 DEF AddCandidate
  <2>5. ASSUME NEW m \in Models, NEW e \in Efforts, StartVerification(m, e)
        PROVE  catalog'[n] # None /\ catalog[n].efforts \subseteq catalog'[n].efforts
    <3>1. catalog[m] \in Entry
      BY <2>1, <2>5 DEF StartVerification, CatalogTypeOK
    <3>2. PICK entry \in Entry : entry = [catalog[m] EXCEPT !.status = "VERIFYING"]
      BY <3>1 DEF Entry
    <3>3. entry.efforts = catalog[m].efforts
      BY <3>1, <3>2 DEF Entry
    <3>4. catalog' = [catalog EXCEPT ![m] = entry]
      BY <2>5, <3>2 DEF StartVerification
    <3>. QED
      BY <2>3, <3>3, <3>4
  <2>6. ASSUME NEW m \in Models, NEW e \in Efforts, NEW result \in Terminal, FinishVerification(m, e, result)
        PROVE  catalog'[n] # None /\ catalog[n].efforts \subseteq catalog'[n].efforts
    <3>1. CASE verification[<<m, e>>] \in Terminal
      BY <2>6, <3>1 DEF FinishVerification, models
    <3>2. CASE verification[<<m, e>>] \notin Terminal
      <4>1. catalog[m] \in Entry
        BY <2>1, <2>6 DEF FinishVerification, CatalogTypeOK, CatalogInv
      <4>2. PICK entry \in Entry : entry = Concluded(catalog[m], e, result)
        BY <4>1, ConcludedEntry
      <4>3. catalog[m].efforts \subseteq entry.efforts
        BY <4>1, <4>2 DEF Concluded, Verified, Entry
      <4>4. catalog' = [catalog EXCEPT ![m] = entry]
        BY <2>6, <3>2, <4>2 DEF FinishVerification
      <4>. QED
        BY <2>3, <4>3, <4>4
    <3>. QED
      BY <3>1, <3>2
  <2>7. ASSUME NEW m \in Models, NEW status \in {"DISABLED", "RETIRED"}, Disable(m, status)
        PROVE  catalog'[n] # None /\ catalog[n].efforts \subseteq catalog'[n].efforts
    <3>1. catalog[m] \in Entry
      BY <2>1, <2>7 DEF Disable, CatalogTypeOK
    <3>2. PICK entry \in Entry : entry = [catalog[m] EXCEPT !.enabled = FALSE, !.status = status]
      BY <3>1 DEF Entry
    <3>3. entry.efforts = catalog[m].efforts
      BY <3>1, <3>2 DEF Entry
    <3>4. catalog' = [catalog EXCEPT ![m] = entry]
      BY <2>1, <2>7, <3>1, <3>2 DEF Disable, CatalogTypeOK, Entry
    <3>. QED
      BY <2>3, <3>3, <3>4
  <2>. QED
    BY <1>2, <2>4, <2>5, <2>6, <2>7 DEF CatalogNext, CatalogCommand, CatalogResult
<1>. QED
  BY <1>1, <1>2, CatalogFrame

\* So a pair that was offered once is offered for good, and an old catalog stays one.
LEMMA OfferedStays == ASSUME EffortsKept, NEW m \in Names, NEW e, Offered(m, e) PROVE Offered(m, e)'
BY DEF Offered, EffortsKept, Names

\* An older catalog stays one.
LEMMA OlderStays == ASSUME EffortsKept, NEW cat, Older(cat) PROVE Older(cat)'
BY DEF Older, EffortsKept

\* What is valid against an older catalog is offered by the one of now.
LEMMA OlderOffers == ASSUME NEW cat, Older(cat), NEW m \in Names, NEW e, ValidPair(cat, m, e) PROVE Offered(m, e)
BY DEF Older, Offered, ValidPair, Selectable, Names

-----------------------------------------------------------------------------
(* Layer 1: the pairs in the rows.                                         *)

SessionFields == {"kind", "patch", "step", "expected", "shown", "row", "catalog"}

\* A row has its columns and names models.
RowsInv ==
    /\ DOMAIN global = {"version", "paused", "inherited", "values"}
    /\ DOMAIN repository = {"version", "installed", "legacy", "values"}
    /\ global.values["model"] \in Names
    /\ repository.values["model"] \in Names

\* A session has a patch of its kind, and when it is ready to commit the patch a catalog.
SessionOK(a) ==
    /\ DOMAIN a = SessionFields
    /\ a.kind \in Pages \cup Commands
    /\ a.patch \in Patches(a.kind)
    /\ a.step = "ready" /\ a.kind # "queue" => Older(a.catalog)
    /\ a.step \in {"open", "read", "ready"}
    /\ a.kind = "queue" => a.step = "ready"
SessionsInv == DOMAIN session = Sessions /\ \A s \in Sessions : session[s] # None => SessionOK(session[s])

RowsOffered ==
    /\ "global" \notin overtaken => Offered(global.values["model"], global.values["effort"])
    /\ "repository" \notin overtaken => Offered(repository.values["model"], EffortOr(repository.values["effort"]))

\* The values after a write that was based on a row with the same values.
LEMMA Overlaid ==
    ASSUME NEW patch, NEW row, NEW now, row.values = now.values, NEW f \in {"model", "effort"}
    PROVE  Overlay(patch, row, now)[f] = Given(patch, f, row.values[f])
BY DEF Overlay, Dirty, Given, GlobalFields

\* A write leaves a name of a model in the row.
LEMMA OverlaidNames ==
    ASSUME NEW patch, NEW row, NEW now, now.values["model"] \in Names,
           "model" \in DOMAIN patch => patch["model"] \in Names
    PROVE  Overlay(patch, row, now)["model"] \in Names
BY DEF Overlay, Dirty, GlobalFields

\* What may be submitted names models.
LEMMA PatchNames ==
    ASSUME NEW kind \in Pages \cup Commands, NEW patch \in Patches(kind)
    PROVE  "model" \in DOMAIN patch => patch["model"] \in Names
<1>1. CASE kind \in {"repository_page", "settings_page", "set_default"}
  <2>1. patch \in GlobalPatches \cup RepositoryPatches
    BY <1>1 DEF Patches
  <2>2. Sets(patch, {None})
    BY <2>1, PatchAssumption DEF Sets
  <2>3. Column("model") = {None} \cup Models /\ "model" \in GlobalFields
    BY DEF Column, Switches, GlobalFields
  <2>. QED
    BY <2>2, <2>3 DEF Sets, Names
<1>2. CASE kind \in {"queue", "operations_page"}
  <2>1. Patches(kind) = [{"paused"} -> BOOLEAN]
    BY <1>2, Zenon DEF Patches
  <2>2. DOMAIN patch = {"paused"}
    BY <2>1
  <2>. QED
    BY <2>2
<1>. QED
  BY <1>1, <1>2 DEF Pages, Commands

\* A write by a form or a command: its row may be an older one.
LEMMA GlobalWrite ==
    ASSUME RowsInv, NEW patch, NEW row, NEW cat, Older(cat),
           "model" \in DOMAIN patch => patch["model"] \in Names,
           GlobalPatchIsValid(patch, row, cat), global' = GlobalWritten(patch, row), global' # global
    PROVE  /\ DOMAIN global' = DOMAIN global
           /\ global'.values["model"] \in Names
           /\ row.values = global.values => Offered(global'.values["model"], global'.values["effort"])
<1>1. global' = [global EXCEPT
            !.values = Overlay(patch, row, global),
            !.inherited = IF Inheritance(patch, row) # row.inherited THEN Inheritance(patch, row) ELSE @,
            !.version = row.version + 1]
  BY DEF GlobalWritten
<1>2. global'.values = Overlay(patch, row, global) /\ DOMAIN global' = DOMAIN global
  BY <1>1 DEF RowsInv
<1>3. global'.values["model"] \in Names
  BY <1>2, OverlaidNames DEF RowsInv
<1>4. ASSUME row.values = global.values PROVE Offered(global'.values["model"], global'.values["effort"])
  <2>1. /\ global'.values["model"] = Given(patch, "model", row.values["model"])
        /\ global'.values["effort"] = Given(patch, "effort", row.values["effort"])
    BY <1>2, <1>4, Overlaid
  <2>2. ValidPair(cat, global'.values["model"], global'.values["effort"])
    BY <2>1 DEF GlobalPatchIsValid
  <2>. QED
    BY <1>3, <2>2, OlderOffers
<1>. QED
  BY <1>2, <1>3, <1>4

\* The page of a repository stores an offered pair, if it has read the values that are
\* still stored.
LEMMA RepositoryWrite ==
    ASSUME RowsInv, NEW patch, NEW row, NEW cat, Older(cat),
           "model" \in DOMAIN patch => patch["model"] \in Names,
           RepositoryPatchIsValid(patch, row, cat), repository' = RepositoryWritten(patch, row), repository' # repository
    PROVE  /\ DOMAIN repository' = DOMAIN repository
           /\ repository'.values["model"] \in Names
           /\ row.values = repository.values =>
                 Offered(repository'.values["model"], EffortOr(repository'.values["effort"]))
<1>. DEFINE old == [f \in {"enabled", "auto"} |-> IF Projected(patch, row, f) THEN patch[f] ELSE repository.legacy[f]]
<1>1. repository' = [repository EXCEPT
            !.values = Overlay(patch, row, repository), !.legacy = old, !.version = row.version + 1]
  BY DEF RepositoryWritten
<1>. HIDE DEF old
<1>2. repository'.values = Overlay(patch, row, repository) /\ DOMAIN repository' = DOMAIN repository
  BY <1>1 DEF RowsInv
<1>3. repository'.values["model"] \in Names
  BY <1>2, OverlaidNames DEF RowsInv
<1>4. ASSUME row.values = repository.values
      PROVE  Offered(repository'.values["model"], EffortOr(repository'.values["effort"]))
  <2>1. /\ repository'.values["model"] = Given(patch, "model", row.values["model"])
        /\ repository'.values["effort"] = Given(patch, "effort", row.values["effort"])
    BY <1>2, <1>4, Overlaid
  <2>2. ValidPair(cat, repository'.values["model"], EffortOr(repository'.values["effort"]))
    BY <2>1 DEF RepositoryPatchIsValid
  <2>. QED
    BY <1>3, <2>2, OlderOffers
<1>. QED
  BY <1>2, <1>3, <1>4

\* The rows keep what they had when a step leaves their values alone.
ValuesKept ==
    /\ DOMAIN global' = DOMAIN global /\ global'.values = global.values
    /\ DOMAIN repository' = DOMAIN repository /\ repository'.values = repository.values
    /\ overtaken \subseteq overtaken'

\* Rows that are left alone keep what they have.
LEMMA RowsLeft ==
    ASSUME RowsInv, RowsOffered, EffortsKept, ValuesKept
    PROVE  RowsInv' /\ RowsOffered'
<1>1. RowsInv'
  BY DEF RowsInv, ValuesKept
<1>2. /\ Offered(global.values["model"], global.values["effort"])
          => Offered(global.values["model"], global.values["effort"])'
      /\ Offered(repository.values["model"], EffortOr(repository.values["effort"]))
          => Offered(repository.values["model"], EffortOr(repository.values["effort"]))'
  <2>1. PICK m, e : m = global.values["model"] /\ e = global.values["effort"]
    OBVIOUS
  <2>2. PICK n, f : n = repository.values["model"] /\ f = EffortOr(repository.values["effort"])
    OBVIOUS
  <2>3. m = global'.values["model"] /\ e = global'.values["effort"] /\ m \in Names
    BY <2>1 DEF ValuesKept, RowsInv
  <2>4. n = repository'.values["model"] /\ f = EffortOr(repository'.values["effort"]) /\ n \in Names
    BY <2>2 DEF ValuesKept, RowsInv
  <2>. QED
    BY <2>1, <2>2, <2>3, <2>4, OfferedStays
<1>. QED
  BY <1>1, <1>2 DEF RowsOffered, ValuesKept

PairInv == RowsInv /\ SessionsInv /\ RowsOffered

\* A session that begins or reads on: the rows stay.
LEMMA SessionReads ==
    ASSUME PairInv, EffortsKept, ValuesKept, NEW s \in Sessions, NEW new, SessionOK(new),
           session' = [session EXCEPT ![s] = new], UNCHANGED models
    PROVE  PairInv'
<1>1. \A t \in Sessions : session'[t] = IF t = s THEN new ELSE session[t]
  BY DEF PairInv, SessionsInv
<1>2. \A a : SessionOK(a) => SessionOK(a)'
  BY OlderStays DEF SessionOK, Patches
<1>3. SessionsInv'
  BY <1>1, <1>2 DEF PairInv, SessionsInv
<1>. QED
  BY <1>3, RowsLeft DEF PairInv

\* A session that opens or reads has read a row and a catalog that are stored now.
LEMMA ReadsStep ==
    ASSUME PairInv, EffortsKept, NEW s \in Sessions,
           \/ \E kind \in Pages \cup Commands : PolicyStart(s, kind)
           \/ ReadRow(s) \/ ReadCatalog(s)
    PROVE  PairInv'
<1>1. ValuesKept /\ UNCHANGED models
  BY DEF PolicyStart, Open, Command, ReadRow, ReadCatalog, settings, models, ValuesKept
<1>2. ASSUME NEW kind \in Pages \cup Commands, PolicyStart(s, kind) PROVE PairInv'
  <2>1. PICK patch \in Patches(kind) : Open(s, kind, patch) \/ Command(s, kind, patch)
    BY <1>2 DEF PolicyStart
  <2>2. CASE Open(s, kind, patch)
    <3>1. PICK new : new = [kind |-> kind, patch |-> patch, step |-> "open", expected |-> Row(kind).version,
                            shown |-> Row(kind), row |-> None, catalog |-> None]
      OBVIOUS
    <3>2. SessionOK(new)
      BY <2>2, <3>1 DEF SessionOK, SessionFields, Open, Pages, Commands
    <3>3. session' = [session EXCEPT ![s] = new]
      BY <2>2, <3>1 DEF Open
    <3>. QED
      BY <1>1, <3>2, <3>3, SessionReads
  <2>3. CASE Command(s, kind, patch)
    <3>1. PICK new : new = [kind |-> kind, patch |-> patch, step |-> IF kind = "queue" THEN "ready" ELSE "read",
                            expected |-> global.version, shown |-> global, row |-> global, catalog |-> None]
      OBVIOUS
    <3>2. SessionOK(new)
      BY <2>3, <3>1 DEF SessionOK, SessionFields, Command, Pages, Commands
    <3>3. session' = [session EXCEPT ![s] = new]
      BY <2>3, <3>1 DEF Command
    <3>. QED
      BY <1>1, <3>2, <3>3, SessionReads
  <2>. QED
    BY <2>1, <2>2, <2>3
<1>3. CASE ReadRow(s)
  <2>1. SessionOK(session[s])
    BY <1>3 DEF ReadRow, PairInv, SessionsInv
  <2>2. PICK new : new = [session[s] EXCEPT !.row = repository, !.step = "read"]
    OBVIOUS
  <2>3. SessionOK(new)
    BY <1>3, <2>1, <2>2 DEF SessionOK, SessionFields, ReadRow
  <2>4. session' = [session EXCEPT ![s] = new]
    BY <1>3, <2>1, <2>2 DEF ReadRow, PairInv, SessionsInv, SessionOK, SessionFields
  <2>. QED
    BY <1>1, <2>3, <2>4, SessionReads
<1>4. CASE ReadCatalog(s)
  <2>1. SessionOK(session[s])
    BY <1>4 DEF ReadCatalog, PairInv, SessionsInv
  <2>2. PICK new : new = [session[s] EXCEPT !.catalog = catalog, !.step = "ready"]
    OBVIOUS
  <2>3. SessionOK(new)
    BY <1>4, <2>1, <2>2 DEF SessionOK, SessionFields, ReadCatalog, Older
  <2>4. session' = [session EXCEPT ![s] = new]
    BY <1>4, <2>1, <2>2 DEF ReadCatalog, PairInv, SessionsInv, SessionOK, SessionFields
  <2>. QED
    BY <1>1, <2>3, <2>4, SessionReads
<1>. QED
  BY <1>2, <1>3, <1>4

\* A session that ends writes a row that it has read, or it is noted as overtaken.
LEMMA CommitStep ==
    ASSUME PairInv, EffortsKept, NEW s \in Sessions, Commit(s)
    PROVE  PairInv'
<1>1. SessionOK(session[s]) /\ UNCHANGED models
  BY DEF Commit, PairInv, SessionsInv
<1>2. SessionsInv'
  <2>1. \A t \in Sessions : session'[t] = IF t = s THEN None ELSE session[t]
    BY DEF Commit, PairInv, SessionsInv
  <2>2. \A a : SessionOK(a) => SessionOK(a)'
    BY OlderStays DEF SessionOK, Patches
  <2>3. DOMAIN session' = Sessions
    BY DEF Commit, PairInv, SessionsInv
  <2>. QED
    BY <2>1, <2>2, <2>3 DEF PairInv, SessionsInv
<1>. DEFINE kind == session[s].kind
            patch == session[s].patch
            row == Locked(s)
            old == SameForForm(row, Row(kind))
<1>3. overtaken \subseteq overtaken'
  BY DEF Commit
<1>4. CASE UNCHANGED settings
  <2>1. ValuesKept
    BY <1>3, <1>4 DEF ValuesKept, settings
  <2>. QED
    BY <1>2, <2>1, RowsLeft DEF PairInv
<1>5. CASE settings' # settings
  <2>0. "model" \in DOMAIN patch => patch["model"] \in Names
    BY <1>1, PatchNames DEF SessionOK
  <2>1. Accepted(s)
    BY <1>5 DEF Commit
  <2>2. kind \in {"operations_page", "queue"} \/ Older(session[s].catalog)
    BY <1>1 DEF Commit, SessionOK, Pages, Commands
  <2>3. ~old => (IF kind = "repository_page" THEN "repository" ELSE "global") \in overtaken'
    BY <1>5 DEF Commit
  <2>4. CASE kind = "repository_page"
    <3>1. global' = global /\ repository' = RepositoryWritten(patch, row)
      BY <2>1, <2>4 DEF Commit
    <3>2. repository' # repository
      BY <1>5, <3>1 DEF settings
    <3>3. RepositoryPatchIsValid(patch, row, session[s].catalog)
      BY <2>1, <2>4 DEF Accepted, PatchIsValid
    <3>. HIDE DEF row, patch
    <3>4. /\ DOMAIN repository' = DOMAIN repository
          /\ repository'.values["model"] \in Names
          /\ row.values = repository.values =>
                Offered(repository'.values["model"], EffortOr(repository'.values["effort"]))
      BY <2>0, <2>1, <2>2, <2>4, <3>1, <3>2, <3>3, RepositoryWrite DEF PairInv
    <3>5. "repository" \notin overtaken' => row.values = repository.values
      BY <2>3, <2>4 DEF SameForForm, Row
    <3>6. RowsInv'
      BY <3>1, <3>4 DEF PairInv, RowsInv
    <3>7. RowsOffered'
      BY <1>3, <3>1, <3>4, <3>5, <1>1 DEF PairInv, RowsOffered, Offered, models
    <3>. QED
      BY <1>2, <3>6, <3>7 DEF PairInv
  <2>5. CASE kind \in {"operations_page", "queue"}
    <3>1. global' = PausedWritten(patch["paused"], row) /\ repository' = repository
      BY <2>1, <2>5 DEF Commit
    <3>2. ValuesKept
      BY <1>3, <3>1 DEF ValuesKept, PausedWritten, PairInv, RowsInv
    <3>. QED
      BY <1>2, <3>2, RowsLeft DEF PairInv
  <2>6. CASE kind \in {"settings_page", "set_default"}
    <3>1. global' = GlobalWritten(patch, row) /\ repository' = repository
      BY <2>1, <2>6 DEF Commit
    <3>2. global' # global
      BY <1>5, <3>1 DEF settings
    <3>3. GlobalPatchIsValid(patch, row, session[s].catalog)
      BY <2>1, <2>6 DEF Accepted, PatchIsValid
    <3>. HIDE DEF row, patch
    <3>4. /\ DOMAIN global' = DOMAIN global
          /\ global'.values["model"] \in Names
          /\ row.values = global.values => Offered(global'.values["model"], global'.values["effort"])
      BY <2>0, <2>1, <2>2, <2>6, <3>1, <3>2, <3>3, GlobalWrite DEF PairInv
    <3>5. "global" \notin overtaken' => row.values = global.values
      BY <2>3, <2>6 DEF SameForForm, Row
    <3>6. RowsInv'
      BY <3>1, <3>4 DEF PairInv, RowsInv
    <3>7. RowsOffered'
      BY <1>3, <3>1, <3>4, <3>5, <1>1 DEF PairInv, RowsOffered, Offered, models
    <3>. QED
      BY <1>2, <3>6, <3>7 DEF PairInv
  <2>. QED
    BY <1>1, <2>4, <2>5, <2>6 DEF SessionOK, Pages, Commands
<1>. QED
  BY <1>4, <1>5

SessionAction(s) ==
    \/ \E kind \in Pages \cup Commands : PolicyStart(s, kind)
    \/ ReadRow(s) \/ ReadCatalog(s) \/ Commit(s)

\* Deliveries and operators change whether a repository is installed, and no more.
LEMMA ValuesFrame ==
    ASSUME RowsInv, [Next]_vars
    PROVE  (\E s \in Sessions : SessionAction(s)) \/ (ValuesKept /\ UNCHANGED session)
<1>. USE DEF policyVars, settings
<1>1. ASSUME UNCHANGED <<settings, session, overtaken>> PROVE ValuesKept /\ UNCHANGED session
  BY <1>1 DEF ValuesKept
<1>2. ASSUME NEW access \in BOOLEAN, NEW legacy, UNCHANGED <<global, session, overtaken>>,
             \/ repository' = [repository EXCEPT !.installed = access]
             \/ repository' = [repository EXCEPT !.installed = access, !.legacy = legacy]
      PROVE  ValuesKept /\ UNCHANGED session
  BY <1>2 DEF ValuesKept, RowsInv
<1>3. CASE Administration
  <2>1. \A s : s \in OneOf({t \in Sessions : session[t] = None}) => s \in Sessions
    BY DEF OneOf
  <2>2. CASE Reconcile
    BY <1>2, <2>2 DEF Reconcile
  <2>3. CASE UNCHANGED <<settings, session, overtaken>>
    BY <1>1, <2>3
  <2>4. CASE \E s \in Sessions : SessionAction(s)
    BY <2>4
  <2>5. PolicySteps => \E s \in Sessions : SessionAction(s)
    BY DEF PolicySteps, SessionAction
  <2>6. ASSUME NEW s \in OneOf({t \in Sessions : session[t] = None}), NEW kind \in Pages \cup Commands, PolicyStart(s, kind)
        PROVE  \E t \in Sessions : SessionAction(t)
    BY <2>1, <2>6 DEF SessionAction
  <2>. QED
    BY <1>3, <2>2, <2>3, <2>4, <2>5, <2>6 DEF Administration
<1>4. CASE Sending
  BY <1>1, <1>4 DEF Sending, Receive, Redeliver, GitHubFails, HandlerEnds, Push
<1>5. CASE Handling
  <2>1. PICK h \in Handlers : HandlerStep(h) \/ IgnoreSender(h)
    BY <1>5 DEF Handling
  <2>2. CASE Suspend(h)
    BY <1>2, <2>2 DEF Suspend
  <2>3. CASE Restore(h)
    BY <1>2, <2>3 DEF Restore
  <2>4. CASE ~Suspend(h) /\ ~Restore(h)
    BY <1>1, <2>1, <2>4 DEF HandlerStep, IgnoreSender, Reserve, ReadPolicy, PullRequest, Checks, Notice, Post,
                            Enqueue, List, Finished
  <2>. QED
    BY <2>2, <2>3, <2>4
<1>6. CASE Reviewing
  BY <1>1, <1>6 DEF Reviewing
<1>7. CASE Watching
  BY <1>1, <1>7 DEF Watching, Recover, StalePending
<1>8. CASE \E j \in DOMAIN jobs : Working(j)
  BY <1>1, <1>8 DEF Working, Starting, Ending, Start, EndReview, Claim, Tell
<1>9. CASE UNCHANGED vars
  BY <1>1, <1>9 DEF vars
<1>. QED
  BY <1>3, <1>4, <1>5, <1>6, <1>7, <1>8, <1>9 DEF Next

\* Every step keeps the rows, the sessions and the stored pairs as they should be.
LEMMA PairInvStep == ASSUME CatalogInv, PairInv, [Next]_vars PROVE PairInv'
<1>1. EffortsKept
  BY EffortsGrow
<1>2. ASSUME NEW s \in Sessions, SessionAction(s) PROVE PairInv'
  BY <1>1, <1>2, ReadsStep, CommitStep DEF SessionAction
<1>3. CASE ValuesKept /\ UNCHANGED session
  <2>1. \A a : SessionOK(a) => SessionOK(a)'
    BY <1>1, OlderStays DEF SessionOK, Patches
  <2>2. SessionsInv'
    BY <1>3, <2>1 DEF PairInv, SessionsInv
  <2>. QED
    BY <1>1, <1>3, <2>2, RowsLeft DEF PairInv
<1>. QED
  BY <1>2, <1>3, ValuesFrame DEF PairInv

\* A pair that was verified before is offered at first.
LEMMA SeededOffered ==
    ASSUME CatalogInit, NEW m, NEW e, SeededPair(m, e)
    PROVE  m \in Names /\ Offered(m, e)
<1>1. CASE m = None
  BY <1>1 DEF Names, Offered
<1>2. CASE m # None
  <2>1. m \in Models /\ e \in Seeded[m]
    BY <1>2 DEF SeededPair
  <2>2. catalog[m] = Verified(Seeded[m])
    BY <2>1 DEF CatalogInit
  <2>3. Verified(Seeded[m]) \in Entry
    BY <2>1, CatalogAssumption DEF Verified, Entry
  <2>4. Verified(Seeded[m]).efforts = Seeded[m]
    BY DEF Verified
  <2>. QED
    BY <2>1, <2>2, <2>3, <2>4, CatalogAssumption DEF Names, Offered
<1>. QED
  BY <1>1, <1>2

\* The rows of a case were accepted by forms.
LEMMA PairInvInit == Init => PairInv
<1>. SUFFICES ASSUME Init PROVE PairInv
  OBVIOUS
<1>1. CatalogInit /\ PolicyInit(case.global, case.repository) /\ case \in Cases
  BY DEF Init, PolicyInit
<1>2. /\ global.values = Overlay(case.global, DefaultGlobal, DefaultGlobal)
      /\ DOMAIN global = {"version", "paused", "inherited", "values"}
  BY <1>1 DEF PolicyInit, DefaultGlobal
<1>3. /\ repository.values = Overlay(case.repository, DefaultRepository, DefaultRepository)
      /\ DOMAIN repository = {"version", "installed", "legacy", "values"}
  BY <1>1 DEF PolicyInit, DefaultRepository
<1>4. /\ SeededPair(global.values["model"], global.values["effort"])
      /\ SeededPair(repository.values["model"], EffortOr(repository.values["effort"]))
  BY <1>1, <1>2, <1>3, CasesAssumption
<1>5. RowsInv /\ RowsOffered
  BY <1>1, <1>2, <1>3, <1>4, SeededOffered DEF RowsInv, RowsOffered
<1>6. SessionsInv
  BY <1>1 DEF PolicyInit, SessionsInv
<1>. QED
  BY <1>5, <1>6 DEF PairInv

\* The invariant of the rows and sessions.
LEMMA PairInvariant == Spec => [](CatalogInv /\ PairInv)
<1>1. CatalogInv /\ PairInv /\ [Next]_vars => PairInv'
  BY PairInvStep
<1>. QED
  BY <1>1, PairInvInit, CatalogInvariant, PTL DEF Spec

\* Whoever wrote the model and the effort of a row, and when: they are a verified pair,
\* unless a session wrote the row from an older reading.
THEOREM StoredPairIsVerifiedHolds == Spec => []StoredPairIsVerified
<1>1. PairInv => StoredPairIsVerified
  BY DEF PairInv, RowsOffered, Offered, StoredPairIsVerified
<1>. QED
  BY <1>1, PairInvariant, PTL

-----------------------------------------------------------------------------
(* Layer 2: the pairs in the jobs.                                         *)

Carries(r) == r.model \in Names /\ Offered(r.model, r.effort)

\* What a request or a job carries was verified.
CarriedInv ==
    /\ \A h \in Handlers : handler[h] # None => Carries(handler[h])
    /\ \A j \in DOMAIN jobs : Carries(jobs[j])

\* What a request or a job carries stays offered.
LEMMA CarriesStays == ASSUME EffortsKept, NEW r, Carries(r) PROVE Carries(r)'
BY OfferedStays DEF Carries

\* A request gets its pair from the policy, and carries it from there.
LEMMA RequestCarries ==
    ASSUME NEW V, Typed(V), RowsInv, EffortsKept, NEW h \in Handlers, HandlerAction(h), handler'[h] # None,
           handler[h] # None => Carries(handler[h])
    PROVE  Carries(handler[h])'
<1>. DEFINE Same == /\ handler[h] # None
                    /\ handler'[h].model = handler[h].model /\ handler'[h].effort = handler[h].effort
<1>1. ASSUME Same PROVE Carries(handler[h])'
  <2>1. PICK m, e : m \in Names /\ m = handler[h].model /\ e = handler[h].effort /\ Offered(m, e)
    BY <1>1 DEF Carries
  <2>2. Offered(m, e)'
    BY <2>1, OfferedStays
  <2>. QED
    BY <1>1, <2>1, <2>2 DEF Carries
<1>2. ASSUME handler'[h].model = None PROVE Carries(handler[h])'
  BY <1>2 DEF Carries, Names, Offered
<1>3. ~\E status : Finish(h, status)
  BY DEF Finish, Typed, Requests
<1>4. CASE \E d \in Deliveries, event \in Events, at \in Heads : Receive(h, d, event, at)
  BY <1>2, <1>4 DEF Receive, Request, Typed, Requests
<1>5. CASE \E d \in Deliveries : Redeliver(h, d)
  BY <1>2, <1>5 DEF Redeliver, Request, Typed, Requests
<1>6. ~HandlerEnds(h)
  BY DEF HandlerEnds, Typed, Requests
<1>7. ~GitHubFails(h) /\ ~IgnoreSender(h) /\ ~Finished(h)
  BY <1>3 DEF GitHubFails, IgnoreSender, Finished
<1>8. ASSUME NEW step, handler[h] # None, Continue(h, step) PROVE Same
  BY <1>8, RequestAt DEF Continue, Typed, Requests, RequestOf
<1>9. CASE Reserve(h) \/ List(h)
  BY <1>1, <1>8, <1>9 DEF Reserve, List, At
<1>10. CASE ReadPolicy(h)
  <2>1. /\ Resolvable(catalog, global, repository)
        /\ handler' = [handler EXCEPT
                 ![h].step = IF Event(h) = "command" THEN "pull" ELSE "enqueue",
                 ![h].model = Chosen(global, repository, "model"),
                 ![h].effort = Chosen(global, repository, "effort")]
    BY <1>3, <1>10 DEF ReadPolicy
  <2>2. PICK m, e : m = Chosen(global, repository, "model") /\ e = Chosen(global, repository, "effort")
    OBVIOUS
  <2>3. m \in Names
    BY <2>2 DEF Chosen, RowsInv, Quality
  <2>4. ValidPair(catalog, m, e) /\ Older(catalog)
    BY <2>1, <2>2 DEF Resolvable, Older
  <2>5. Offered(m, e)'
    BY <2>3, <2>4, OlderOffers, OfferedStays
  <2>6. handler[h] \in RequestOf(V)
    BY <1>10, RequestAt DEF ReadPolicy, At
  <2>7. handler'[h].model = m /\ handler'[h].effort = e
    BY <2>1, <2>2, <2>6 DEF Typed, Requests, RequestOf
  <2>. QED
    BY <2>3, <2>5, <2>7 DEF Carries
<1>11. CASE PullRequest(h)
  BY <1>1, <1>11, RequestAt DEF PullRequest, At, Typed, Requests, RequestOf
<1>12. CASE Checks(h)
  <2>1. ASSUME NEW code, handler' = [handler EXCEPT ![h].step = "notice", ![h].code = code] PROVE Same
    BY <1>12, <2>1, RequestAt DEF Checks, At, Typed, Requests, RequestOf
  <2>2. ASSUME handler' = [handler EXCEPT ![h].step = "enqueue"] PROVE Same
    BY <1>12, <2>2, RequestAt DEF Checks, At, Typed, Requests, RequestOf
  <2>. QED
    BY <1>1, <1>12, <2>1, <2>2 DEF Checks
<1>13. CASE Notice(h)
  BY <1>1, <1>3, <1>8, <1>13 DEF Notice, At
<1>14. ASSUME handler[h] # None, NEW result, handler' = [handler EXCEPT ![h].step = "finish", ![h].result = result]
       PROVE  Same
  BY <1>14, RequestAt DEF Typed, Requests, RequestOf
<1>15. CASE Post(h) \/ Suspend(h) \/ Restore(h)
  BY <1>1, <1>14, <1>15 DEF Post, Suspend, Restore, At
<1>16. CASE Enqueue(h)
  BY <1>1, <1>3, <1>14, <1>16 DEF Enqueue, At
<1>. QED
  BY <1>4, <1>5, <1>6, <1>7, <1>9, <1>10, <1>11, <1>12, <1>13, <1>15, <1>16 DEF HandlerAction, HandlerStep

\* A job keeps the pair it was made with.
PairsKept == \A j \in DOMAIN jobs : jobs'[j].model = jobs[j].model /\ jobs'[j].effort = jobs[j].effort

\* A job that is there keeps its pair.
LEMMA JobsCarry ==
    ASSUME NEW V, Typed(V), [Next]_vars, DeliveryInv
    PROVE  PairsKept
<1>1. jobs \in Seq(JobOf(V))
  BY DEF Typed
<1>2. \A j \in DOMAIN jobs : jobs[j] \in JobOf(V)
  <2>. HIDE DEF JobOf
  <2>. QED
    BY <1>1
<1>3. CASE UNCHANGED jobs
  BY <1>3 DEF PairsKept
<1>4. ASSUME NEW h \in Handlers, HandlerAction(h), jobs' # jobs PROVE PairsKept
  <2>1. jobs' = WithJob(h)
    BY <1>4 DEF HandlerAction, Receive, Redeliver, GitHubFails, HandlerEnds, IgnoreSender, HandlerStep, Reserve,
                ReadPolicy, PullRequest, Checks, Notice, Post, Suspend, List, Restore, Finished, Enqueue
  <2>. DEFINE others == [j \in DOMAIN jobs |->
              IF Superseded(h, jobs[j]) THEN [jobs[j] EXCEPT !.status = "SKIPPED"] ELSE jobs[j]]
  <2>2. \A j \in DOMAIN jobs : /\ others[j] \in JobOf(V)
                               /\ others[j].model = jobs[j].model /\ others[j].effort = jobs[j].effort
    BY <1>2 DEF JobOf
  <2>3. DOMAIN jobs = 1..Len(jobs) /\ Len(jobs) \in Nat
    BY <1>1
  <2>4. others \in Seq(JobOf(V)) /\ Len(others) = Len(jobs)
    <3>1. others \in [1..Len(jobs) -> JobOf(V)]
      BY <2>2, <2>3
    <3>. HIDE DEF others, JobOf
    <3>. QED
      BY <2>3, <3>1
  <2>5. jobs' = Append(others, NewJob(h))
    BY <2>1 DEF WithJob
  <2>. HIDE DEF others, JobOf
  <2>6. \A j \in DOMAIN jobs : jobs'[j] = others[j]
    BY <2>3, <2>4, <2>5
  <2>. QED
    BY <2>2, <2>6 DEF PairsKept
<1>5. ASSUME NEW j \in DOMAIN jobs, JobAction(j) PROVE PairsKept
  <2>1. ASSUME NEW job, job.model = jobs[j].model, job.effort = jobs[j].effort, jobs' = [jobs EXCEPT ![j] = job]
        PROVE  PairsKept
    <3>. HIDE DEF JobOf
    <3>. QED
      BY <1>1, <2>1 DEF PairsKept
  <2>2. ASSUME NEW status, jobs' = [jobs EXCEPT ![j].status = status] PROVE PairsKept
    <3>1. PICK job : job = [jobs[j] EXCEPT !.status = status]
      OBVIOUS
    <3>. QED
      BY <1>2, <2>1, <2>2, <3>1 DEF JobOf
  <2>3. ASSUME NEW untold, jobs' = [jobs EXCEPT ![j].untold = untold] PROVE PairsKept
    <3>1. PICK job : job = [jobs[j] EXCEPT !.untold = untold]
      OBVIOUS
    <3>. QED
      BY <1>2, <2>1, <2>3, <3>1 DEF JobOf
  <2>4. ASSUME NEW status, NEW untold, jobs' = [jobs EXCEPT ![j].status = status, ![j].untold = untold]
        PROVE  PairsKept
    <3>1. PICK job : job = [jobs[j] EXCEPT !.status = status, !.untold = untold]
      OBVIOUS
    <3>2. jobs' = [jobs EXCEPT ![j] = job]
      BY <1>1, <1>2, <2>4, <3>1 DEF JobOf
    <3>. QED
      BY <1>2, <2>1, <3>1, <3>2 DEF JobOf
  <2>5. CASE Claim(j) \/ StalePending(j)
    BY <2>2, <2>5 DEF Claim, StalePending, Job
  <2>6. CASE Start(j)
    BY <2>2, <2>4, <2>6 DEF Start
  <2>7. CASE Tell(j)
    BY <2>3, <2>7 DEF Tell
  <2>8. CASE \E status \in {"SUCCEEDED", "FAILED"} : EndReview(j, status)
    BY <2>4, <2>8, ZenonT(30) DEF EndReview
  <2>. QED
    BY <1>5, <2>5, <2>6, <2>7, <2>8 DEF JobAction
<1>6. ASSUME Push \/ \E d \in Deliveries : Recover(d) PROVE UNCHANGED jobs
  BY <1>6 DEF Push, Recover
<1>7. UNCHANGED webhooks => UNCHANGED jobs
  BY DEF webhooks
<1>. QED
  BY <1>3, <1>4, <1>5, <1>6, <1>7, WebhookFrame DEF WebhookAction

\* Steps that leave the requests alone, or all but one.
LEMMA CarriedLeft ==
    ASSUME EffortsKept, CarriedInv, PairsKept, DOMAIN jobs' = DOMAIN jobs,
           \A k \in Handlers : handler'[k] = handler[k] \/ (handler'[k] # None => Carries(handler[k])')
    PROVE  CarriedInv'
<1>1. \A h \in Handlers : handler'[h] # None => Carries(handler[h])'
  <2>. SUFFICES ASSUME NEW h \in Handlers, handler'[h] # None, handler'[h] = handler[h] PROVE Carries(handler[h])'
    OBVIOUS
  <2>1. PICK m, e : m \in Names /\ m = handler[h].model /\ e = handler[h].effort /\ Offered(m, e)
    BY DEF CarriedInv, Carries
  <2>2. Offered(m, e)'
    BY <2>1, OfferedStays
  <2>. QED
    BY <2>1, <2>2 DEF Carries
<1>2. \A j \in DOMAIN jobs : Carries(jobs[j])'
  <2>. SUFFICES ASSUME NEW j \in DOMAIN jobs PROVE Carries(jobs[j])'
    OBVIOUS
  <2>1. PICK m, e : m \in Names /\ m = jobs[j].model /\ e = jobs[j].effort /\ Offered(m, e)
    BY DEF CarriedInv, Carries
  <2>2. Offered(m, e)'
    BY <2>1, OfferedStays
  <2>. QED
    BY <2>1, <2>2 DEF Carries, PairsKept
<1>. QED
  BY <1>1, <1>2 DEF CarriedInv

\* Requests and jobs carry offered pairs, whatever step is taken.
LEMMA CarriedStep ==
    ASSUME CatalogInv, PairInv, DeliveryInv, CarriedInv, [Next]_vars
    PROVE  CarriedInv'
<1>1. PICK V : Typed(V) /\ {Chosen(global, repository, "model"), Chosen(global, repository, "effort")} \subseteq V
  BY NamesOfNow
<1>2. EffortsKept /\ PairsKept
  BY <1>1, EffortsGrow, JobsCarry
<1>3. \A k \in Handlers : handler'[k] = handler[k] \/ (handler'[k] # None => Carries(handler[k])')
  <2>1. ASSUME NEW h \in Handlers, HandlerAction(h)
        PROVE  \A k \in Handlers : handler'[k] = handler[k] \/ (handler'[k] # None => Carries(handler[k])')
    <3>1. handler'[h] # None => Carries(handler[h])'
      BY <1>1, <1>2, <2>1, RequestCarries DEF PairInv, CarriedInv
    <3>2. \A k \in Handlers \ {h} : handler'[k] = handler[k]
      BY <1>1, <2>1, HandlerDoes DEF DeliveryInv, RequestDoes
    <3>. QED
      BY <3>1, <3>2
  <2>2. ASSUME NEW j \in DOMAIN jobs, JobAction(j) PROVE UNCHANGED handler
    BY <2>2 DEF JobAction, Claim, Start, Tell, StalePending, EndReview
  <2>3. ASSUME Push \/ \E d \in Deliveries : Recover(d) PROVE UNCHANGED handler
    BY <2>3 DEF Push, Recover
  <2>4. UNCHANGED webhooks => UNCHANGED handler
    BY DEF webhooks
  <2>. QED
    BY <2>1, <2>2, <2>3, <2>4, WebhookFrame DEF WebhookAction
<1>4. CASE DOMAIN jobs' = DOMAIN jobs
  BY <1>2, <1>3, <1>4, CarriedLeft
<1>5. ASSUME NEW h \in Handlers, Enqueue(h), handler[h] # None,
             DOMAIN jobs' = DOMAIN jobs \cup {Len(jobs) + 1}, jobs'[Len(jobs) + 1] = NewJob(h)
      PROVE  CarriedInv'
  <2>1. \A k \in Handlers : handler'[k] # None => Carries(handler[k])'
    <3>. SUFFICES ASSUME NEW k \in Handlers, handler'[k] # None, handler'[k] = handler[k] PROVE Carries(handler[k])'
      BY <1>3
    <3>1. PICK m, e : m \in Names /\ m = handler[k].model /\ e = handler[k].effort /\ Offered(m, e)
      BY DEF CarriedInv, Carries
    <3>2. Offered(m, e)'
      BY <1>2, <3>1, OfferedStays
    <3>. QED
      BY <3>1, <3>2 DEF Carries
  <2>2. \A j \in DOMAIN jobs : Carries(jobs[j])'
    <3>. SUFFICES ASSUME NEW j \in DOMAIN jobs PROVE Carries(jobs[j])'
      OBVIOUS
    <3>1. PICK m, e : m \in Names /\ m = jobs[j].model /\ e = jobs[j].effort /\ Offered(m, e)
      BY DEF CarriedInv, Carries
    <3>2. Offered(m, e)'
      BY <1>2, <3>1, OfferedStays
    <3>. QED
      BY <1>2, <3>1, <3>2 DEF Carries, PairsKept
  <2>3. PICK new : new = Len(jobs) + 1
    OBVIOUS
  <2>4. Carries(jobs[new])'
    <3>1. PICK m, e : m \in Names /\ m = handler[h].model /\ e = handler[h].effort /\ Offered(m, e)
      BY <1>5 DEF CarriedInv, Carries
    <3>2. Offered(m, e)'
      BY <1>2, <3>1, OfferedStays
    <3>3. jobs'[new].model = m /\ jobs'[new].effort = e
      BY <1>5, <2>3, <3>1 DEF NewJob
    <3>. QED
      BY <3>1, <3>2, <3>3 DEF Carries
  <2>. QED
    BY <1>5, <2>1, <2>2, <2>3, <2>4 DEF CarriedInv
<1>. QED
  BY <1>4, <1>5, NewJobs

\* The invariant of the requests and jobs.
LEMMA CarriedInvariant == Spec => [](CatalogInv /\ PairInv /\ DeliveryInv /\ CarriedInv)
<1>1. Init => CarriedInv
  BY DEF Init, DeliveriesInit, CarriedInv
<1>2. CatalogInv /\ PairInv /\ DeliveryInv /\ CarriedInv /\ [Next]_vars => CarriedInv'
  BY CarriedStep
<1>. QED
  BY <1>1, <1>2, PairInvariant, DeliveryInvariant, PTL DEF Spec

\* The start of a review, of whichever job.
Starts ==
    \A j \in DOMAIN jobs :
        jobs[j].status = "RUNNING" /\ jobs'[j].status = "REVIEWING" =>
           ValidPair(catalog, jobs[j].model, jobs[j].effort)

\* The worker looks the model up again, and the effort is one of its efforts still.
LEMMA StartsStep == ASSUME DeliveryInv, CarriedInv, [Next]_vars PROVE Starts
<1>1. PICK V : Typed(V)
  BY DEF DeliveryInv
<1>2. \A j \in DOMAIN jobs : jobs[j] \in JobOf(V)
  <2>. HIDE DEF JobOf
  <2>. QED
    BY <1>1 DEF Typed
<1>. SUFFICES ASSUME NEW j \in DOMAIN jobs, jobs[j].status = "RUNNING", jobs'[j].status = "REVIEWING"
              PROVE  ValidPair(catalog, jobs[j].model, jobs[j].effort)
  BY DEF Starts
<1>3. ASSUME NEW i \in DOMAIN jobs, JobAction(i) PROVE ValidPair(catalog, jobs[j].model, jobs[j].effort)
  <2>1. ASSUME NEW job, jobs' = [jobs EXCEPT ![i] = job] PROVE jobs'[j] = IF j = i THEN job ELSE jobs[j]
    <3>1. jobs \in Seq(JobOf(V))
      BY <1>1 DEF Typed
    <3>. HIDE DEF JobOf
    <3>. QED
      BY <2>1, <3>1
  <2>2. ASSUME NEW status, jobs' = [jobs EXCEPT ![i].status = status] PROVE i = j /\ status = "REVIEWING"
    BY <1>2, <2>1, <2>2 DEF JobOf
  <2>3. ASSUME NEW status, NEW untold, jobs' = [jobs EXCEPT ![i].status = status, ![i].untold = untold]
        PROVE  i = j /\ status = "REVIEWING"
    <3>1. PICK job : job = [jobs[i] EXCEPT !.status = status, !.untold = untold]
      OBVIOUS
    <3>2. jobs' = [jobs EXCEPT ![i] = job]
      BY <1>1, <1>2, <2>3, <3>1 DEF JobOf, Typed
    <3>3. job.status = status
      BY <1>2, <3>1 DEF JobOf
    <3>. QED
      BY <2>1, <3>2, <3>3
  <2>4. ~Claim(i) /\ ~StalePending(i)
    BY <2>2 DEF Claim, StalePending, Job
  <2>5. ~Tell(i)
    BY <1>2, <2>1 DEF Tell, JobOf
  <2>6. \A status \in {"SUCCEEDED", "FAILED"} : ~EndReview(i, status)
    BY <2>3 DEF EndReview
  <2>7. CASE Start(i)
    <3>1. i = j /\ (jobs[i].model = None \/ Selectable(catalog, jobs[i].model))
      BY <2>2, <2>3, <2>7 DEF Start
    <3>2. Offered(jobs[j].model, jobs[j].effort)
      BY DEF CarriedInv, Carries
    <3>. QED
      BY <3>1, <3>2 DEF ValidPair, Offered
  <2>. QED
    BY <1>3, <2>4, <2>5, <2>6, <2>7 DEF JobAction
<1>4. ASSUME NEW h \in Handlers, HandlerAction(h) PROVE jobs'[j].status # "REVIEWING"
  <2>1. CASE UNCHANGED jobs
    BY <2>1
  <2>2. CASE jobs' # jobs
    <3>1. jobs' = WithJob(h)
      BY <1>4, <2>2 DEF HandlerAction, Receive, Redeliver, GitHubFails, HandlerEnds, IgnoreSender, HandlerStep, Reserve,
                  ReadPolicy, PullRequest, Checks, Notice, Post, Suspend, List, Restore, Finished, Enqueue
    <3>. DEFINE others == [k \in DOMAIN jobs |->
                IF Superseded(h, jobs[k]) THEN [jobs[k] EXCEPT !.status = "SKIPPED"] ELSE jobs[k]]
    <3>2. others[j].status \in {"SKIPPED", "RUNNING"}
      BY <1>2 DEF JobOf
    <3>3. jobs \in Seq(JobOf(V))
      BY <1>1 DEF Typed
    <3>4. \A k \in DOMAIN jobs : others[k] \in JobOf(V)
      BY <1>2 DEF JobOf, Active
    <3>5. jobs' = Append(others, NewJob(h))
      BY <3>1 DEF WithJob
    <3>6. DOMAIN jobs = 1..Len(jobs) /\ Len(jobs) \in Nat
      BY <3>3
    <3>7. others \in [1..Len(jobs) -> JobOf(V)]
      BY <3>4, <3>6
    <3>. HIDE DEF others, JobOf
    <3>8. others \in Seq(JobOf(V)) /\ Len(others) = Len(jobs)
      BY <3>6, <3>7
    <3>9. jobs'[j] = others[j]
      BY <3>5, <3>6, <3>8
    <3>. QED
      BY <3>2, <3>9
  <2>. QED
    BY <2>1, <2>2
<1>5. ASSUME Push \/ \E d \in Deliveries : Recover(d) PROVE UNCHANGED jobs
  BY <1>5 DEF Push, Recover
<1>6. UNCHANGED webhooks => UNCHANGED jobs
  BY DEF webhooks
<1>. QED
  BY <1>3, <1>4, <1>5, <1>6, WebhookFrame DEF WebhookAction

\* A review starts only with a model that is in use and an effort it was verified with.
THEOREM ReviewsUseVerifiedPairHolds == Spec => ReviewsUseVerifiedPair
<1>1. CatalogInv /\ PairInv /\ DeliveryInv /\ CarriedInv /\ [Next]_vars => [Starts]_jobs
  BY StartsStep
<1>2. [Starts]_jobs <=> [\A j \in DOMAIN jobs :
          jobs[j].status = "RUNNING" /\ jobs'[j].status = "REVIEWING" =>
             ValidPair(catalog, jobs[j].model, jobs[j].effort)]_jobs
  BY DEF Starts
<1>. QED
  BY <1>1, <1>2, CarriedInvariant, PTL DEF Spec, ReviewsUseVerifiedPair

-----------------------------------------------------------------------------
(* Layer 3: the versions of the rows.                                      *)

RowName(kind) == IF kind = "repository_page" THEN "repository" ELSE "global"

\* What was read of a row, and the row of now: the same version has the same values.
Seen(read, now) ==
    /\ read.version <= now.version
    /\ read.version = now.version => read.values = now.values

\* The old column of a repository is as it was, or was switched on since.
LegacyKept(read, now) == now.legacy["enabled"] = read.legacy["enabled"] \/ now.legacy["enabled"] = TRUE

\* An override of the switch is in the old column too, unless that was switched on
\* since.
LegacyFollows(row) ==
    \/ row.values["enabled"] = None
    \/ row.legacy["enabled"] = row.values["enabled"]
    \/ row.legacy["enabled"] = TRUE

\* A session expects the version it was shown, and has read its row no later than now.
ReadingOK(a) ==
    /\ a.expected = a.shown.version
    /\ a.shown.version \in Nat
    /\ a.row # None => a.row.version \in Nat
    /\ RowName(a.kind) \notin overtaken =>
          /\ Seen(a.shown, Row(a.kind))
          /\ a.row # None => Seen(a.row, Row(a.kind))
          /\ a.row # None /\ a.kind = "repository_page" /\ a.row.version = repository.version =>
                LegacyKept(a.row, repository)

SettingsInv ==
    /\ global.version \in Nat /\ repository.version \in Nat
    /\ repository.legacy["enabled"] \in BOOLEAN
    /\ "repository" \notin overtaken => LegacyFollows(repository)
    /\ \A s \in Sessions : session[s] # None => ReadingOK(session[s])

\* A row gets a higher version, or keeps its values, or is written from an older
\* reading.
GlobalMoves ==
    \/ "global" \in overtaken'
    \/ global'.version > global.version
    \/ global'.version = global.version /\ global'.values = global.values
RepositoryMoves ==
    \/ "repository" \in overtaken'
    \/ repository'.version > repository.version
    \/ /\ repository'.version = repository.version /\ repository'.values = repository.values
       /\ LegacyKept(repository, repository')
RowsMove ==
    /\ GlobalMoves /\ RepositoryMoves
    /\ overtaken \subseteq overtaken'
    /\ global'.version \in Nat /\ repository'.version \in Nat

\* What a session has read stays older than, or equal to, what is stored.
LEMMA ReadingStays ==
    ASSUME SettingsInv, RowsMove, NEW a, ReadingOK(a)
    PROVE  ReadingOK(a)'
<1>. USE DEF SettingsInv, RowsMove
<1>1. a.shown.version \in Nat /\ (a.row # None => a.row.version \in Nat)
  BY DEF ReadingOK
<1>2. CASE RowName(a.kind) \in overtaken'
  BY <1>1, <1>2 DEF ReadingOK
<1>3. CASE RowName(a.kind) \notin overtaken' /\ a.kind = "repository_page"
  <2>1. Row(a.kind) = repository /\ Row(a.kind)' = repository' /\ RowName(a.kind) = "repository"
    BY <1>3 DEF Row, RowName
  <2>2. /\ Seen(a.shown, repository)
        /\ a.row # None => Seen(a.row, repository)
        /\ a.row # None /\ a.row.version = repository.version => LegacyKept(a.row, repository)
    BY <1>3, <2>1 DEF ReadingOK
  <2>3. CASE repository'.version > repository.version
    BY <1>1, <1>3, <2>1, <2>2, <2>3 DEF ReadingOK, Seen
  <2>4. CASE /\ repository'.version = repository.version /\ repository'.values = repository.values
             /\ LegacyKept(repository, repository')
    BY <1>1, <1>3, <2>1, <2>2, <2>4 DEF ReadingOK, Seen, LegacyKept
  <2>. QED
    BY <1>3, <2>1, <2>3, <2>4 DEF RepositoryMoves
<1>4. CASE RowName(a.kind) \notin overtaken' /\ a.kind # "repository_page"
  <2>1. Row(a.kind) = global /\ Row(a.kind)' = global' /\ RowName(a.kind) = "global"
    BY <1>4 DEF Row, RowName
  <2>2. Seen(a.shown, global) /\ (a.row # None => Seen(a.row, global))
    BY <1>4, <2>1 DEF ReadingOK
  <2>3. CASE global'.version > global.version
    BY <1>1, <1>4, <2>1, <2>2, <2>3 DEF ReadingOK, Seen
  <2>4. CASE global'.version = global.version /\ global'.values = global.values
    BY <1>1, <1>4, <2>1, <2>2, <2>4 DEF ReadingOK, Seen
  <2>. QED
    BY <1>4, <2>1, <2>3, <2>4 DEF GlobalMoves
<1>. QED
  BY <1>2, <1>3, <1>4

\* So do the readings of all sessions, but one that begins, reads or ends.
LEMMA ReadingsStay ==
    ASSUME SettingsInv, RowsMove,
           \A s \in Sessions : session'[s] \in {session[s], None} \/ ReadingOK(session[s])'
    PROVE  \A s \in Sessions : session'[s] # None => ReadingOK(session[s])'
<1>. SUFFICES ASSUME NEW s \in Sessions, session'[s] # None, session'[s] = session[s]
              PROVE  ReadingOK(session[s])'
  OBVIOUS
<1>1. PICK a : a = session[s] /\ ReadingOK(a)
  BY DEF SettingsInv
<1>2. ReadingOK(a)'
  BY <1>1, ReadingStays
<1>3. a = session'[s]
  BY <1>1
<1>. QED
  BY <1>2, <1>3 DEF ReadingOK, Row, RowName

\* The rows of now, read now.
LEMMA ReadsNow ==
    ASSUME SettingsInv, NEW a, a.expected = a.shown.version,
           a.shown = Row(a.kind) \/ (a.shown.version \in Nat /\ (RowName(a.kind) \notin overtaken => Seen(a.shown, Row(a.kind)))),
           a.row = None \/ a.row = Row(a.kind)
    PROVE  ReadingOK(a)
<1>1. Row(a.kind).version \in Nat
  BY DEF Row, SettingsInv
<1>2. Seen(Row(a.kind), Row(a.kind))
  BY <1>1 DEF Seen
<1>3. a.kind = "repository_page" => LegacyKept(Row(a.kind), repository)
  BY DEF Row, LegacyKept
<1>. QED
  BY <1>1, <1>2, <1>3 DEF ReadingOK

\* A session that begins or reads on, while the rows stay.
LEMMA SettingsRead ==
    ASSUME PairInv, SettingsInv, NEW s \in Sessions, NEW new, ReadingOK(new),
           session' = [session EXCEPT ![s] = new], UNCHANGED <<global, repository, overtaken>>
    PROVE  SettingsInv'
<1>1. RowsMove
  BY DEF SettingsInv, RowsMove, GlobalMoves, RepositoryMoves, LegacyKept
<1>2. \A t \in Sessions : session'[t] = IF t = s THEN new ELSE session[t]
  BY DEF PairInv, SessionsInv
<1>3. ReadingOK(new)'
  BY <1>1, ReadingStays
<1>4. ReadingOK(session[s])'
  <2>1. new = session'[s]
    BY <1>2
  <2>. QED
    BY <1>3, <2>1 DEF ReadingOK, Row, RowName
<1>5. \A t \in Sessions : session'[t] # None => ReadingOK(session[t])'
  BY <1>1, <1>2, <1>4, ReadingsStay
<1>. QED
  BY <1>5 DEF SettingsInv, LegacyFollows

\* Pages and commands begin with the row of now, and a page may read it again.
LEMMA SettingsReads ==
    ASSUME PairInv, SettingsInv, NEW s \in Sessions,
           \/ \E kind \in Pages \cup Commands : PolicyStart(s, kind)
           \/ ReadRow(s) \/ ReadCatalog(s)
    PROVE  SettingsInv'
<1>1. UNCHANGED <<global, repository, overtaken>>
  BY DEF PolicyStart, Open, Command, ReadRow, ReadCatalog, settings
<1>2. ASSUME NEW kind \in Pages \cup Commands, PolicyStart(s, kind) PROVE SettingsInv'
  <2>1. PICK patch \in Patches(kind) : Open(s, kind, patch) \/ Command(s, kind, patch)
    BY <1>2 DEF PolicyStart
  <2>2. CASE Open(s, kind, patch)
    <3>1. PICK new : new = [kind |-> kind, patch |-> patch, step |-> "open", expected |-> Row(kind).version,
                            shown |-> Row(kind), row |-> None, catalog |-> None]
      OBVIOUS
    <3>2. ReadingOK(new)
      BY <3>1, ReadsNow
    <3>. QED
      BY <1>1, <2>2, <3>1, <3>2, SettingsRead DEF Open
  <2>3. CASE Command(s, kind, patch)
    <3>1. PICK new : new = [kind |-> kind, patch |-> patch, step |-> IF kind = "queue" THEN "ready" ELSE "read",
                            expected |-> global.version, shown |-> global, row |-> global, catalog |-> None]
      OBVIOUS
    <3>2. Row(kind) = global
      BY <2>3 DEF Row, Command, Commands
    <3>3. ReadingOK(new)
      BY <3>1, <3>2, ReadsNow
    <3>. QED
      BY <1>1, <2>3, <3>1, <3>3, SettingsRead DEF Command
  <2>. QED
    BY <2>1, <2>2, <2>3
<1>3. CASE ReadRow(s)
  <2>1. SessionOK(session[s]) /\ ReadingOK(session[s]) /\ session[s].kind = "repository_page"
    BY <1>3 DEF ReadRow, PairInv, SessionsInv, SettingsInv
  <2>2. PICK new : new = [session[s] EXCEPT !.row = repository, !.step = "read"]
    OBVIOUS
  <2>3. /\ new.row = repository /\ new.shown = session[s].shown /\ new.expected = session[s].expected
        /\ new.kind = session[s].kind
    BY <2>1, <2>2 DEF SessionOK, SessionFields
  <2>4. ReadingOK(new)
    BY <2>1, <2>3, ReadsNow DEF ReadingOK, Row
  <2>5. session' = [session EXCEPT ![s] = new]
    BY <1>3, <2>1, <2>2 DEF ReadRow, PairInv, SessionsInv, SessionOK, SessionFields
  <2>. QED
    BY <1>1, <2>4, <2>5, SettingsRead
<1>4. CASE ReadCatalog(s)
  <2>1. SessionOK(session[s]) /\ ReadingOK(session[s])
    BY <1>4 DEF ReadCatalog, PairInv, SessionsInv, SettingsInv
  <2>2. PICK new : new = [session[s] EXCEPT !.catalog = catalog, !.step = "ready"]
    OBVIOUS
  <2>3. /\ new.row = session[s].row /\ new.shown = session[s].shown /\ new.expected = session[s].expected
        /\ new.kind = session[s].kind
    BY <2>1, <2>2 DEF SessionOK, SessionFields
  <2>4. ReadingOK(new)
    BY <2>1, <2>3 DEF ReadingOK
  <2>5. session' = [session EXCEPT ![s] = new]
    BY <1>4, <2>1, <2>2 DEF ReadCatalog, PairInv, SessionsInv, SessionOK, SessionFields
  <2>. QED
    BY <1>1, <2>4, <2>5, SettingsRead
<1>. QED
  BY <1>2, <1>3, <1>4

\* The page of a repository submits a switch as on, off or inherited.
LEMMA SubmittedSwitch ==
    ASSUME NEW patch \in Patches("repository_page")
    PROVE  "enabled" \in DOMAIN patch => patch["enabled"] \in BOOLEAN \cup {None}
<1>1. Sets(patch, {None})
  BY PatchAssumption DEF Patches
<1>2. Column("enabled") = BOOLEAN /\ "enabled" \in GlobalFields
  BY DEF Column, Switches, GlobalFields
<1>. QED
  BY <1>1, <1>2 DEF Sets

\* The write of a repository's page: one version more, and the old column follows the
\* switch.
LEMMA RepositoryWriteMoves ==
    ASSUME PairInv, SettingsInv, NEW patch \in Patches("repository_page"), NEW row, row.version \in Nat,
           repository' = RepositoryWritten(patch, row), repository' # repository,
           "repository" \notin overtaken' => /\ SameForForm(row, repository)
                                             /\ LegacyKept(row, repository)
                                             /\ LegacyFollows(repository)
    PROVE  /\ repository'.version \in Nat /\ repository'.legacy["enabled"] \in BOOLEAN
           /\ "repository" \notin overtaken' =>
                 repository'.version > repository.version /\ LegacyFollows(repository')
<1>. DEFINE old == [f \in {"enabled", "auto"} |-> IF Projected(patch, row, f) THEN patch[f] ELSE repository.legacy[f]]
<1>1. repository' = [repository EXCEPT
            !.values = Overlay(patch, row, repository), !.legacy = old, !.version = row.version + 1]
  BY DEF RepositoryWritten
<1>2. /\ repository'.version = row.version + 1
      /\ repository'.legacy["enabled"] = IF Projected(patch, row, "enabled") THEN patch["enabled"]
                                         ELSE repository.legacy["enabled"]
      /\ repository'.values = Overlay(patch, row, repository)
  BY <1>1 DEF PairInv, RowsInv
<1>. HIDE DEF old
<1>3. Projected(patch, row, "enabled") => patch["enabled"] \in BOOLEAN
  BY SubmittedSwitch DEF Projected
<1>4. repository'.legacy["enabled"] \in BOOLEAN
  BY <1>2, <1>3 DEF SettingsInv
<1>5. ASSUME "repository" \notin overtaken'
      PROVE  repository'.version > repository.version /\ LegacyFollows(repository')
  <2>1. row.version = repository.version /\ row.values = repository.values
    BY <1>5 DEF SameForForm
  <2>2. repository'.values["enabled"] = IF "enabled" \in DOMAIN patch THEN patch["enabled"]
                                        ELSE repository.values["enabled"]
    BY <1>2, <2>1 DEF Overlay, Dirty, GlobalFields, Switches
  <2>3. repository'.version > repository.version
    BY <1>2, <2>1
  <2>4. LegacyFollows(repository')
    BY <1>2, <1>5, <2>2 DEF Projected, LegacyFollows, LegacyKept
  <2>. QED
    BY <2>3, <2>4
<1>. QED
  BY <1>2, <1>4, <1>5

\* A session that ends leaves the version of its row as it is, raises it, or has
\* overtaken another one.
LEMMA SettingsCommit ==
    ASSUME PairInv, SettingsInv, NEW s \in Sessions, Commit(s)
    PROVE  SettingsInv'
<1>1. SessionOK(session[s]) /\ ReadingOK(session[s])
  BY DEF Commit, PairInv, SessionsInv, SettingsInv
<1>2. \A t \in Sessions : session'[t] \in {session[t], None}
  BY DEF Commit, PairInv, SessionsInv
<1>3. overtaken \subseteq overtaken'
  BY DEF Commit
<1>. DEFINE kind == session[s].kind
            patch == session[s].patch
            row == Locked(s)
<1>4. CASE UNCHANGED settings
  <2>1. RowsMove
    BY <1>3, <1>4 DEF SettingsInv, RowsMove, GlobalMoves, RepositoryMoves, LegacyKept, settings
  <2>2. \A t \in Sessions : session'[t] # None => ReadingOK(session[t])'
    BY <1>2, <2>1, ReadingsStay
  <2>. QED
    BY <1>3, <1>4, <2>2 DEF SettingsInv, LegacyFollows, settings
<1>5. CASE settings' # settings
  <2>1. Accepted(s)
    BY <1>5 DEF Commit
  <2>2. ~SameForForm(row, Row(kind)) => RowName(kind) \in overtaken'
    BY <1>5 DEF Commit, RowName
  <2>3. row.version \in Nat
    BY <1>1 DEF Locked, ReadingOK, SettingsInv, Row
  <2>4. CASE kind = "repository_page"
    <3>1. global' = global /\ repository' = RepositoryWritten(patch, row) /\ patch \in Patches("repository_page")
      BY <1>1, <2>1, <2>4 DEF Commit, SessionOK
    <3>2. repository' # repository
      BY <1>5, <3>1 DEF settings
    <3>3. "repository" \notin overtaken' => SameForForm(row, repository)
      BY <2>2, <2>4 DEF Row, RowName
    <3>4. "repository" \notin overtaken' => LegacyKept(row, repository) /\ LegacyFollows(repository)
      <4>1. CASE session[s].row = None
        BY <1>3, <2>4, <4>1 DEF Locked, Row, LegacyKept, SettingsInv
      <4>2. CASE session[s].row # None
        BY <1>1, <1>3, <2>4, <3>3, <4>2 DEF Locked, Row, RowName, ReadingOK, SameForForm, SettingsInv
      <4>. QED
        BY <4>1, <4>2
    <3>. HIDE DEF row, patch
    <3>5. /\ repository'.version \in Nat /\ repository'.legacy["enabled"] \in BOOLEAN
          /\ "repository" \notin overtaken' =>
                repository'.version > repository.version /\ LegacyFollows(repository')
      BY <2>3, <3>1, <3>2, <3>3, <3>4, RepositoryWriteMoves
    <3>6. RowsMove
      BY <1>3, <3>1, <3>5 DEF SettingsInv, RowsMove, GlobalMoves, RepositoryMoves
    <3>7. \A t \in Sessions : session'[t] # None => ReadingOK(session[t])'
      BY <1>2, <3>6, ReadingsStay
    <3>. QED
      BY <3>1, <3>5, <3>7 DEF SettingsInv, LegacyFollows
  <2>5. CASE kind # "repository_page"
    <3>1. "global" \notin overtaken' => row.version = global.version
      BY <2>2, <2>5 DEF Row, RowName, SameForForm
    <3>2. "repository" \in overtaken' => "repository" \in overtaken
      BY <2>5 DEF Commit
    <3>3. repository' = repository /\ (global' = PausedWritten(patch["paused"], row) \/ global' = GlobalWritten(patch, row))
      BY <1>1, <2>1, <2>5 DEF Commit, SessionOK
    <3>4. global' # global
      BY <1>5, <3>3 DEF settings
    <3>. HIDE DEF row, patch
    <3>5. global'.version = row.version + 1
      BY <3>3, <3>4 DEF PausedWritten, GlobalWritten, PairInv, RowsInv
    <3>6. RowsMove
      BY <1>3, <2>3, <3>1, <3>3, <3>5 DEF SettingsInv, RowsMove, GlobalMoves, RepositoryMoves, LegacyKept
    <3>7. \A t \in Sessions : session'[t] # None => ReadingOK(session[t])'
      BY <1>2, <3>6, ReadingsStay
    <3>. QED
      BY <1>3, <2>3, <3>2, <3>3, <3>5, <3>7 DEF SettingsInv, LegacyFollows
  <2>. QED
    BY <2>4, <2>5
<1>. QED
  BY <1>4, <1>5

\* What the deliveries and the operators do to the rows.
LegacyRestored == [f \in {"enabled", "auto"} |-> repository.legacy[f] \/ repository.values[f] = None]
InstallationMoves ==
    /\ UNCHANGED <<global, session, overtaken>>
    /\ repository'.version = repository.version /\ repository'.values = repository.values
    /\ LegacyKept(repository, repository')
    /\ repository'.legacy["enabled"] \in BOOLEAN
    /\ \/ repository' = repository
       \/ \E access \in BOOLEAN : repository' = [repository EXCEPT !.installed = access]
       \/ repository' = [repository EXCEPT !.installed = TRUE, !.legacy = LegacyRestored]

LEMMA InstallationFrame ==
    ASSUME PairInv, SettingsInv, [Next]_vars
    PROVE  (\E s \in Sessions : SessionAction(s)) \/ InstallationMoves
<1>. USE DEF policyVars, settings
<1>1. ASSUME UNCHANGED <<settings, session, overtaken>> PROVE InstallationMoves
  BY <1>1 DEF InstallationMoves, LegacyKept, SettingsInv
<1>2. ASSUME NEW access \in BOOLEAN, UNCHANGED <<global, session, overtaken>>,
             repository' = [repository EXCEPT !.installed = access]
      PROVE  InstallationMoves
  BY <1>2 DEF InstallationMoves, LegacyKept, SettingsInv, PairInv, RowsInv
<1>3. ASSUME NEW h \in Handlers, Restore(h) PROVE InstallationMoves
  <2>. DEFINE old == LegacyRestored
  <2>1. repository' = [repository EXCEPT !.installed = TRUE, !.legacy = old] /\ UNCHANGED <<global, session, overtaken>>
    BY <1>3 DEF Restore, LegacyRestored
  <2>2. old["enabled"] = (repository.legacy["enabled"] \/ repository.values["enabled"] = None)
    BY DEF LegacyRestored
  <2>3. old["enabled"] \in BOOLEAN /\ (old["enabled"] = repository.legacy["enabled"] \/ old["enabled"] = TRUE)
    BY <2>2 DEF SettingsInv
  <2>4. /\ repository'.legacy = old /\ repository'.version = repository.version
        /\ repository'.values = repository.values
    BY <2>1 DEF PairInv, RowsInv
  <2>. QED
    BY <2>1, <2>3, <2>4 DEF InstallationMoves, LegacyKept
<1>4. CASE Administration
  <2>1. \A s : s \in OneOf({t \in Sessions : session[t] = None}) => s \in Sessions
    BY DEF OneOf
  <2>2. CASE Reconcile
    BY <1>2, <2>2 DEF Reconcile
  <2>3. CASE UNCHANGED <<settings, session, overtaken>>
    BY <1>1, <2>3
  <2>4. CASE \E s \in Sessions : SessionAction(s)
    BY <2>4
  <2>5. PolicySteps => \E s \in Sessions : SessionAction(s)
    BY DEF PolicySteps, SessionAction
  <2>6. ASSUME NEW s \in OneOf({t \in Sessions : session[t] = None}), NEW kind \in Pages \cup Commands, PolicyStart(s, kind)
        PROVE  \E t \in Sessions : SessionAction(t)
    BY <2>1, <2>6 DEF SessionAction
  <2>. QED
    BY <1>4, <2>2, <2>3, <2>4, <2>5, <2>6 DEF Administration
<1>5. CASE Sending
  BY <1>1, <1>5 DEF Sending, Receive, Redeliver, GitHubFails, HandlerEnds, Push
<1>6. CASE Handling
  <2>1. PICK h \in Handlers : HandlerStep(h) \/ IgnoreSender(h)
    BY <1>6 DEF Handling
  <2>2. CASE Suspend(h)
    BY <1>2, <2>2 DEF Suspend
  <2>3. CASE Restore(h)
    BY <1>3, <2>3
  <2>4. CASE ~Suspend(h) /\ ~Restore(h)
    BY <1>1, <2>1, <2>4 DEF HandlerStep, IgnoreSender, Reserve, ReadPolicy, PullRequest, Checks, Notice, Post,
                            Enqueue, List, Finished
  <2>. QED
    BY <2>2, <2>3, <2>4
<1>7. CASE Reviewing
  BY <1>1, <1>7 DEF Reviewing
<1>8. CASE Watching
  BY <1>1, <1>8 DEF Watching, Recover, StalePending
<1>9. CASE \E j \in DOMAIN jobs : Working(j)
  BY <1>1, <1>9 DEF Working, Starting, Ending, Start, EndReview, Claim, Tell
<1>10. CASE UNCHANGED vars
  BY <1>1, <1>10 DEF vars
<1>. QED
  BY <1>4, <1>5, <1>6, <1>7, <1>8, <1>9, <1>10 DEF Next

LEMMA SettingsStep == ASSUME PairInv, SettingsInv, [Next]_vars PROVE SettingsInv'
<1>1. CASE \E s \in Sessions : SessionAction(s)
  BY <1>1, SettingsReads, SettingsCommit DEF SessionAction
<1>2. CASE InstallationMoves
  <2>1. RowsMove
    BY <1>2 DEF InstallationMoves, SettingsInv, RowsMove, GlobalMoves, RepositoryMoves
  <2>2. \A t \in Sessions : session'[t] # None => ReadingOK(session[t])'
    BY <1>2, <2>1, ReadingsStay DEF InstallationMoves
  <2>. QED
    BY <1>2, <2>2 DEF InstallationMoves, SettingsInv, LegacyFollows, LegacyKept
<1>. QED
  BY <1>1, <1>2, InstallationFrame

\* The rows of a case are versions 1, and an override is in the old column.
LEMMA SettingsInit == Init => SettingsInv
<1>. SUFFICES ASSUME Init PROVE SettingsInv
  OBVIOUS
<1>1. /\ PolicyInit(case.global, case.repository)
      /\ "enabled" \in DOMAIN case.repository => case.repository["enabled"] \in BOOLEAN \cup {None}
  <2>1. PolicyInit(case.global, case.repository) /\ Sets(case.repository, {None})
    BY CasesAssumption DEF Init
  <2>2. Column("enabled") = BOOLEAN /\ "enabled" \in GlobalFields
    BY DEF Column, Switches, GlobalFields
  <2>. QED
    BY <2>1, <2>2 DEF Sets
<1>2. global.version = 1 /\ repository.version = 1
  BY <1>1 DEF PolicyInit, DefaultGlobal, DefaultRepository
<1>3. /\ repository.values = Overlay(case.repository, DefaultRepository, DefaultRepository)
      /\ repository.legacy["enabled"] = IF Projected(case.repository, DefaultRepository, "enabled")
                                        THEN case.repository["enabled"] ELSE TRUE
  BY <1>1 DEF PolicyInit, DefaultRepository
<1>4. /\ DefaultRepository.values["enabled"] = None
      /\ DefaultRepository.legacy["enabled"] = TRUE
  BY DEF DefaultRepository, GlobalFields, Switches
<1>5. repository.values["enabled"] = IF "enabled" \in DOMAIN case.repository
                                     THEN case.repository["enabled"] ELSE None
  BY <1>3, <1>4 DEF Overlay, Dirty, GlobalFields, Switches
<1>6. repository.legacy["enabled"] \in BOOLEAN /\ LegacyFollows(repository)
  BY <1>1, <1>3, <1>4, <1>5 DEF Projected, LegacyFollows
<1>7. \A s \in Sessions : session[s] = None
  BY <1>1 DEF PolicyInit
<1>. QED
  BY <1>2, <1>6, <1>7 DEF SettingsInv

\* The invariant of the rows, their versions and what sessions have read of them.
LEMMA SettingsInvariant == Spec => [](PairInv /\ SettingsInv)
<1>1. PairInv /\ SettingsInv /\ [Next]_vars => SettingsInv'
  BY SettingsStep
<1>. QED
  BY <1>1, SettingsInit, PairInvariant, PTL DEF Spec

\* An override that is on is in the old column too, so the worker's lower bound agrees.
LEMMA OverridesFollow == SettingsInv => ExplicitOverridesWin
<1>. SUFFICES ASSUME SettingsInv, "repository" \notin overtaken, repository.values["enabled"] # None
              PROVE  WorkerEnabled(global, repository) <=>
                        repository.values["enabled"] /\ repository.installed
  BY DEF ExplicitOverridesWin
<1>1. Chosen(global, repository, "enabled") = repository.values["enabled"]
  BY DEF Chosen
<1>2. repository.legacy["enabled"] = repository.values["enabled"] \/ repository.legacy["enabled"] = TRUE
  BY DEF SettingsInv, LegacyFollows
<1>. QED
  BY <1>1, <1>2 DEF WorkerEnabled

\* What an administrator has set for a repository is what the worker goes by, for every
\* history of forms, commands, suspensions and restorations that loses no write.
THEOREM ExplicitOverridesWinHolds == Spec => []ExplicitOverridesWin
BY OverridesFollow, SettingsInvariant, PTL

\* The write of a form, of whichever page.
FormWrites ==
    \A s \in Sessions :
        session[s] # None /\ session'[s] = None /\ session[s].kind \in Pages /\ settings' # settings =>
           \/ SameForForm(session[s].shown, Row(session[s].kind))
           \/ (IF session[s].kind = "repository_page" THEN "repository" ELSE "global") \in overtaken'

LEMMA FormWritesStep == ASSUME PairInv, SettingsInv, [Next]_vars PROVE FormWrites
<1>. SUFFICES ASSUME NEW s \in Sessions, session[s] # None, session'[s] = None, settings' # settings,
                     RowName(session[s].kind) \notin overtaken'
              PROVE  SameForForm(session[s].shown, Row(session[s].kind))
  BY DEF FormWrites, RowName
<1>1. ASSUME NEW t \in Sessions, SessionAction(t) PROVE t = s /\ Commit(s)
  <2>1. \A new : session' = [session EXCEPT ![t] = new] /\ t # s => session'[s] = session[s]
    BY DEF PairInv, SessionsInv
  <2>2. ~ReadRow(t) /\ ~ReadCatalog(t)
    BY DEF ReadRow, ReadCatalog
  <2>3. ~\E kind \in Pages \cup Commands : PolicyStart(t, kind)
    BY DEF PolicyStart, Open, Command
  <2>. QED
    BY <1>1, <2>1, <2>2, <2>3 DEF SessionAction, Commit
<1>2. CASE Commit(s)
  <2>1. ReadingOK(session[s]) /\ overtaken \subseteq overtaken' /\ Accepted(s)
    BY <1>2 DEF SettingsInv, Commit
  <2>2. SameForForm(Locked(s), Row(session[s].kind))
    BY <1>2 DEF Commit, RowName
  <2>. QED
    BY <2>1, <2>2 DEF ReadingOK, Seen, SameForForm, Accepted
<1>3. ~InstallationMoves
  BY DEF InstallationMoves
<1>. QED
  BY <1>1, <1>2, <1>3, InstallationFrame

\* A form is written only over what its page has shown, unless a row was written from
\* an older reading.
THEOREM PagesWriteWhatTheyShowedHolds == Spec => PagesWriteWhatTheyShowed
<1>1. PairInv /\ SettingsInv /\ [Next]_vars => [FormWrites]_policyVars
  BY FormWritesStep
<1>2. [FormWrites]_policyVars <=> [\A s \in Sessions :
          session[s] # None /\ session'[s] = None /\ session[s].kind \in Pages /\ settings' # settings =>
             \/ SameForForm(session[s].shown, Row(session[s].kind))
             \/ (IF session[s].kind = "repository_page" THEN "repository" ELSE "global") \in overtaken']_policyVars
  BY DEF FormWrites
<1>. QED
  BY <1>1, <1>2, SettingsInvariant, PTL DEF Spec, PagesWriteWhatTheyShowed

-----------------------------------------------------------------------------
(* Layer 4: what the columns hold.                                         *)

ColumnsHold(values, otherwise) ==
    DOMAIN values = GlobalFields /\ \A f \in GlobalFields : values[f] \in otherwise \cup Column(f)
Unset(values) == \A f \in GlobalFields \ RepositoryFields : values[f] = None

ColumnsInv ==
    /\ global \in GlobalRow /\ repository \in RepositoryRow
    /\ ColumnsHold(global.values, {}) /\ ColumnsHold(repository.values, {None}) /\ Unset(repository.values)
    /\ \A s \in Sessions : session[s] # None => session[s].expected \in Nat \ {0}
    /\ overtaken \subseteq {"global", "repository"}

\* A validated patch leaves columns that hold what they may.
LEMMA OverlaidColumns ==
    ASSUME NEW patch, NEW row, NEW now, NEW otherwise, Sets(patch, otherwise), ColumnsHold(now.values, otherwise)
    PROVE  ColumnsHold(Overlay(patch, row, now), otherwise)
<1>1. \A f \in GlobalFields : f \in Dirty(patch, row) => patch[f] \in otherwise \cup Column(f)
  BY DEF Dirty, Sets
<1>. QED
  BY <1>1 DEF Overlay, ColumnsHold

LEMMA OverlaidUnset ==
    ASSUME NEW patch, NEW row, NEW now, DOMAIN patch \subseteq RepositoryFields, Unset(now.values)
    PROVE  Unset(Overlay(patch, row, now))
BY DEF Overlay, Unset, Dirty

\* What a session may submit was validated.
LEMMA PatchesSet ==
    ASSUME NEW kind \in {"repository_page", "settings_page", "set_default"}, NEW patch \in Patches(kind)
    PROVE  Sets(patch, IF kind = "repository_page" THEN {None} ELSE {})
<1>1. kind = "repository_page" => patch \in RepositoryPatches
  BY DEF Patches
<1>2. kind # "repository_page" => patch \in GlobalPatches
  BY DEF Patches
<1>. QED
  BY <1>1, <1>2, PatchAssumption

\* The old columns stay switches.
LEMMA LegacySwitches ==
    ASSUME repository \in RepositoryRow, NEW patch, Sets(patch, {None}), NEW row
    PROVE  \A f \in {"enabled", "auto"} :
               (IF Projected(patch, row, f) THEN patch[f] ELSE repository.legacy[f]) \in BOOLEAN
<1>1. \A f \in {"enabled", "auto"} : Column(f) = BOOLEAN /\ f \in GlobalFields
  BY DEF Column, Switches, GlobalFields
<1>2. \A f \in {"enabled", "auto"} : Projected(patch, row, f) => patch[f] \in BOOLEAN
  BY <1>1 DEF Sets, Projected
<1>3. \A f \in {"enabled", "auto"} : repository.legacy[f] \in BOOLEAN
  BY DEF RepositoryRow
<1>. QED
  BY <1>2, <1>3

LEMMA RepositoryColumns ==
    ASSUME ColumnsInv, NEW patch \in Patches("repository_page"), NEW row, row.version \in Nat,
           DOMAIN patch \subseteq RepositoryFields, repository' = RepositoryWritten(patch, row)
    PROVE  (repository \in RepositoryRow /\ ColumnsHold(repository.values, {None}) /\ Unset(repository.values))'
<1>. DEFINE old == [f \in {"enabled", "auto"} |-> IF Projected(patch, row, f) THEN patch[f] ELSE repository.legacy[f]]
            new == Overlay(patch, row, repository)
<1>1. CASE repository' = repository
  BY <1>1 DEF ColumnsInv, RepositoryRow, ColumnsHold, Unset
<1>2. CASE repository' = [repository EXCEPT !.values = new, !.legacy = old, !.version = row.version + 1]
  <2>1. Sets(patch, {None})
    BY PatchesSet
  <2>2. old \in [{"enabled", "auto"} -> BOOLEAN]
    <3>1. \A f \in {"enabled", "auto"} :
              (IF Projected(patch, row, f) THEN patch[f] ELSE repository.legacy[f]) \in BOOLEAN
      BY <2>1, LegacySwitches DEF ColumnsInv
    <3>. QED
      BY ONLY <3>1
  <2>3. ColumnsHold(new, {None}) /\ Unset(new)
    BY <2>1, OverlaidColumns, OverlaidUnset DEF ColumnsInv
  <2>. HIDE DEF old, new
  <2>4. row.version + 1 \in Nat \ {0}
    OBVIOUS
  <2>5. repository'.values = new /\ repository' \in [version : Nat \ {0}, installed : BOOLEAN,
                                                     legacy : [{"enabled", "auto"} -> BOOLEAN], values : {new}]
    BY <1>2, <2>2, <2>4 DEF ColumnsInv, RepositoryRow
  <2>. QED
    BY <2>3, <2>5 DEF RepositoryRow, ColumnsHold, Unset
<1>. QED
  BY <1>1, <1>2 DEF RepositoryWritten

LEMMA GlobalColumns ==
    ASSUME ColumnsInv, NEW kind \in {"settings_page", "set_default"}, NEW patch \in Patches(kind), NEW row,
           row.version \in Nat, global' = GlobalWritten(patch, row)
    PROVE  (global \in GlobalRow /\ ColumnsHold(global.values, {}))'
<1>. DEFINE new == Overlay(patch, row, global)
            inherits == IF Inheritance(patch, row) # row.inherited THEN Inheritance(patch, row) ELSE global.inherited
<1>1. CASE global' = global
  BY <1>1 DEF ColumnsInv, GlobalRow, ColumnsHold
<1>2. CASE global' = [global EXCEPT !.values = new, !.inherited = inherits, !.version = row.version + 1]
  <2>1. ColumnsHold(new, {})
    <3>1. Sets(patch, {})
      BY PatchesSet
    <3>. QED
      BY <3>1, OverlaidColumns DEF ColumnsInv
  <2>2. inherits \in BOOLEAN
    BY DEF Inheritance, ColumnsInv, GlobalRow
  <2>. HIDE DEF inherits, new
  <2>3. row.version + 1 \in Nat \ {0}
    OBVIOUS
  <2>4. global'.values = new /\ global' \in [version : Nat \ {0}, paused : BOOLEAN, inherited : BOOLEAN, values : {new}]
    BY <1>2, <2>2, <2>3 DEF ColumnsInv, GlobalRow
  <2>. QED
    BY <2>1, <2>4 DEF GlobalRow, ColumnsHold
<1>. QED
  BY <1>1, <1>2 DEF GlobalWritten, ColumnsInv, GlobalRow

LEMMA PausedColumns ==
    ASSUME ColumnsInv, NEW paused \in BOOLEAN, NEW row, row.version \in Nat, global' = PausedWritten(paused, row)
    PROVE  (global \in GlobalRow /\ ColumnsHold(global.values, {}))'
<1>1. CASE global' = global
  BY <1>1 DEF ColumnsInv, GlobalRow, ColumnsHold
<1>2. CASE global' = [global EXCEPT !.paused = paused, !.version = row.version + 1]
  <2>1. row.version + 1 \in Nat \ {0}
    OBVIOUS
  <2>2. global'.values = global.values
        /\ global' \in [version : Nat \ {0}, paused : BOOLEAN, inherited : BOOLEAN, values : {global.values}]
    BY <1>2, <2>1 DEF ColumnsInv, GlobalRow
  <2>. QED
    BY <2>2 DEF ColumnsInv, GlobalRow, ColumnsHold
<1>. QED
  BY <1>1, <1>2 DEF PausedWritten

\* The write of a session keeps the columns.
LEMMA ColumnsCommit ==
    ASSUME PairInv, SettingsInv, ColumnsInv, NEW s \in Sessions, Commit(s)
    PROVE  ColumnsInv'
<1>1. SessionOK(session[s]) /\ ReadingOK(session[s])
  BY DEF Commit, PairInv, SessionsInv, SettingsInv
<1>2. \A t \in Sessions : session'[t] # None => session'[t].expected \in Nat \ {0}
  <2>1. \A t \in Sessions : session'[t] \in {session[t], None}
    BY DEF Commit, PairInv, SessionsInv
  <2>. QED
    BY <2>1 DEF ColumnsInv
<1>3. overtaken' \subseteq {"global", "repository"}
  BY DEF Commit, ColumnsInv
<1>. DEFINE kind == session[s].kind
            patch == session[s].patch
            row == Locked(s)
<1>4. CASE UNCHANGED settings
  BY <1>2, <1>3, <1>4 DEF ColumnsInv, settings, GlobalRow, RepositoryRow
<1>5. CASE Accepted(s)
  <2>1. row.version \in Nat
    BY <1>1 DEF Locked, ReadingOK, SettingsInv, Row
  <2>2. CASE kind = "repository_page"
    <3>1. global' = global /\ repository' = RepositoryWritten(patch, row) /\ patch \in Patches("repository_page")
      BY <1>1, <1>5, <2>2 DEF Commit, SessionOK
    <3>2. DOMAIN patch \subseteq RepositoryFields
      BY <1>5, <2>2 DEF Accepted, PatchIsValid, RepositoryPatchIsValid
    <3>. HIDE DEF row, patch
    <3>3. (repository \in RepositoryRow /\ ColumnsHold(repository.values, {None}) /\ Unset(repository.values))'
      BY <2>1, <3>1, <3>2, RepositoryColumns
    <3>4. (global \in GlobalRow /\ ColumnsHold(global.values, {}))'
      BY <3>1 DEF ColumnsInv, GlobalRow
    <3>. QED
      BY <1>2, <1>3, <3>3, <3>4 DEF ColumnsInv
  <2>3. CASE kind # "repository_page"
    <3>1. repository' = repository /\ patch \in Patches(kind)
      BY <1>1, <1>5, <2>3 DEF Commit, SessionOK
    <3>2. (repository \in RepositoryRow /\ ColumnsHold(repository.values, {None}) /\ Unset(repository.values))'
      BY <3>1 DEF ColumnsInv, RepositoryRow
    <3>3. (global \in GlobalRow /\ ColumnsHold(global.values, {}))'
      <4>1. CASE kind \in {"operations_page", "queue"}
        <5>1. global' = PausedWritten(patch["paused"], row)
          BY <1>5, <4>1 DEF Commit
        <5>2. patch["paused"] \in BOOLEAN
          <6>1. Patches(kind) = [{"paused"} -> BOOLEAN]
            BY <4>1, Zenon DEF Patches
          <6>. QED
            BY <3>1, <6>1
        <5>. HIDE DEF row, patch
        <5>. QED
          BY <2>1, <5>1, <5>2, PausedColumns
      <4>2. CASE kind \in {"settings_page", "set_default"}
        <5>1. global' = GlobalWritten(patch, row)
          BY <1>5, <4>2 DEF Commit
        <5>. HIDE DEF row, patch
        <5>. QED
          BY <2>1, <3>1, <4>2, <5>1, GlobalColumns
      <4>. QED
        BY <1>1, <2>3, <4>1, <4>2 DEF SessionOK, Pages, Commands
    <3>. QED
      BY <1>2, <1>3, <3>2, <3>3 DEF ColumnsInv
  <2>. QED
    BY <2>2, <2>3
<1>. QED
  BY <1>4, <1>5 DEF Commit

LEMMA ColumnsReads ==
    ASSUME PairInv, ColumnsInv, NEW s \in Sessions,
           \/ \E kind \in Pages \cup Commands : PolicyStart(s, kind)
           \/ ReadRow(s) \/ ReadCatalog(s)
    PROVE  ColumnsInv'
<1>1. UNCHANGED <<global, repository, overtaken>>
  BY DEF PolicyStart, Open, Command, ReadRow, ReadCatalog, settings
<1>2. \E new : session' = [session EXCEPT ![s] = new] /\ new.expected \in Nat \ {0}
  <2>1. \A kind : Row(kind).version \in Nat \ {0}
    BY DEF Row, ColumnsInv, GlobalRow, RepositoryRow
  <2>2. CASE \E kind \in Pages \cup Commands : PolicyStart(s, kind)
    BY <2>1, <2>2, ZenonT(30) DEF PolicyStart, Open, Command, ColumnsInv, GlobalRow
  <2>3. CASE ReadRow(s) \/ ReadCatalog(s)
    BY <2>3 DEF ReadRow, ReadCatalog, ColumnsInv, PairInv, SessionsInv, SessionOK, SessionFields
  <2>. QED
    BY <2>2, <2>3
<1>3. \A t \in Sessions : session'[t] # None => session'[t].expected \in Nat \ {0}
  BY <1>2 DEF ColumnsInv, PairInv, SessionsInv
<1>. QED
  BY <1>1, <1>3 DEF ColumnsInv, GlobalRow, RepositoryRow

LEMMA ColumnsStep == ASSUME PairInv, SettingsInv, ColumnsInv, [Next]_vars PROVE ColumnsInv'
<1>1. CASE \E s \in Sessions : SessionAction(s)
  BY <1>1, ColumnsReads, ColumnsCommit DEF SessionAction
<1>2. CASE InstallationMoves
  <2>1. LegacyRestored \in [{"enabled", "auto"} -> BOOLEAN]
    BY DEF LegacyRestored, ColumnsInv, RepositoryRow
  <2>2. repository' \in [version : Nat \ {0}, installed : BOOLEAN, legacy : [{"enabled", "auto"} -> BOOLEAN],
                         values : {repository.values}]
    BY <1>2, <2>1 DEF InstallationMoves, ColumnsInv, RepositoryRow
  <2>3. repository' \in RepositoryRow' /\ repository'.values = repository.values
    BY <2>2 DEF RepositoryRow
  <2>. QED
    BY <1>2, <2>3 DEF InstallationMoves, ColumnsInv, GlobalRow
<1>. QED
  BY <1>1, <1>2, InstallationFrame

\* The defaults are what the columns may hold.
LEMMA DefaultColumns == ColumnsHold(DefaultGlobal.values, {}) /\ ColumnsHold(DefaultRepository.values, {None})
                        /\ Unset(DefaultRepository.values)
<1>1. \A f \in Switches \cup {"low", "suggestions", "questions", "positives", "opened", "cooldown"} :
          f \in GlobalFields => DefaultValues[f] \in Column(f)
  BY ZenonT(30) DEF DefaultValues, Column, GlobalFields, Switches, Quality
<1>2. DefaultValues["confidence"] \in Column("confidence") /\ DefaultValues["severity"] \in Column("severity")
  BY DEF DefaultValues, Column, GlobalFields, Switches, Quality, LOW_SEVERITY
<1>3. DefaultValues["findings"] \in Column("findings") /\ DefaultValues["inline"] \in Column("inline")
  BY DEF DefaultValues, Column, GlobalFields, Switches, Quality
<1>4. DefaultValues["profile"] \in Column("profile") /\ DefaultValues["model"] \in Column("model")
  BY DEF DefaultValues, Column, GlobalFields, Switches, Quality, ProfileDefaults
<1>5. DefaultValues["effort"] \in Column("effort") /\ DefaultValues["type"] \in Column("type")
  BY PatchAssumption DEF DefaultValues, Column, GlobalFields, Switches, Quality
<1>6. DefaultValues["categories"] \in Column("categories")
  BY DEF DefaultValues, Column, GlobalFields, Switches, Quality
<1>7. \A f \in GlobalFields : DefaultValues[f] \in Column(f)
  BY <1>1, <1>2, <1>3, <1>4, <1>5, <1>6 DEF GlobalFields, Quality
<1>. QED
  BY <1>7 DEF ColumnsHold, Unset, DefaultGlobal, DefaultRepository, DefaultValues

LEMMA ColumnsInit == Init => ColumnsInv
<1>. SUFFICES ASSUME Init PROVE ColumnsInv
  OBVIOUS
<1>1. /\ PolicyInit(case.global, case.repository) /\ Sets(case.global, {}) /\ Sets(case.repository, {None})
      /\ DOMAIN case.repository \subseteq RepositoryFields
  BY CasesAssumption DEF Init
<1>. DEFINE g == Overlay(case.global, DefaultGlobal, DefaultGlobal)
            r == Overlay(case.repository, DefaultRepository, DefaultRepository)
            i == Inheritance(case.global, DefaultGlobal)
            old == [f \in {"enabled", "auto"} |->
                      IF Projected(case.repository, DefaultRepository, f) THEN case.repository[f] ELSE TRUE]
<1>2. ColumnsHold(g, {}) /\ ColumnsHold(r, {None}) /\ Unset(r)
  BY <1>1, DefaultColumns, OverlaidColumns, OverlaidUnset
<1>3. i \in BOOLEAN
  BY DEF Inheritance, DefaultGlobal
<1>4. old \in [{"enabled", "auto"} -> BOOLEAN]
  <2>1. \A f \in {"enabled", "auto"} : Column(f) = BOOLEAN /\ f \in GlobalFields
    BY DEF Column, Switches, GlobalFields
  <2>2. \A f \in {"enabled", "auto"} :
            Projected(case.repository, DefaultRepository, f) => case.repository[f] \in BOOLEAN
    BY <1>1, <2>1 DEF Sets, Projected
  <2>. QED
    BY <2>2
<1>. HIDE DEF g, r, i, old
<1>5. global = [version |-> 1, paused |-> FALSE, inherited |-> i, values |-> g]
  BY <1>1 DEF PolicyInit, DefaultGlobal, g, i
<1>6. repository = [version |-> 1, installed |-> TRUE, legacy |-> old, values |-> r]
  BY <1>1 DEF PolicyInit, DefaultRepository, r, old
<1>7. (\A s \in Sessions : session[s] = None) /\ overtaken = {}
  BY <1>1 DEF PolicyInit
<1>. QED
  BY <1>2, <1>3, <1>4, <1>5, <1>6, <1>7 DEF ColumnsInv, GlobalRow, RepositoryRow

LEMMA ColumnsInvariant == Spec => [](PairInv /\ SettingsInv /\ ColumnsInv)
<1>1. PairInv /\ SettingsInv /\ ColumnsInv /\ [Next]_vars => ColumnsInv'
  BY ColumnsStep
<1>. QED
  BY <1>1, ColumnsInit, SettingsInvariant, PTL DEF Spec

-----------------------------------------------------------------------------
(* Layer 5: the efforts on their way.                                      *)

\* From the policy on, a request that may make a job has an effort.
Decided == {"pull", "checks", "enqueue"}
HasEffort(r) == r.effort \in Efforts \cup {None} /\ (r.step \in Decided => r.effort \in Efforts)
EffortsInv ==
    /\ \A h \in Handlers : handler[h] # None => HasEffort(handler[h])
    /\ \A j \in DOMAIN jobs : jobs[j].effort \in Efforts

\* The policy names an effort.
LEMMA ChosenEffort == ASSUME ColumnsInv PROVE Chosen(global, repository, "effort") \in Efforts
<1>1. "effort" \in GlobalFields /\ "effort" \notin Quality /\ Column("effort") = Efforts
  BY DEF GlobalFields, Quality, Column, Switches
<1>2. global.values["effort"] \in Efforts /\ repository.values["effort"] \in Efforts \cup {None}
  BY <1>1 DEF ColumnsInv, ColumnsHold
<1>. QED
  BY <1>1, <1>2 DEF Chosen

\* A request gets its effort from the policy, and carries it from there.
LEMMA RequestEffort ==
    ASSUME NEW V, Typed(V), ColumnsInv, NEW h \in Handlers, HandlerAction(h), handler'[h] # None,
           handler[h] # None => HasEffort(handler[h])
    PROVE  HasEffort(handler[h])'
<1>. DEFINE Same == /\ handler[h] # None /\ handler'[h].effort = handler[h].effort
                    /\ handler'[h].step \in Decided => handler[h].step \in Decided
<1>1. ASSUME Same PROVE HasEffort(handler[h])'
  BY <1>1 DEF HasEffort
<1>2. ASSUME handler'[h].effort = None, handler'[h].step \notin Decided PROVE HasEffort(handler[h])'
  BY <1>2 DEF HasEffort
<1>3. ~\E status : Finish(h, status)
  BY DEF Finish, Typed, Requests
<1>4. CASE \E d \in Deliveries, event \in Events, at \in Heads : Receive(h, d, event, at)
  BY <1>2, <1>4 DEF Receive, Request, Typed, Requests, Decided
<1>5. CASE \E d \in Deliveries : Redeliver(h, d)
  BY <1>2, <1>5 DEF Redeliver, Request, Typed, Requests, Decided
<1>6. ~HandlerEnds(h)
  BY DEF HandlerEnds, Typed, Requests
<1>7. ~GitHubFails(h) /\ ~IgnoreSender(h) /\ ~Finished(h)
  BY <1>3 DEF GitHubFails, IgnoreSender, Finished
<1>8. ASSUME NEW step, handler[h] # None, Continue(h, step), step \notin Decided PROVE Same
  BY <1>8, RequestAt DEF Continue, Typed, Requests, RequestOf
<1>9. CASE Reserve(h) \/ List(h)
  BY <1>1, <1>8, <1>9 DEF Reserve, List, At, Decided
<1>10. CASE ReadPolicy(h)
  <2>1. handler' = [handler EXCEPT
                 ![h].step = IF Event(h) = "command" THEN "pull" ELSE "enqueue",
                 ![h].model = Chosen(global, repository, "model"),
                 ![h].effort = Chosen(global, repository, "effort")]
    BY <1>3, <1>10 DEF ReadPolicy
  <2>2. PICK e : e = Chosen(global, repository, "effort")
    OBVIOUS
  <2>3. handler[h] \in RequestOf(V)
    BY <1>10, RequestAt DEF ReadPolicy, At
  <2>4. handler'[h].effort = e
    BY <2>1, <2>2, <2>3 DEF Typed, Requests, RequestOf
  <2>. QED
    BY <2>2, <2>4, ChosenEffort DEF HasEffort
<1>11. CASE PullRequest(h)
  <2>1. Same
    BY <1>11, RequestAt DEF PullRequest, At, Typed, Requests, RequestOf, Decided
  <2>. QED
    BY <1>1, <2>1
<1>12. CASE Checks(h)
  <2>0. handler[h] # None /\ handler[h].step \in Decided
    BY <1>12 DEF Checks, At, Decided
  <2>1. ASSUME NEW code, handler' = [handler EXCEPT ![h].step = "notice", ![h].code = code] PROVE Same
    BY <2>0, <2>1, RequestAt DEF Typed, Requests, RequestOf
  <2>2. ASSUME handler' = [handler EXCEPT ![h].step = "enqueue"] PROVE Same
    BY <2>0, <2>2, RequestAt DEF Typed, Requests, RequestOf
  <2>. QED
    BY <1>1, <1>12, <2>1, <2>2 DEF Checks
<1>13. CASE Notice(h)
  BY <1>1, <1>3, <1>8, <1>13 DEF Notice, At, Decided
<1>14. ASSUME handler[h] # None, NEW result, handler' = [handler EXCEPT ![h].step = "finish", ![h].result = result]
       PROVE  Same
  BY <1>14, RequestAt DEF Typed, Requests, RequestOf, Decided
<1>15. CASE Post(h) \/ Suspend(h) \/ Restore(h)
  BY <1>1, <1>14, <1>15 DEF Post, Suspend, Restore, At
<1>16. CASE Enqueue(h)
  BY <1>1, <1>3, <1>14, <1>16 DEF Enqueue, At
<1>. QED
  BY <1>4, <1>5, <1>6, <1>7, <1>9, <1>10, <1>11, <1>12, <1>13, <1>15, <1>16 DEF HandlerAction, HandlerStep

LEMMA EffortsStep == ASSUME DeliveryInv, ColumnsInv, EffortsInv, [Next]_vars PROVE EffortsInv'
<1>1. PICK V : Typed(V) /\ {Chosen(global, repository, "model"), Chosen(global, repository, "effort")} \subseteq V
  BY NamesOfNow
<1>2. PairsKept
  BY <1>1, JobsCarry
<1>3. \A k \in Handlers : handler'[k] # None => HasEffort(handler[k])'
  <2>1. ASSUME NEW h \in Handlers, HandlerAction(h)
        PROVE  \A k \in Handlers : handler'[k] # None => HasEffort(handler[k])'
    <3>1. handler'[h] # None => HasEffort(handler[h])'
      BY <1>1, <2>1, RequestEffort DEF EffortsInv
    <3>2. \A k \in Handlers \ {h} : handler'[k] = handler[k]
      BY <1>1, <2>1, HandlerDoes DEF DeliveryInv, RequestDoes
    <3>. QED
      BY <3>1, <3>2 DEF EffortsInv, HasEffort
  <2>2. ASSUME NEW j \in DOMAIN jobs, JobAction(j) PROVE UNCHANGED handler
    BY <2>2 DEF JobAction, Claim, Start, Tell, StalePending, EndReview
  <2>3. ASSUME Push \/ \E d \in Deliveries : Recover(d) PROVE UNCHANGED handler
    BY <2>3 DEF Push, Recover
  <2>4. UNCHANGED webhooks => UNCHANGED handler
    BY DEF webhooks
  <2>5. UNCHANGED handler => \A k \in Handlers : handler'[k] # None => HasEffort(handler[k])'
    BY DEF EffortsInv, HasEffort
  <2>. QED
    BY <2>1, <2>2, <2>3, <2>4, <2>5, WebhookFrame DEF WebhookAction
<1>4. \A j \in DOMAIN jobs : jobs'[j].effort \in Efforts
  BY <1>2 DEF PairsKept, EffortsInv
<1>5. ASSUME NEW h \in Handlers, Enqueue(h), handler[h] # None,
             DOMAIN jobs' = DOMAIN jobs \cup {Len(jobs) + 1}, jobs'[Len(jobs) + 1] = NewJob(h)
      PROVE  \A j \in DOMAIN jobs' : jobs'[j].effort \in Efforts
  <2>1. handler[h].effort \in Efforts
    BY <1>5 DEF EffortsInv, HasEffort, Enqueue, At, Decided
  <2>2. PICK new : new = Len(jobs) + 1
    OBVIOUS
  <2>3. jobs'[new].effort \in Efforts
    BY <1>5, <2>1, <2>2 DEF NewJob
  <2>. QED
    BY <1>4, <1>5, <2>2, <2>3
<1>. QED
  BY <1>3, <1>4, <1>5, NewJobs DEF EffortsInv

LEMMA EffortsInvariant == Spec => [](DeliveryInv /\ EffortsInv)
<1>1. Init => EffortsInv
  BY DEF Init, DeliveriesInit, EffortsInv
<1>2. DeliveryInv /\ ColumnsInv /\ EffortsInv /\ [Next]_vars => EffortsInv'
  BY EffortsStep
<1>. QED
  BY <1>1, <1>2, ColumnsInvariant, DeliveryInvariant, PTL DEF Spec
=============================================================================
