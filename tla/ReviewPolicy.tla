----------------------------- MODULE ReviewPolicy -----------------------------
\* The settings of reviews and who writes them: the global row and the row of a
\* repository, the policy that is resolved from them (app/review/settings.py,
\* app/admin/control_plane.py), the forms of the administrators
\* (app/admin/routes.py) and the commands of the operators (scripts/manage_models.py,
\* scripts/manage_queue.py).
\*
\* A row read by a session stays as it was read, also when the session locks and
\* selects it again before it writes, and only the columns that differ from what was
\* read are written.  A form is a session on its own from the moment it is shown.

EXTENDS ModelCatalog

CONSTANTS
    Sessions,
    GlobalPatches,      \* what the forms and commands of the global row may submit
    RepositoryPatches   \* what the forms of a repository may submit

VARIABLES
    global,      \* GlobalReviewSettings
    repository,  \* RepositorySettings of the repository
    session,     \* session |-> what it works on and what it has read, or None
    overtaken    \* history: the rows that a session wrote after another had changed them

settings == <<global, repository>>
policyVars == <<models, settings, session, overtaken>>

-----------------------------------------------------------------------------
\* The rows.

Switches == {"enabled", "auto", "command"}
Quality == {"confidence", "severity", "low", "findings"}
GlobalFields == Switches \cup Quality
    \cup {"profile", "model", "effort", "categories", "type", "inline", "cooldown",
          "suggestions", "questions", "positives", "opened"}

\* _REPOSITORY_PATCH_FIELDS: the page also sends the cooldown and the categories.
RepositoryFields == GlobalFields \ {"cooldown", "categories"}

LOW_SEVERITY == 1
ProfileDefaults ==
    [CONSERVATIVE |-> [confidence |-> 9, severity |-> 3, low |-> FALSE, findings |-> 10],
     BALANCED |-> [confidence |-> 8, severity |-> 2, low |-> FALSE, findings |-> 20],
     THOROUGH |-> [confidence |-> 8, severity |-> LOW_SEVERITY, low |-> TRUE, findings |-> 30]]

\* What a column may hold, and what a validated patch may set its columns to: a
\* repository may also inherit.  A model without an entry in the catalog is one that was
\* not added yet.
Column(f) ==
    CASE f \in Switches \cup {"low", "cooldown", "suggestions", "questions", "positives", "opened"} -> BOOLEAN
      [] f = "profile" -> DOMAIN ProfileDefaults
      [] f = "model" -> {None} \cup Models
      [] f = "effort" -> Efforts
      [] f = "confidence" -> 8..10
      [] f = "severity" -> LOW_SEVERITY..4
      [] f = "findings" -> 1..50
      [] f = "inline" -> 1..3
      [] f = "type" -> {"MUST_FIX", "SHOULD_FIX", "SUGGESTION"}
      [] f = "categories" -> SUBSET STRING
Sets(patch, otherwise) == \A f \in GlobalFields \cap DOMAIN patch : patch[f] \in otherwise \cup Column(f)
ASSUME PatchAssumption ==
    /\ "medium" \in Efforts
    /\ \A patch \in GlobalPatches : Sets(patch, {})
    /\ \A patch \in RepositoryPatches : Sets(patch, {None})

DefaultValues ==
    [f \in GlobalFields |->
        CASE f \in Switches \cup {"suggestions", "questions", "positives", "opened"} -> TRUE
          [] f = "profile" -> "BALANCED"
          [] f = "model" -> None
          [] f = "effort" -> "medium"
          [] f = "confidence" -> 9
          [] f = "severity" -> 2
          [] f = "low" -> FALSE
          [] f = "findings" -> 10
          [] f = "categories" -> {}
          [] f = "type" -> "SUGGESTION"
          [] f = "inline" -> 3
          [] f = "cooldown" -> TRUE]

DefaultGlobal == [version |-> 1, paused |-> FALSE, inherited |-> TRUE, values |-> DefaultValues]

\* The columns enabled and auto_review are what an override last said.
DefaultRepository ==
    [version |-> 1, installed |-> TRUE, legacy |-> [enabled |-> TRUE, auto |-> TRUE],
     values |-> [f \in GlobalFields |-> None]]

-----------------------------------------------------------------------------
\* The policy.

\* resolve(): the override, else the default of the profile while the thresholds are
\* inherited, else the global value.
Chosen(g, r, f) ==
    IF r.values[f] # None THEN r.values[f]
    ELSE IF f \in Quality /\ g.inherited
         THEN ProfileDefaults[IF r.values["profile"] # None THEN r.values["profile"]
                              ELSE g.values["profile"]][f]
         ELSE g.values[f]
Effective(g, r) == [f \in GlobalFields |-> Chosen(g, r, f)]

\* It fails while the catalog does not offer the pair.
Resolvable(cat, g, r) == ValidPair(cat, Chosen(g, r, "model"), Chosen(g, r, "effort"))

\* resolve_repository_policy(), which the webhook asks.
Enabled(g, r) == Chosen(g, r, "enabled") /\ r.installed
TriggerEnabled(g, r, trigger) ==
    /\ Enabled(g, r)
    /\ IF trigger = "AUTO" THEN Chosen(g, r, "auto") ELSE Chosen(g, r, "command")
ReviewEligible(g, r, trigger) == TriggerEnabled(g, r, trigger) /\ ~g.paused

\* resolve() itself, which the worker asks: the old columns are a lower bound.
WorkerEnabled(g, r) == Chosen(g, r, "enabled") /\ r.legacy.enabled /\ r.installed

Inherits(g, r, f) == IF r.values[f] = None THEN g.values[f] ELSE r.values[f]

\* The conditions of the statement that claims a job.
ClaimGate(g, r, trigger) ==
    /\ g.values["enabled"] /\ ~g.paused /\ r.installed
    /\ Inherits(g, r, "enabled")
    /\ Inherits(g, r, IF trigger = "AUTO" THEN "auto" ELSE "command")

-----------------------------------------------------------------------------
\* Writing a row.

Given(patch, f, otherwise) == IF f \in DOMAIN patch THEN patch[f] ELSE otherwise
EffortOr(effort) == IF effort = None THEN "medium" ELSE effort

GlobalPatchIsValid(patch, row, cat) ==
    /\ DOMAIN patch \subseteq GlobalFields
    /\ {"model", "effort"} \cap DOMAIN patch # {} =>
         ValidPair(cat, Given(patch, "model", None), Given(patch, "effort", "medium"))
    /\ ValidPair(cat, Given(patch, "model", row.values["model"]),
                 Given(patch, "effort", row.values["effort"]))

\* Mutant: every override is saved.
AnyField(patch, row, cat) ==
    /\ ValidPair(cat, Given(patch, "model", None), "medium")
    /\ ValidPair(cat, Given(patch, "model", row.values["model"]),
                 EffortOr(Given(patch, "effort", row.values["effort"])))

\* Mutant: the model is checked alone.
ModelIsValid(patch, row, cat) ==
    /\ DOMAIN patch \subseteq RepositoryFields
    /\ ValidPair(cat, Given(patch, "model", None), "medium")

RepositoryPatchIsValid(patch, row, cat) ==
    /\ DOMAIN patch \subseteq RepositoryFields
    /\ ValidPair(cat, Given(patch, "model", None), "medium")
    /\ ValidPair(cat, Given(patch, "model", row.values["model"]),
                 EffortOr(Given(patch, "effort", row.values["effort"])))

\* The columns that a patch makes dirty in the row that was read.
Dirty(patch, row) == {f \in DOMAIN patch : row.values[f] # patch[f]}
Overlay(patch, row, now) ==
    [f \in GlobalFields |-> IF f \in Dirty(patch, row) THEN patch[f] ELSE now.values[f]]

\* A new profile brings its thresholds back, a threshold ends their inheritance.
Inheritance(patch, row) ==
    IF Quality \cap DOMAIN patch # {} THEN FALSE
    ELSE IF "profile" \in DOMAIN patch THEN TRUE ELSE row.inherited

\* The row that the database has after the write of a patch by a session that read
\* row: the dirty columns, and the version after the one that was read.
GlobalWritten(patch, row) ==
    IF Dirty(patch, row) = {} /\ Inheritance(patch, row) = row.inherited THEN global
    ELSE [global EXCEPT
            !.values = Overlay(patch, row, global),
            !.inherited = IF Inheritance(patch, row) # row.inherited THEN Inheritance(patch, row) ELSE @,
            !.version = row.version + 1]

\* Mutant: only an override that is off is written to the old columns.
ProjectedOff(patch, row, f) ==
    f \in DOMAIN patch /\ patch[f] = FALSE /\ row.legacy[f] # patch[f]

\* The switches of a repository are also written to the old columns, but never by a
\* return to inheritance.
Projected(patch, row, f) ==
    f \in DOMAIN patch /\ patch[f] # None /\ row.legacy[f] # patch[f]
RepositoryWritten(patch, row) ==
    IF Dirty(patch, row) = {} /\ ~\E f \in {"enabled", "auto"} : Projected(patch, row, f) THEN repository
    ELSE [repository EXCEPT
            !.values = Overlay(patch, row, repository),
            !.legacy = [f \in {"enabled", "auto"} |->
                          IF Projected(patch, row, f) THEN patch[f] ELSE repository.legacy[f]],
            !.version = row.version + 1]

PausedWritten(paused, row) ==
    IF row.paused = paused THEN global
    ELSE [global EXCEPT !.paused = paused, !.version = row.version + 1]

\* The rows after a first form for each of them.
PolicyInit(forGlobal, forRepository) ==
    /\ CatalogInit
    /\ global = [DefaultGlobal EXCEPT !.values = Overlay(forGlobal, DefaultGlobal, DefaultGlobal),
                                     !.inherited = Inheritance(forGlobal, DefaultGlobal)]
    /\ repository = [DefaultRepository EXCEPT
          !.values = Overlay(forRepository, DefaultRepository, DefaultRepository),
          !.legacy = [f \in {"enabled", "auto"} |->
                        IF Projected(forRepository, DefaultRepository, f) THEN forRepository[f] ELSE TRUE]]
    /\ session = [s \in Sessions |-> None]
    /\ overtaken = {}

-----------------------------------------------------------------------------
\* Sessions.

Pages == {"settings_page", "repository_page", "operations_page"}
Commands == {"set_default", "queue"}
Row(kind) == IF kind = "repository_page" THEN repository ELSE global

Patches(kind) ==
    CASE kind = "repository_page" -> RepositoryPatches
      [] kind = "settings_page" -> GlobalPatches
      [] kind = "set_default" -> {p \in GlobalPatches : DOMAIN p = {"model", "effort"}}
      [] OTHER -> [{"paused"} -> BOOLEAN]

\* An administrator opens a page and later submits its form with the version shown.
Open(s, kind, patch) ==
    /\ session[s] = None /\ kind \in Pages
    /\ session' = [session EXCEPT ![s] =
          [kind |-> kind, patch |-> patch, step |-> "open", expected |-> Row(kind).version,
           shown |-> Row(kind), row |-> None, catalog |-> None]]
    /\ UNCHANGED <<models, settings, overtaken>>

\* A command reads the row first and expects the version it has read.
Command(s, kind, patch) ==
    /\ session[s] = None /\ kind \in Commands
    /\ session' = [session EXCEPT ![s] =
          [kind |-> kind, patch |-> patch, step |-> IF kind = "queue" THEN "ready" ELSE "read",
           expected |-> global.version, shown |-> global, row |-> global, catalog |-> None]]
    /\ UNCHANGED <<models, settings, overtaken>>

\* update_repository() reads the row before it asks GitHub who the caller is.
ReadRow(s) ==
    /\ session[s] # None /\ session[s].kind = "repository_page" /\ session[s].step = "open"
    /\ session' = [session EXCEPT ![s].row = repository, ![s].step = "read"]
    /\ UNCHANGED <<models, settings, overtaken>>

\* The catalog against which the patch will be checked.
ReadCatalog(s) ==
    /\ session[s] # None
    /\ <<session[s].kind, session[s].step>> \in
          {<<"settings_page", "open">>, <<"repository_page", "read">>, <<"set_default", "read">>}
    /\ session' = [session EXCEPT ![s].catalog = catalog, ![s].step = "ready"]
    /\ UNCHANGED <<models, settings, overtaken>>

\* The row that a session that takes the lock works on: the one it has read, else the
\* one of now.
Locked(s) == IF session[s].row # None THEN session[s].row ELSE Row(session[s].kind)

PatchIsValid(s) ==
    CASE session[s].kind \in {"operations_page", "queue"} -> TRUE
      [] session[s].kind = "repository_page" ->
            RepositoryPatchIsValid(session[s].patch, Locked(s), session[s].catalog)
      [] OTHER -> GlobalPatchIsValid(session[s].patch, Locked(s), session[s].catalog)

\* Mutant: the expected version is not compared.
AcceptedAlways(s) == PatchIsValid(s)

Accepted(s) == session[s].expected = Locked(s).version /\ PatchIsValid(s)

\* A form concerns the values of a row and their version.
SameForForm(row, now) == row.version = now.version /\ row.values = now.values

\* Under the lock of the row: refused (409, 422), or written.
Commit(s) ==
    /\ session[s] # None
    /\ \/ session[s].step = "ready"
       \/ session[s].step = "open" /\ session[s].kind = "operations_page"
    /\ session' = [session EXCEPT ![s] = None]
    /\ LET kind == session[s].kind
           patch == session[s].patch
       IN  IF ~Accepted(s) THEN UNCHANGED settings
           ELSE /\ global' = CASE kind = "repository_page" -> global
                               [] kind \in {"operations_page", "queue"} -> PausedWritten(patch["paused"], Locked(s))
                               [] OTHER -> GlobalWritten(patch, Locked(s))
                /\ repository' = IF kind = "repository_page" THEN RepositoryWritten(patch, Locked(s))
                                 ELSE repository
    /\ overtaken' = overtaken \cup
          (IF settings' # settings /\ ~SameForForm(Locked(s), Row(session[s].kind))
           THEN {IF session[s].kind = "repository_page" THEN "repository" ELSE "global"} ELSE {})
    /\ UNCHANGED models

\* scripts/manage_installations.py writes what GitHub has listed, whatever came since.
Reconcile ==
    /\ \E access \in BOOLEAN : repository' = [repository EXCEPT !.installed = access]
    /\ UNCHANGED <<models, global, session, overtaken>>

PolicyStart(s, kind) == \E patch \in Patches(kind) : Open(s, kind, patch) \/ Command(s, kind, patch)
PolicySteps == \E s \in Sessions : ReadRow(s) \/ ReadCatalog(s) \/ Commit(s)

-----------------------------------------------------------------------------
\* Properties.

\* The columns hold what was validated, and those that the page of a repository does not
\* save stay unset.
GlobalRow == [version : Nat \ {0}, paused : BOOLEAN, inherited : BOOLEAN, values : {global.values}]
RepositoryRow == [version : Nat \ {0}, installed : BOOLEAN, legacy : [{"enabled", "auto"} -> BOOLEAN],
                  values : {repository.values}]
SessionRow(a) ==
    /\ DOMAIN a = {"kind", "patch", "step", "expected", "shown", "row", "catalog"}
    /\ a.kind \in Pages \cup Commands /\ a.patch \in Patches(a.kind)
    /\ a.step \in {"open", "read", "ready"} /\ a.expected \in Nat \ {0}
PolicyTypeOK ==
    /\ CatalogTypeOK
    /\ global \in GlobalRow /\ repository \in RepositoryRow
    /\ DOMAIN global.values = GlobalFields /\ DOMAIN repository.values = GlobalFields
    /\ \A f \in GlobalFields : global.values[f] \in Column(f) /\ repository.values[f] \in {None} \cup Column(f)
    /\ \A f \in GlobalFields \ RepositoryFields : repository.values[f] = None
    /\ DOMAIN session = Sessions /\ \A s \in Sessions : session[s] # None => SessionRow(session[s])
    /\ overtaken \subseteq {"global", "repository"}

\* A form changes a row only when the row still is what its page showed: an
\* administrator never writes over settings that somebody saved in the meantime,
\* unless a session has written the row from an older reading before or does so now.
PagesWriteWhatTheyShowed ==
    [][\A s \in Sessions :
          session[s] # None /\ session'[s] = None /\ session[s].kind \in Pages /\ settings' # settings =>
             \/ SameForForm(session[s].shown, Row(session[s].kind))
             \/ (IF session[s].kind = "repository_page" THEN "repository" ELSE "global") \in overtaken']_policyVars

\* The stored model is one whose verified efforts hold the stored effort, although the
\* catalog was read before the lock was taken and the pair may come from two writers.
\* A repository without an effort of its own is held to medium.
StoredPairIsVerified ==
    LET Offered(m, e) == m # None => catalog[m] # None /\ e \in catalog[m].efforts
    IN  /\ "global" \notin overtaken => Offered(global.values["model"], global.values["effort"])
        /\ "repository" \notin overtaken =>
             Offered(repository.values["model"], EffortOr(repository.values["effort"]))

\* An explicit override of the switch decides what the worker does, whatever was saved,
\* inherited, suspended and restored before: the old column, which the worker looks at
\* too, is never left behind by the override.
ExplicitOverridesWin ==
    "repository" \notin overtaken /\ repository.values["enabled"] # None =>
        (WorkerEnabled(global, repository) <=> repository.values["enabled"] /\ repository.installed)
=============================================================================
