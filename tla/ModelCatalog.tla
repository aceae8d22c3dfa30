----------------------------- MODULE ModelCatalog -----------------------------
\* The catalog of models a review may use: app/review/model_catalog_store.py and
\* model_catalog.py, with the operator's commands scripts/manage_models.py and
\* scripts/verify_codex_model.py.  Each operation is one transaction that holds the
\* lock of the entry.
\*
\* The version of the catalog is a refusal that a command may ask for, and the CLI
\* version of a verification is a note: both are left out.

EXTENDS Integers, FiniteSets, Nullable

CONSTANTS
    Models,
    Efforts,
    Seeded      \* the efforts of each model that were verified before

Entry == [enabled : BOOLEAN,
          status : {"CANDIDATE", "VERIFYING", "VERIFIED", "FAILED", "DISABLED", "RETIRED"},
          efforts : SUBSET Efforts]
Terminal == {"SUCCEEDED", "FAILED", "UNKNOWN"}

ASSUME CatalogAssumption ==
    /\ Seeded \in [Models -> SUBSET Efforts]
    /\ None \notin Models \cup Efforts \cup Entry \cup Terminal \cup {"RUNNING"}

VARIABLES
    catalog,        \* model |-> its entry, or None
    verification    \* <<model, effort>> |-> the state of its verification, or None

models == <<catalog, verification>>

CatalogTypeOK ==
    /\ catalog \in [Models -> Entry \cup {None}]
    /\ verification \in [Models \X Efforts -> Terminal \cup {"RUNNING", None}]

Candidate == [enabled |-> FALSE, status |-> "CANDIDATE", efforts |-> {}]
Verified(efforts) == [enabled |-> TRUE, status |-> "VERIFIED", efforts |-> efforts]

CatalogInit ==
    /\ catalog = [m \in Models |-> IF Seeded[m] = {} THEN None ELSE Verified(Seeded[m])]
    /\ verification = [p \in Models \X Efforts |-> IF p[2] \in Seeded[p[1]] THEN "SUCCEEDED" ELSE None]

\* What a transaction that has read the catalog cat makes of a model, and of a model
\* with an effort; None is the default of the CLI, which has no entry.
Selectable(cat, m) ==
    cat[m] # None /\ cat[m].enabled /\ cat[m].status = "VERIFIED" /\ cat[m].efforts # {}
ValidPair(cat, m, e) == m # None => Selectable(cat, m) /\ e \in cat[m].efforts

\* An entry that exists is returned as it is.
AddCandidate(m) ==
    /\ catalog[m] = None
    /\ catalog' = [catalog EXCEPT ![m] = Candidate]
    /\ UNCHANGED verification

\* A pair is verified once: a success is returned again, anything else refused.
StartVerification(m, e) ==
    /\ catalog[m] # None /\ verification[<<m, e>>] = None
    /\ catalog' = [catalog EXCEPT ![m].status = "VERIFYING"]
    /\ verification' = [verification EXCEPT ![<<m, e>>] = "RUNNING"]

\* Mutant: the result is recorded as a success of whatever was started.
ConcludedAnyway(entry, e, result) ==
    IF result \in {"SUCCEEDED", "UNKNOWN"} THEN Verified(entry.efforts \cup {e})
    ELSE [entry EXCEPT !.enabled = entry.efforts # {},
                       !.status = IF entry.efforts # {} THEN "VERIFIED" ELSE "FAILED"]

\* The entry after a verification of e: a success adds the effort, any other result
\* leaves the efforts there were, and with them the model in use.
Concluded(entry, e, result) ==
    IF result = "SUCCEEDED" THEN Verified(entry.efforts \cup {e})
    ELSE [entry EXCEPT !.enabled = entry.efforts # {},
                       !.status = IF entry.efforts # {} THEN "VERIFIED" ELSE "FAILED"]

\* Mutant: a recorded result is applied once more.
FinishAgain(m, e, result) ==
    /\ verification[<<m, e>>] # None
    /\ LET known == IF verification[<<m, e>>] \in Terminal THEN verification[<<m, e>>] ELSE result
       IN  /\ catalog' = [catalog EXCEPT ![m] = Concluded(@, e, known)]
           /\ verification' = [verification EXCEPT ![<<m, e>>] = known]

\* The script that ran the verification or an operator records its result, each of
\* them perhaps after the other: a recorded result stays.
FinishVerification(m, e, result) ==
    /\ verification[<<m, e>>] # None
    /\ IF verification[<<m, e>>] \in Terminal THEN UNCHANGED models
       ELSE /\ catalog' = [catalog EXCEPT ![m] = Concluded(@, e, result)]
            /\ verification' = [verification EXCEPT ![<<m, e>>] = result]

Disable(m, status) ==
    /\ catalog[m] # None
    /\ catalog' = [catalog EXCEPT ![m].enabled = FALSE, ![m].status = status]
    /\ UNCHANGED verification

\* What an operator starts, and what ends it.
CatalogCommand ==
    \E m \in Models :
        \/ AddCandidate(m)
        \/ \E e \in Efforts : StartVerification(m, e)
        \/ \E status \in {"DISABLED", "RETIRED"} : Disable(m, status)
CatalogResult ==
    \E m \in Models, e \in Efforts, result \in Terminal : FinishVerification(m, e, result)

CatalogNext == CatalogCommand \/ CatalogResult
CatalogSpec == CatalogInit /\ [][CatalogNext]_models

\* A model offers an effort only when a verification of that pair has succeeded, and
\* it is in use only with such an effort, whatever was disabled, failed or verified
\* side by side.
EffortsAreVerified ==
    \A m \in Models : catalog[m] # None =>
        /\ \A e \in catalog[m].efforts : verification[<<m, e>>] = "SUCCEEDED"
        /\ catalog[m].enabled => catalog[m].efforts # {}

\* A model that is out of use comes back only when a verification of it ends that was
\* running until then: a result that is recorded late or twice brings back nothing.
OnlyVerificationReenables ==
    [][\A m \in Models :
          catalog[m] # None /\ ~catalog[m].enabled /\ catalog'[m] # None /\ catalog'[m].enabled =>
             \E e \in Efforts : verification[<<m, e>>] = "RUNNING"
                                /\ verification'[<<m, e>>] \in Terminal]_models
=============================================================================
