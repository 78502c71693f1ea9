------------------------------ MODULE Warehouse -----------------------------
(***************************************************************************)
(* The access review in the warehouse: Fivetran lands audit events in a    *)
(* raw table and dbt, run after run, derives from it the offboarding       *)
(* exceptions.  Staging and facts are incremental tables, each with a      *)
(* watermark of its own; the identities and the exceptions are rebuilt.  A *)
(* run builds the models in the order of their references and may stop     *)
(* after any of them; events land and HR changes meanwhile.                *)
(***************************************************************************)
EXTENDS Naturals, FiniteSets

CONSTANTS Who,           \* Teleport users
          NoUser,        \* the user of an event that names none
          Listed,        \* those HR has on its roster, now or later
          Stream,        \* the audit events that reach the S3 bucket
          File,          \* the S3 objects; an event may be in several
          MaxRows,       \* raw rows landed
          Date,          \* the dates HR may enter
          Day            \* how long a day is, in the unit of event times

\* The types a reviewer reasons about, and those the facts leave out.
AccessType == {"user.login", "user.create", "user.update", "user.delete",
               "session.start", "access_request.create",
               "access_request.review", "lock.create"}
EventType == AccessType \cup {"session.end", "cert.create"}

AuditEvent ==
    [uid : Nat, time : Nat \ {0}, who : Who \cup {NoUser}, type : EventType]

ASSUME NoUserAssumption == NoUser \notin Who
ASSUME StreamAssumption ==
    /\ Stream \subseteq AuditEvent
    /\ \A e, f \in Stream : e.uid = f.uid => e = f
ASSUME RosterAssumption == Listed \subseteq Who /\ Date \subseteq Nat
ASSUME BoundAssumption == Day \in Nat \ {0} /\ MaxRows \in Nat

Row == [event : Stream, file : File]

\* What the roster says of a user, with the date of the termination if it has
\* one; a user it does not list is "unknown".
Status == [employment : {"unknown", "active"}, at : {{}}]
          \cup [employment : {"terminated"}, at : {{}} \cup {{d} : d \in Date}]
Unlisted == [employment |-> "unknown", at |-> {}]

Model == {"staging", "facts", "identities", "exceptions"}

VARIABLES
    raw,          \* rows Fivetran has landed
    deleted,      \* those it has tombstoned since
    roster,       \* [Who -> Status], the HR seed
    staging,      \* stg_teleport_events
    identities,   \* dim_identity: [the users it has a row for -> Status]
    facts,        \* fct_access_events
    exceptions,   \* mart_offboarding_exceptions, by fact row
    built,        \* the models the current run has built
    touched,      \* history: raw or roster changed since the run began
    late          \* history: rows that landed after one at least as new

vars == <<raw, deleted, roster, staging, identities, facts, exceptions, built,
          touched, late>>

-----------------------------------------------------------------------------
NewerThan(table) ==
    {r \in Row : \A s \in table : r.event.time > s.event.time}

\* Mutant: by what landed since the last run, not by the time of the event.
NewlyLanded == (raw \ deleted) \ staging

\* The rows a run adds to staging.
NewlyStaged == (raw \ deleted) \cap NewerThan(staging)

AccessRelevant(r) == r.event.type \in AccessType

\* The rows a run adds to the facts.
NewFacts == {r \in staging : AccessRelevant(r)} \cap NewerThan(facts)

Observed == {r.event.who : r \in staging} \ {NoUser}

\* The roster joined with whoever the events have seen.
Identities ==
    [w \in Observed \cup {x \in Who : roster[x] # Unlisted} |-> roster[w]]

\* Only use counts: what the Leaver path itself leaves behind does not.
IsUse(e) == e.type \in {"user.login", "session.start", "access_request.create"}

Exceptional(e, status) ==
    /\ status.employment = "terminated"
    /\ \E date \in status.at : e.time > date + Day
    /\ IsUse(e)

\* A row joins whoever it names in known, if anybody.
IsException(r, known) ==
    /\ r.event.who \in DOMAIN known
    /\ Exceptional(r.event, known[r.event.who])

Exceptions == {r \in facts : IsException(r, identities)}

-----------------------------------------------------------------------------
Init ==
    /\ raw = {} /\ deleted = {} /\ staging = {} /\ facts = {}
    /\ roster = [w \in Who |-> Unlisted]
    /\ identities = [w \in {} |-> Unlisted]
    /\ exceptions = {}
    /\ built = {}
    /\ touched = FALSE
    /\ late = {}

\* A file arrives, late or a second time included.
Land(r) ==
    /\ r \notin raw
    /\ Cardinality(raw) < MaxRows
    /\ raw' = raw \cup {r}
    /\ late' = IF r \in NewerThan(raw) THEN late ELSE late \cup {r}
    /\ touched' = TRUE
    /\ UNCHANGED <<deleted, roster, staging, identities, facts, exceptions, built>>

Tombstone(r) ==
    /\ r \in raw \ deleted
    /\ deleted' = deleted \cup {r}
    /\ touched' = TRUE
    /\ UNCHANGED <<raw, roster, staging, identities, facts, exceptions, built, late>>

\* Hired, terminated with or without a date, hired again, or taken off the list.
SeedRoster(w, status) ==
    /\ roster' = [roster EXCEPT ![w] = status]
    /\ touched' = TRUE
    /\ UNCHANGED <<raw, deleted, staging, identities, facts, exceptions, built, late>>

\* A run begins, however far the one before it came.
Run ==
    /\ built' = {}
    /\ touched' = FALSE
    /\ UNCHANGED <<raw, deleted, roster, staging, identities, facts, exceptions, late>>

\* A model is built once in a run, after the models it refers to.
Builds(model, needs) ==
    /\ model \notin built
    /\ needs \subseteq built
    /\ built' = built \cup {model}
    /\ UNCHANGED <<raw, deleted, roster, touched, late>>

BuildStaging ==
    /\ Builds("staging", {})
    /\ staging' = staging \cup NewlyStaged
    /\ UNCHANGED <<identities, facts, exceptions>>

BuildIdentities ==
    /\ Builds("identities", {"staging"})
    /\ identities' = Identities
    /\ UNCHANGED <<staging, facts, exceptions>>

BuildFacts ==
    /\ Builds("facts", {"staging"})
    /\ facts' = facts \cup NewFacts
    /\ UNCHANGED <<staging, identities, exceptions>>

\* Mutant of BuildExceptions: the reference to the facts is missing.
BuildExceptionsEarly ==
    /\ Builds("exceptions", {"identities"})
    /\ exceptions' = Exceptions
    /\ UNCHANGED <<staging, identities, facts>>

BuildExceptions ==
    /\ Builds("exceptions", {"identities", "facts"})
    /\ exceptions' = Exceptions
    /\ UNCHANGED <<staging, identities, facts>>

Next ==
    \/ \E r \in Row : Land(r) \/ Tombstone(r)
    \/ \E w \in Listed, status \in Status : SeedRoster(w, status)
    \/ Run \/ BuildStaging \/ BuildIdentities \/ BuildFacts \/ BuildExceptions

Spec == Init /\ [][Next]_vars

-----------------------------------------------------------------------------
TypeOK ==
    /\ raw \subseteq Row /\ deleted \subseteq raw /\ late \subseteq raw
    /\ staging \subseteq raw /\ facts \subseteq raw /\ exceptions \subseteq facts
    /\ roster \in [Who -> Status]
    /\ DOMAIN identities \subseteq Who
    /\ \A w \in DOMAIN identities : identities[w] \in Status
    /\ built \subseteq Model
    /\ touched \in BOOLEAN

(* The watermark of the facts loses nothing that the watermark of staging   *)
(* let through, whatever lands late or twice and wherever runs stop: a      *)
(* relevant staged row is a fact once the run has built the facts, and      *)
(* every user a fact names resolves to an identity of that run (the two is_ *)
(* incremental filters, and the relationships test on teleport_user).       *)
FactsFollowStaging ==
    "facts" \in built =>
        /\ facts = {r \in staging : AccessRelevant(r)}
        /\ "identities" \in built =>
               \A r \in facts : r.event.who \in DOMAIN identities \cup {NoUser}

(* When a run ends and nothing changed since it began, the exceptions are   *)
(* those of the audit record: each is the use of a user the roster says had *)
(* left over a day before, and one is missing only if its row landed late   *)
(* or was tombstoned (mart_offboarding_exceptions and the two filters).  Of *)
(* a user who left without a date, or whom the roster dropped, and of an    *)
(* event that names nobody, the mart says nothing.                          *)
MissedOnlyIfLate ==
    "exceptions" \in built /\ ~touched =>
        /\ \A r \in exceptions : IsException(r, roster)
        /\ \A r \in raw \ (deleted \cup late) :
               IsException(r, roster) => r \in exceptions
=============================================================================
