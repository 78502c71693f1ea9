--------------------------- MODULE WarehouseProofs --------------------------
(***************************************************************************)
(* Both claims of Warehouse for every stream of events, roster, number of  *)
(* files and length of a day, wherever runs stop.  Each watermark needs    *)
(* its own invariant: a row that is still to be taken in is newer than     *)
(* everything the table holds, for the facts always, for staging unless    *)
(* the row landed late.                                                    *)
(***************************************************************************)
EXTENDS Warehouse, TLAPS

\* What a run has built it built in the order of the references.
BuiltInv ==
    /\ built \cap {"facts", "identities"} # {} => "staging" \in built
    /\ "exceptions" \in built => {"facts", "identities"} \subseteq built

Relevant == {r \in staging : AccessRelevant(r)}

FactsInv ==
    /\ facts \subseteq Relevant
    /\ Relevant \ facts \subseteq NewerThan(facts)
    /\ "facts" \in built => Relevant \subseteq facts
    /\ "identities" \in built => Observed \subseteq DOMAIN identities

\* The rows that neither landed late nor went away.
Timely == raw \ (deleted \cup late)

TimelyInv ==
    /\ Timely \ staging \subseteq NewerThan(staging)
    /\ "staging" \in built /\ ~touched => Timely \subseteq staging

UpToDate ==
    /\ "identities" \in built /\ ~touched =>
           \A w \in DOMAIN identities : identities[w] = roster[w]
    /\ "exceptions" \in built => exceptions = Exceptions

IInv == TypeOK /\ BuiltInv /\ FactsInv /\ TimelyInv /\ UpToDate

-----------------------------------------------------------------------------
(* The invariant holds at the start, and every action preserves it.         *)
LEMMA InitInv == Init => IInv
<1> SUFFICES ASSUME Init PROVE IInv
  OBVIOUS
<1>1. Unlisted \in Status
  BY DEF Unlisted, Status
<1>2. TypeOK
  BY <1>1 DEF Init, TypeOK
<1>3. BuiltInv /\ TimelyInv /\ UpToDate
  BY DEF Init, BuiltInv, TimelyInv, Timely, UpToDate
<1>4. FactsInv
  BY DEF Init, FactsInv, Relevant
<1>5. QED
  BY <1>2, <1>3, <1>4 DEF IInv

\* The tables that are derived stay as they are: a row lands or goes, HR
\* changes the roster, a run begins.
LEMMA OutsideInv ==
    ASSUME IInv,
           \/ \E r \in Row : Land(r) \/ Tombstone(r)
           \/ \E w \in Listed, status \in Status : SeedRoster(w, status)
           \/ Run
    PROVE  IInv'
<1> USE DEF IInv
<1>1. /\ UNCHANGED <<staging, identities, facts, exceptions>>
      /\ built' \subseteq built
      /\ built' = built \/ built' = {}
      /\ touched' \/ built' = {}
  BY DEF Land, Tombstone, SeedRoster, Run
<1>2. TypeOK'
  <2>1. raw' \subseteq Row /\ deleted' \subseteq raw' /\ late' \subseteq raw'
        /\ raw \subseteq raw'
    BY DEF TypeOK, Land, Tombstone, SeedRoster, Run
  <2>2. roster' \in [Who -> Status]
    BY DEF TypeOK, Land, Tombstone, SeedRoster, Run
  <2>3. touched' \in BOOLEAN
    BY DEF TypeOK, Land, Tombstone, SeedRoster, Run
  <2>4. QED
    BY <1>1, <2>1, <2>2, <2>3 DEF TypeOK
<1>3. BuiltInv'
  BY <1>1 DEF BuiltInv
<1>4. FactsInv'
  BY <1>1 DEF FactsInv, Relevant, NewerThan, Observed
<1>5. TimelyInv'
  <2>1. Timely' \ staging \subseteq NewerThan(staging)
    <3> SUFFICES ASSUME NEW r \in Timely', r \notin staging
                 PROVE  r \in NewerThan(staging)
      OBVIOUS
    <3>1. CASE r \in Timely
      BY <3>1 DEF TimelyInv
    <3>2. CASE r \notin Timely
      <4>1. Land(r) /\ r \in NewerThan(raw)
        BY <3>2 DEF Timely, Land, Tombstone, SeedRoster, Run
      <4>2. QED
        BY <4>1 DEF NewerThan, TypeOK
    <3>3. QED
      BY <3>1, <3>2
  <2>2. QED
    BY <1>1, <2>1 DEF TimelyInv, NewerThan
<1>6. UpToDate'
  BY <1>1 DEF UpToDate, Exceptions
<1>7. QED
  BY <1>2, <1>3, <1>4, <1>5, <1>6

LEMMA StagingInv == ASSUME IInv, BuildStaging PROVE IInv'
<1> USE DEF IInv
<1>1. /\ "staging" \notin built
      /\ built' = built \cup {"staging"}
      /\ staging' = staging \cup NewlyStaged
      /\ UNCHANGED <<raw, deleted, roster, touched, late, identities, facts, exceptions>>
  BY DEF BuildStaging, Builds
<1>2. built' = {"staging"}
  BY <1>1 DEF BuiltInv, TypeOK, Model
<1>3. NewlyStaged \subseteq NewerThan(staging) /\ NewlyStaged \subseteq raw
  BY DEF NewlyStaged
<1>4. TypeOK'
  BY <1>1, <1>3 DEF TypeOK, Model
<1>5. BuiltInv'
  BY <1>2 DEF BuiltInv
<1>6. FactsInv'
  <2>1. facts \subseteq staging
    BY DEF FactsInv, Relevant
  <2>2. NewlyStaged \subseteq NewerThan(facts)
    BY <1>3, <2>1 DEF NewerThan
  <2>3. Relevant' \subseteq Relevant \cup NewlyStaged /\ Relevant \subseteq Relevant'
    BY <1>1 DEF Relevant
  <2>4. NewerThan(facts)' = NewerThan(facts)
    BY <1>1 DEF NewerThan
  <2>5. QED
    BY <1>1, <1>2, <2>2, <2>3, <2>4 DEF FactsInv
<1>7. TimelyInv'
  <2>1. Timely' = Timely /\ Timely \ staging \subseteq NewlyStaged
    BY <1>1 DEF Timely, TimelyInv, NewlyStaged
  <2>2. QED
    BY <1>1, <2>1 DEF TimelyInv
<1>8. UpToDate'
  BY <1>2 DEF UpToDate
<1>9. QED
  BY <1>4, <1>5, <1>6, <1>7, <1>8

LEMMA IdentitiesInv == ASSUME IInv, BuildIdentities PROVE IInv'
<1> USE DEF IInv
<1>1. /\ "identities" \notin built /\ "exceptions" \notin built
      /\ "staging" \in built
      /\ built' = built \cup {"identities"}
      /\ identities' = Identities
      /\ UNCHANGED <<raw, deleted, roster, touched, late, staging, facts, exceptions>>
  BY DEF BuildIdentities, Builds, BuiltInv
<1>2. /\ Observed \subseteq DOMAIN Identities
      /\ DOMAIN Identities \subseteq Who
      /\ \A w \in DOMAIN Identities : Identities[w] = roster[w]
  <2>1. Observed \subseteq Who
    BY StreamAssumption DEF Observed, TypeOK, Row, AuditEvent
  <2>2. QED
    BY <2>1 DEF Identities
<1>3. TypeOK'
  BY <1>1, <1>2 DEF TypeOK, Model
<1>4. BuiltInv'
  BY <1>1 DEF BuiltInv
<1>5. FactsInv'
  BY <1>1, <1>2 DEF FactsInv, Relevant, NewerThan, Observed
<1>6. TimelyInv'
  BY <1>1 DEF TimelyInv, Timely, NewerThan
<1>7. UpToDate'
  BY <1>1, <1>2 DEF UpToDate
<1>8. QED
  BY <1>3, <1>4, <1>5, <1>6, <1>7

LEMMA FactsStepInv == ASSUME IInv, BuildFacts PROVE IInv'
<1> USE DEF IInv
<1>1. /\ "facts" \notin built /\ "exceptions" \notin built
      /\ "staging" \in built
      /\ built' = built \cup {"facts"}
      /\ facts' = facts \cup NewFacts
      /\ UNCHANGED <<raw, deleted, roster, touched, late, staging, identities, exceptions>>
  BY DEF BuildFacts, Builds, BuiltInv
<1>2. facts' = Relevant
  BY <1>1 DEF FactsInv, NewFacts, Relevant
<1>3. Relevant \subseteq staging /\ facts \subseteq facts'
  BY <1>1 DEF Relevant
<1>4. TypeOK'
  BY <1>1, <1>2, <1>3 DEF TypeOK, Model
<1>5. BuiltInv'
  BY <1>1 DEF BuiltInv
<1>6. FactsInv'
  BY <1>1, <1>2 DEF FactsInv, Relevant, Observed
<1>7. TimelyInv'
  BY <1>1 DEF TimelyInv, Timely, NewerThan
<1>8. UpToDate'
  BY <1>1 DEF UpToDate
<1>9. QED
  BY <1>4, <1>5, <1>6, <1>7, <1>8

LEMMA ExceptionsInv == ASSUME IInv, BuildExceptions PROVE IInv'
<1> USE DEF IInv
<1>1. /\ {"facts", "identities"} \subseteq built
      /\ built' = built \cup {"exceptions"}
      /\ exceptions' = Exceptions
      /\ UNCHANGED <<raw, deleted, roster, touched, late, staging, identities, facts>>
  BY DEF BuildExceptions, Builds
<1>2. Exceptions \subseteq facts /\ Exceptions' = Exceptions
  BY <1>1 DEF Exceptions
<1>3. TypeOK'
  BY <1>1, <1>2 DEF TypeOK, Model
<1>4. BuiltInv'
  BY <1>1 DEF BuiltInv
<1>5. FactsInv'
  BY <1>1 DEF FactsInv, Relevant, NewerThan, Observed
<1>6. TimelyInv'
  BY <1>1 DEF TimelyInv, Timely, NewerThan
<1>7. UpToDate'
  BY <1>1, <1>2 DEF UpToDate
<1>8. QED
  BY <1>3, <1>4, <1>5, <1>6, <1>7

(* The inductive invariant holds of every behaviour.                        *)
THEOREM Invariance == Spec => []IInv
<1>1. IInv /\ [Next]_vars => IInv'
  <2> SUFFICES ASSUME IInv, [Next]_vars PROVE IInv'
    OBVIOUS
  <2>1. CASE \/ \E r \in Row : Land(r) \/ Tombstone(r)
             \/ \E w \in Listed, status \in Status :
                    SeedRoster(w, status)
             \/ Run
    BY <2>1, OutsideInv
  <2>2. CASE BuildStaging \/ BuildIdentities \/ BuildFacts \/ BuildExceptions
    BY <2>2, StagingInv, IdentitiesInv, FactsStepInv, ExceptionsInv
  <2>3. CASE UNCHANGED vars
    BY <2>3 DEF vars, IInv, TypeOK, BuiltInv, FactsInv, Relevant, Observed,
       NewerThan, TimelyInv, Timely, UpToDate, Exceptions
  <2>4. QED
    BY <2>1, <2>2, <2>3 DEF Next
<1>2. QED
  BY <1>1, InitInv, PTL DEF Spec

(* Every variable keeps its type.                                           *)
THEOREM TypeCorrect == Spec => []TypeOK
<1>1. IInv => TypeOK
  BY DEF IInv
<1>2. QED
  BY <1>1, Invariance, PTL

(* The second watermark loses nothing the first let through, and every fact *)
(* resolves to an identity of its run (fct_access_events, dim_identity).    *)
THEOREM FactsFollow == Spec => []FactsFollowStaging
<1>1. IInv => FactsFollowStaging
  BY DEF IInv, FactsInv, Relevant, Observed, FactsFollowStaging
<1>2. QED
  BY <1>1, Invariance, PTL

(* The exceptions of an undisturbed run are sound, and complete but for the *)
(* rows that landed late or were tombstoned (mart_offboarding_exceptions).  *)
THEOREM OnlyLateIsMissed == Spec => []MissedOnlyIfLate
<1>1. IInv => MissedOnlyIfLate
  <2> SUFFICES ASSUME IInv, "exceptions" \in built, ~touched
               PROVE  /\ \A r \in exceptions : IsException(r, roster)
                      /\ \A r \in Timely : IsException(r, roster) => r \in exceptions
    BY DEF MissedOnlyIfLate, Timely
  <2>1. /\ {"facts", "identities", "staging"} \subseteq built
        /\ exceptions = Exceptions
        /\ \A w \in DOMAIN identities : identities[w] = roster[w]
    BY DEF IInv, BuiltInv, UpToDate
  <2>2. ASSUME NEW r \in exceptions
        PROVE  IsException(r, roster)
    BY <2>1, <2>2 DEF Exceptions, IsException, IInv, TypeOK
  <2>3. ASSUME NEW r \in Timely, IsException(r, roster)
        PROVE  r \in exceptions
    <3>1. r \in staging /\ AccessRelevant(r)
      BY <2>1, <2>3 DEF IInv, TimelyInv, IsException, Exceptional, IsUse,
         AccessRelevant, AccessType
    <3>2. r.event.who # NoUser
      BY <2>3, NoUserAssumption DEF IsException, IInv, TypeOK
    <3>3. r \in facts /\ r.event.who \in DOMAIN identities
      BY <2>1, <3>1, <3>2 DEF IInv, FactsInv, Relevant, Observed
    <3>4. QED
      BY <2>1, <2>3, <3>3 DEF Exceptions, IsException
  <2>4. QED
    BY <2>2, <2>3
<1>2. QED
  BY <1>1, Invariance, PTL

=============================================================================
