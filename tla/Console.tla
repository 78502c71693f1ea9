------------------------------- MODULE Console ------------------------------
(***************************************************************************)
(* The live console: the HTTP handlers of cmd/server over one Runner.      *)
(* Requests are served concurrently.  A handler is one critical section of *)
(* the Runner's mutex, except Incident, which is two: it locks the target  *)
(* and then ends its sessions, and any request may come in between, one    *)
(* that loads another scenario included.                                   *)
(***************************************************************************)
EXTENDS Runner, FiniteSets

CONSTANTS Seed,          \* [scenario id -> the cluster its seeder builds]
          Live,          \* [scenario id -> the people live requests name]
          LiveDepartment, \* the departments live requests name
          LiveAgent,     \* the agents live requests name
          LivePosture,   \* the managed and compliant flags they register
          MaxOpen        \* incident responses under way at once

ASSUME SeedAssumption == \A id \in DOMAIN Seed : Seed[id] \in Cluster
ASSUME LiveAssumption ==
    /\ Live \in [DOMAIN Seed -> SUBSET Human]
    /\ LiveDepartment \subseteq Department
    /\ LiveAgent \subseteq Agent
    /\ LivePosture \subseteq [managed : BOOLEAN, compliant : BOOLEAN]
    /\ MaxOpen \in Nat
    /\ "none" \in Title
    /\ "baseline" \in DOMAIN Seed
\* scenarios.go, seedClean: "zero findings", and every session on a good device.
ASSUME CleanAssumption ==
    "clean" \in DOMAIN Seed =>
        /\ IdentityFindings(Seed["clean"]) = {}
        /\ \A s \in Seed["clean"].sessions :
              PassesPosture(Seed["clean"].devices, s.user)

Scenario == DOMAIN Seed

VARIABLES
    run,          \* the Runner
    current,      \* Runner.current
    incidents,    \* [Human -> how far the latest incident response came]
    reconciled,   \* history: people a live event succeeded for since the load
    upserted      \* history: [Human -> the last posture registered since, if any]

vars == <<run, current, incidents, reconciled, upserted>>

\* A response that a load overtook is "overtaken", then "halved".
Open == {h \in Human : incidents[h] \in {"locked", "overtaken"}}

Response == {"none", "locked", "contained", "overtaken", "halved"}

-----------------------------------------------------------------------------
Loaded(id) ==
    /\ run' = Seed[id]
    /\ current' = id
    /\ reconciled' = {}
    /\ upserted' = [h \in Human |-> {}]

\* New
Init ==
    /\ run = Seed["baseline"]
    /\ current = "baseline"
    /\ incidents = [h \in Human |-> "none"]
    /\ reconciled = {}
    /\ upserted = [h \in Human |-> {}]

\* Load and Seed.  An unknown id is refused, yet it loads the baseline, so it
\* is the same step.
Load(id) ==
    /\ Loaded(id)
    /\ incidents' = [h \in Human |->
           IF h \in Open THEN "overtaken" ELSE "none"]

HumanEvent(ev) ==
    /\ run' = ApplyHuman(run, ev)
    /\ reconciled' = IF Validate(ev) THEN reconciled \cup {ev.employee.email}
                                     ELSE reconciled
    /\ UNCHANGED <<current, incidents, upserted>>

AgentEvents(ev) ==
    /\ run' = ApplyAgent(run, ev)
    /\ UNCHANGED <<current, incidents, reconciled, upserted>>

\* An empty target is refused.
LockRequest(h) ==
    /\ run' = Lock(run, h)
    /\ UNCHANGED <<current, incidents, reconciled, upserted>>

TerminateRequest(h) ==
    /\ run' = TerminateSessions(run, h)
    /\ UNCHANGED <<current, incidents, reconciled, upserted>>

DeviceRequest(h, serial, managed, compliant) ==
    /\ run' = UpsertDevice(run, serial, h, managed, compliant)
    /\ upserted' = [upserted EXCEPT ![h] =
                       {[managed |-> managed, compliant |-> compliant]}]
    /\ UNCHANGED <<current, incidents, reconciled>>

\* Incident, first critical section.
IncidentLock(h) ==
    /\ h \notin Open
    /\ Cardinality(Open) < MaxOpen
    /\ run' = Lock(run, h)
    /\ incidents' = [incidents EXCEPT ![h] = "locked"]
    /\ UNCHANGED <<current, reconciled, upserted>>

\* Incident, second critical section.
IncidentTerminate(h) ==
    /\ h \in Open
    /\ run' = TerminateSessions(run, h)
    /\ incidents' = [incidents EXCEPT ![h] =
                        IF @ = "locked" THEN "contained" ELSE "halved"]
    /\ UNCHANGED <<current, reconciled, upserted>>

LiveHumanEvents ==
    {NewHumanEvent(type, h, dept, "none") :
        type \in EventType, h \in Live[current] \cup {NoEmail},
        dept \in LiveDepartment}

LiveAgentEvents ==
    {NewAgentEvent(type, a, Capability) : type \in EventType, a \in LiveAgent}

Next ==
    \/ \E id \in Scenario : Load(id)
    \/ \E ev \in LiveHumanEvents : HumanEvent(ev)
    \/ \E ev \in LiveAgentEvents : AgentEvents(ev)
    \/ \E h \in Live[current] :
          \/ LockRequest(h)
          \/ TerminateRequest(h)
          \/ IncidentLock(h)
    \/ \E h \in Live[current], serial \in Serial, p \in LivePosture :
          DeviceRequest(h, serial, p.managed, p.compliant)
    \/ \E h \in Human : IncidentTerminate(h)

Spec == Init /\ [][Next]_vars

-----------------------------------------------------------------------------
TypeOK ==
    /\ run \in Cluster
    /\ current \in Scenario
    /\ incidents \in [Human -> Response]
    /\ reconciled \subseteq Human
    /\ upserted \in [Human -> SUBSET [managed : BOOLEAN, compliant : BOOLEAN]]

(* A live HR event settles its subject: from then until another scenario is *)
(* loaded no offboarding or escalation finding names it, whatever the seed  *)
(* had planted and whatever requests follow (applyHuman, Detect).           *)
ReconciledIsClean ==
    \A f \in OffboardedSessions(run) \cup OffboardedSurvivors(run)
               \cup PrivilegeEscalations(run) :
        f.user \notin reconciled

(* No request creates an offboarding, escalation or new-geo finding: those  *)
(* about the seed only ever go away until a scenario is loaded.             *)
RequestsAddNoIdentityFinding ==
    [][\/ IdentityFindings(run)' \subseteq IdentityFindings(run)
       \/ \E id \in Scenario : Load(id)]_vars

(* An incident response that no load overtook contains its target: locked   *)
(* and with no live session, through every later request and HR event.      *)
IncidentContains ==
    \A h \in Human : incidents[h] = "contained" =>
        h \in run.locks /\ \A s \in run.sessions : s.user # h

(* scenario.go, Incident: "lock the identity AND terminate every live       *)
(* session -- the one-click containment".  This is what it says of every    *)
(* response that returned, those a load overtook included.                  *)
IncidentAlwaysContains ==
    \A h \in Human : incidents[h] \in {"contained", "halved"} =>
        h \in run.locks /\ \A s \in run.sessions : s.user # h

(* What Device Trust reports about an owner is the posture last registered, *)
(* whichever serial numbers the owner's devices had before.                 *)
PostureFollowsUpsert ==
    \A h \in Human : \A p \in upserted[h] :
        /\ IsManaged(run.devices, h) = p.managed
        /\ PassesPosture(run.devices, h) = (p.managed /\ p.compliant)

AboutOthers(c, owner) == {f \in UntrustedDevices(c) : f.user # owner}

EverySessionOfOthers(c, owner) ==
    {Finding("unmanaged-device", s.user, s.id) :
        s \in {t \in c.sessions : t.user # owner}}

(* Registering a device changes what the audit says of its owner and of     *)
(* nobody else, except for the first device of all: it switches the         *)
(* detector on for everybody, and every session of the others is reported   *)
(* as unmanaged (UpsertDevice, and the test of len(r.devices) in Trace).    *)
RegistrationConcernsOneOwner ==
    [][\/ run'.devices = run.devices
       \/ \E id \in Scenario : Load(id)
       \/ \E owner \in Human :
             AboutOthers(run, owner)' = IF run.devices = {}
                                        THEN EverySessionOfOthers(run, owner)
                                        ELSE AboutOthers(run, owner)]_vars

(* scenarios.go: the clean scenario has zero findings; live requests do not *)
(* change that, except about people whose device was registered as failing. *)
CleanStaysClean ==
    current = "clean" =>
        \A f \in Detect(run) :
            \E p \in upserted[f.user] : ~(p.managed /\ p.compliant)

=============================================================================
