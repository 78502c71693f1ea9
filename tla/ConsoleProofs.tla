---------------------------- MODULE ConsoleProofs ---------------------------
(***************************************************************************)
(* The console's promises for every organisation, policy and set of seeds: *)
(* what requests do to the findings, to an incident's target and to the    *)
(* posture an owner is known by.  Every request is of one kind: people it  *)
(* settles aside, it takes nothing from the locks and adds nothing to the  *)
(* sessions (Settles).                                                     *)
(***************************************************************************)
EXTENDS Console, TLAPS

\* From c to d the people of S are settled and nobody else is touched, but that
\* locks are added and sessions end.
Settles(c, d, S) ==
    /\ c.locks \subseteq d.locks
    /\ d.sessions \subseteq c.sessions
    /\ d.known = c.known
    /\ \A h \in Human \ S : /\ d.users[h] = c.users[h]
                            /\ d.entitled[h] = c.entitled[h]
                            /\ h \in c.active => h \in d.active
    /\ \A h \in S : /\ d.users[h].roles \subseteq d.entitled[h]
                    /\ h \in d.active \/ h \in d.locks

ReconInv ==
    \A h \in reconciled : /\ run.users[h].roles \subseteq run.entitled[h]
                          /\ h \in run.active \/ h \in run.locks

IncidentInv ==
    \A h \in Human :
        /\ incidents[h] \in {"locked", "contained"} => h \in run.locks
        /\ incidents[h] = "contained" => \A s \in run.sessions : s.user # h

Own(devices, h) == {d \in devices : d.owner = h}

Registered(serial, h, p) ==
    [serial |-> serial, owner |-> h, managed |-> p.managed, overall |-> p.compliant]

PostureInv ==
    \A h \in Human : \A p \in upserted[h] :
        \E serial \in Serial : Own(run.devices, h) = {Registered(serial, h, p)}

Excused(h, posture) == \E p \in posture[h] : ~(p.managed /\ p.compliant)

CleanInv ==
    current = "clean" =>
        /\ IdentityFindings(run) = {}
        /\ \A s \in run.sessions :
              PassesPosture(run.devices, s.user) \/ Excused(s.user, upserted)

IInv == TypeOK /\ ReconInv /\ IncidentInv /\ PostureInv /\ CleanInv

-----------------------------------------------------------------------------
\* What the detectors read, the fields of a cluster.
LEMMA Fields ==
    ASSUME NEW c \in Cluster
    PROVE  /\ DOMAIN c = {"users", "locks", "sessions", "active", "entitled",
                          "known", "devices", "wis", "bots"}
           /\ c.users \in [Human -> User]
           /\ c.locks \subseteq LockTarget
           /\ c.sessions \subseteq Session
           /\ c.active \subseteq Human
           /\ c.entitled \in [Human -> SUBSET Role]
           /\ c.known \in [Human -> SUBSET Address]
           /\ c.devices \subseteq Device
           /\ c.wis \subseteq Agent
           /\ c.bots \in [Agent -> Bot]
BY DEF Cluster

\* A step that settles people adds no finding about an identity.
LEMMA SettlesFindings ==
    ASSUME NEW c \in Cluster, NEW d \in Cluster, NEW S \in SUBSET Human,
           Settles(c, d, S)
    PROVE  IdentityFindings(d) \subseteq IdentityFindings(c)
<1>1. \A h \in Human : AtLarge(d, h) => AtLarge(c, h) /\ h \notin S
  BY DEF AtLarge, Settles
<1>2. \A s \in d.sessions : s \in c.sessions /\ s.user \in Human
  BY Fields DEF Settles, Session
<1>3. OffboardedSessions(d) \subseteq OffboardedSessions(c)
  BY <1>1, <1>2 DEF OffboardedSessions
<1>4. OffboardedSurvivors(d) \subseteq OffboardedSurvivors(c)
  BY <1>1 DEF OffboardedSurvivors, Settles
<1>5. PrivilegeEscalations(d) \subseteq PrivilegeEscalations(c)
  <2>1. \A h \in Human : d.users[h].roles \ d.entitled[h]
                            \subseteq c.users[h].roles \ c.entitled[h]
    BY DEF Settles
  <2>2. QED
    BY <2>1 DEF PrivilegeEscalations
<1>6. NewGeoAccess(d) \subseteq NewGeoAccess(c)
  BY <1>2 DEF NewGeoAccess, Settles
<1>7. QED
  BY <1>3, <1>4, <1>5, <1>6 DEF IdentityFindings

-----------------------------------------------------------------------------
\* The clusters that differ in some fields only: what an operation makes of one.
WithUsers(c, U) ==
    [c EXCEPT !.users = U]

LEMMA WithUsersFields ==
    ASSUME NEW c \in Cluster, NEW U \in [Human -> User],
           NEW d, d = WithUsers(c, U)
    PROVE  /\ d \in Cluster
           /\ d.users = U
           /\ d.locks = c.locks /\ d.sessions = c.sessions /\ d.active = c.active
           /\ d.entitled = c.entitled /\ d.known = c.known /\ d.devices = c.devices
           /\ d.wis = c.wis /\ d.bots = c.bots
<1>1. d \in Cluster
  BY DEF Cluster, WithUsers
<1>2. QED
  BY <1>1 DEF Cluster, WithUsers

WithLocksUsers(c, L, U) ==
    [c EXCEPT !.locks = L, !.users = U]

LEMMA WithLocksUsersFields ==
    ASSUME NEW c \in Cluster, NEW L \in SUBSET LockTarget, NEW U \in [Human -> User],
           NEW d, d = WithLocksUsers(c, L, U)
    PROVE  /\ d \in Cluster
           /\ d.locks = L /\ d.users = U
           /\ d.sessions = c.sessions /\ d.active = c.active /\ d.entitled = c.entitled
           /\ d.known = c.known /\ d.devices = c.devices /\ d.wis = c.wis
           /\ d.bots = c.bots
<1>1. d \in Cluster
  BY DEF Cluster, WithLocksUsers
<1>2. QED
  BY <1>1 DEF Cluster, WithLocksUsers

WithRoster(c, E, A) ==
    [c EXCEPT !.entitled = E, !.active = A]

LEMMA WithRosterFields ==
    ASSUME NEW c \in Cluster, NEW E \in [Human -> SUBSET Role], NEW A \in SUBSET Human,
           NEW d, d = WithRoster(c, E, A)
    PROVE  /\ d \in Cluster
           /\ d.entitled = E /\ d.active = A
           /\ d.users = c.users /\ d.locks = c.locks /\ d.sessions = c.sessions
           /\ d.known = c.known /\ d.devices = c.devices /\ d.wis = c.wis
           /\ d.bots = c.bots
<1>1. d \in Cluster
  BY DEF Cluster, WithRoster
<1>2. QED
  BY <1>1 DEF Cluster, WithRoster

WithLocks(c, L) ==
    [c EXCEPT !.locks = L]

LEMMA WithLocksFields ==
    ASSUME NEW c \in Cluster, NEW L \in SUBSET LockTarget,
           NEW d, d = WithLocks(c, L)
    PROVE  /\ d \in Cluster
           /\ d.locks = L
           /\ d.users = c.users /\ d.sessions = c.sessions /\ d.active = c.active
           /\ d.entitled = c.entitled /\ d.known = c.known /\ d.devices = c.devices
           /\ d.wis = c.wis /\ d.bots = c.bots
<1>1. d \in Cluster
  BY DEF Cluster, WithLocks
<1>2. QED
  BY <1>1 DEF Cluster, WithLocks

WithSessions(c, S) ==
    [c EXCEPT !.sessions = S]

LEMMA WithSessionsFields ==
    ASSUME NEW c \in Cluster, NEW S \in SUBSET Session,
           NEW d, d = WithSessions(c, S)
    PROVE  /\ d \in Cluster
           /\ d.sessions = S
           /\ d.users = c.users /\ d.locks = c.locks /\ d.active = c.active
           /\ d.entitled = c.entitled /\ d.known = c.known /\ d.devices = c.devices
           /\ d.wis = c.wis /\ d.bots = c.bots
<1>1. d \in Cluster
  BY DEF Cluster, WithSessions
<1>2. QED
  BY <1>1 DEF Cluster, WithSessions

WithDevices(c, D) ==
    [c EXCEPT !.devices = D]

LEMMA WithDevicesFields ==
    ASSUME NEW c \in Cluster, NEW D \in SUBSET Device,
           NEW d, d = WithDevices(c, D)
    PROVE  /\ d \in Cluster
           /\ d.devices = D
           /\ d.users = c.users /\ d.locks = c.locks /\ d.sessions = c.sessions
           /\ d.active = c.active /\ d.entitled = c.entitled /\ d.known = c.known
           /\ d.wis = c.wis /\ d.bots = c.bots
<1>1. d \in Cluster
  BY DEF Cluster, WithDevices
<1>2. QED
  BY <1>1 DEF Cluster, WithDevices

WithAgents(c, W, B) ==
    [c EXCEPT !.wis = W, !.bots = B]

LEMMA WithAgentsFields ==
    ASSUME NEW c \in Cluster, NEW W \in SUBSET Agent, NEW B \in [Agent -> Bot],
           NEW d, d = WithAgents(c, W, B)
    PROVE  /\ d \in Cluster
           /\ d.wis = W /\ d.bots = B
           /\ d.users = c.users /\ d.locks = c.locks /\ d.sessions = c.sessions
           /\ d.active = c.active /\ d.entitled = c.entitled /\ d.known = c.known
           /\ d.devices = c.devices
<1>1. d \in Cluster
  BY DEF Cluster, WithAgents
<1>2. QED
  BY <1>1 DEF Cluster, WithAgents

WithLocksAgents(c, L, B, W) ==
    [c EXCEPT !.locks = L, !.bots = B, !.wis = W]

LEMMA WithLocksAgentsFields ==
    ASSUME NEW c \in Cluster, NEW L \in SUBSET LockTarget,
           NEW B \in [Agent -> Bot], NEW W \in SUBSET Agent,
           NEW d, d = WithLocksAgents(c, L, B, W)
    PROVE  /\ d \in Cluster
           /\ d.locks = L /\ d.bots = B /\ d.wis = W
           /\ d.users = c.users /\ d.sessions = c.sessions /\ d.active = c.active
           /\ d.entitled = c.entitled /\ d.known = c.known /\ d.devices = c.devices
<1>1. d \in Cluster
  BY DEF Cluster, WithLocksAgents
<1>2. QED
  BY <1>1 DEF Cluster, WithLocksAgents

-----------------------------------------------------------------------------
\* The requests, one by one.

\* An HR event that validates settles its subject.
LEMMA HumanSettles ==
    ASSUME NEW c \in Cluster, NEW type \in EventType,
           NEW h \in Human \cup {NoEmail}, NEW dept \in Department,
           NEW ev, ev = NewHumanEvent(type, h, dept, "none")
    PROVE  /\ ev.employee.email = h
           /\ ~Validate(ev) => ApplyHuman(c, ev) = c
           /\ Validate(ev) =>
                 /\ h \in Human
                 /\ ApplyHuman(c, ev) \in Cluster
                 /\ Settles(c, ApplyHuman(c, ev), {h})
                 /\ ApplyHuman(c, ev).devices = c.devices
<1>1. /\ ev.type = type
      /\ ev.employee.email = h
      /\ ev.employee.dept = dept /\ ev.employee.title = "none"
      /\ ev.employee.status = IF type = "leaver" THEN "terminated" ELSE "active"
  BY DEF NewHumanEvent
<1>2. ~Validate(ev) => ApplyHuman(c, ev) = c
  BY DEF ApplyHuman
<1>3. ASSUME Validate(ev)
      PROVE  /\ h \in Human
             /\ ApplyHuman(c, ev) \in Cluster
             /\ Settles(c, ApplyHuman(c, ev), {h})
             /\ ApplyHuman(c, ev).devices = c.devices
  <2> DEFINE roles == RolesFor(ev.employee)
             e == Reconcile(c, ev)
             E == [e.entitled EXCEPT ![h] = roles]
             A == MarkActive(e.active, h, ev.employee.status = "active")
             d == WithRoster(e, E, A)
  <2>1. h \in Human
    BY <1>1, <1>3 DEF Validate
  <2>2. roles \in SUBSET Role
    BY <1>1, PolicyAssumption, LiveAssumption DEF RolesFor
  <2>3. ApplyHuman(c, ev) = d
    BY <1>1, <1>3 DEF ApplyHuman, WithRoster
  <2> HIDE DEF roles
  <2>4. CASE type = "leaver"
    <3> DEFINE L == c.locks \cup {h}
               U == [c.users EXCEPT ![h] = NoUser]
    <3>1. e = WithLocksUsers(c, L, U)
      BY <1>1, <2>4 DEF Reconcile, CreateLock, DeleteUser, WithLocksUsers
    <3>2. L \in SUBSET LockTarget /\ U \in [Human -> User]
      BY <2>1, Fields DEF LockTarget, User, NoUser
    <3>3. /\ E \in [Human -> SUBSET Role] /\ A \in SUBSET Human
          /\ e \in Cluster
          /\ e.locks = L /\ e.users = U /\ e.sessions = c.sessions
          /\ e.entitled = c.entitled /\ e.active = c.active
          /\ e.known = c.known /\ e.devices = c.devices
      <4>1. /\ e \in Cluster
            /\ e.locks = L /\ e.users = U /\ e.sessions = c.sessions
            /\ e.entitled = c.entitled /\ e.active = c.active
            /\ e.known = c.known /\ e.devices = c.devices
        <5> HIDE DEF e, L, U
        <5>1. QED
          BY <3>1, <3>2, WithLocksUsersFields
      <4> HIDE DEF e, L, U
      <4>2. E \in [Human -> SUBSET Role] /\ A \in SUBSET Human
        BY <2>1, <2>2, <4>1, Fields DEF MarkActive
      <4>3. QED
        BY <4>1, <4>2
    <3>4. A = c.active \ {h}
      <4> HIDE DEF e
      <4>1. QED
        BY <1>1, <2>4, <3>3 DEF MarkActive
    <3>5. /\ d \in Cluster
          /\ d.users = U /\ d.locks = L /\ d.sessions = c.sessions
          /\ d.entitled = E /\ d.active = A
          /\ d.known = c.known /\ d.devices = c.devices
      <4> HIDE DEF e, E, A, L, U
      <4>1. QED
        BY <3>3, WithRosterFields
    <3>6. Settles(c, d, {h})
      <4>1. E[h] = roles /\ \A x \in Human \ {h} : E[x] = c.entitled[x]
        <5> HIDE DEF e
        <5>1. QED
          BY <2>1, <3>3, Fields
      <4>2. U[h].roles = {} /\ \A x \in Human \ {h} : U[x] = c.users[x]
        BY <2>1, Fields DEF NoUser
      <4>3. L = c.locks \cup {h}
        OBVIOUS
      <4> HIDE DEF d, E, A, L, U
      <4>4. QED
        BY <3>4, <3>5, <4>1, <4>2, <4>3 DEF Settles
    <3> HIDE DEF d
    <3>7. QED
      BY <2>1, <2>3, <3>5, <3>6
  <2>5. CASE type # "leaver"
    <3> DEFINE U == [c.users EXCEPT ![h] = [exists |-> TRUE, roles |-> roles]]
    <3>1. e = WithUsers(c, U)
      BY <1>1, <2>5 DEF Reconcile, UpsertUser, WithUsers, roles
    <3>2. U \in [Human -> User]
      BY <2>1, <2>2, Fields DEF User
    <3>3. /\ E \in [Human -> SUBSET Role] /\ A \in SUBSET Human
          /\ e \in Cluster
          /\ e.locks = c.locks /\ e.users = U /\ e.sessions = c.sessions
          /\ e.entitled = c.entitled /\ e.active = c.active
          /\ e.known = c.known /\ e.devices = c.devices
      <4>1. /\ e \in Cluster
            /\ e.locks = c.locks /\ e.users = U /\ e.sessions = c.sessions
            /\ e.entitled = c.entitled /\ e.active = c.active
            /\ e.known = c.known /\ e.devices = c.devices
        <5> HIDE DEF e, U
        <5>1. QED
          BY <3>1, <3>2, WithUsersFields
      <4> HIDE DEF e, U
      <4>2. E \in [Human -> SUBSET Role] /\ A \in SUBSET Human
        BY <2>1, <2>2, <4>1, Fields DEF MarkActive
      <4>3. QED
        BY <4>1, <4>2
    <3>4. A = c.active \cup {h}
      <4> HIDE DEF e
      <4>1. QED
        BY <1>1, <2>5, <3>3 DEF MarkActive
    <3>5. /\ d \in Cluster
          /\ d.users = U /\ d.locks = c.locks /\ d.sessions = c.sessions
          /\ d.entitled = E /\ d.active = A
          /\ d.known = c.known /\ d.devices = c.devices
      <4> HIDE DEF e, E, A, U
      <4>1. QED
        BY <3>3, WithRosterFields
    <3>6. Settles(c, d, {h})
      <4>1. E[h] = roles /\ \A x \in Human \ {h} : E[x] = c.entitled[x]
        <5> HIDE DEF e
        <5>1. QED
          BY <2>1, <3>3, Fields
      <4>2. U[h].roles = roles /\ \A x \in Human \ {h} : U[x] = c.users[x]
        BY <2>1, Fields
      <4> HIDE DEF d, E, A, U
      <4>3. QED
        BY <3>4, <3>5, <4>1, <4>2 DEF Settles
    <3> HIDE DEF d
    <3>7. QED
      BY <2>1, <2>3, <3>5, <3>6
  <2>6. QED
    BY <2>4, <2>5
<1>4. QED
  BY <1>1, <1>2, <1>3

\* An agent event settles nobody and touches no person.
LEMMA AgentSettles ==
    ASSUME NEW c \in Cluster, NEW type \in EventType, NEW a \in Agent,
           NEW ev, ev = NewAgentEvent(type, a, Capability)
    PROVE  /\ ApplyAgent(c, ev) \in Cluster
           /\ Settles(c, ApplyAgent(c, ev), {})
           /\ ApplyAgent(c, ev).devices = c.devices
<1>1. /\ ev.type = type
      /\ ev.subject.name = a
      /\ ev.subject.scope \subseteq Capability
      /\ ev.subject.status = IF type = "leaver" THEN "terminated" ELSE "active"
  BY DEF NewAgentEvent
<1>2. CASE type \in {"joiner", "mover"}
  <2> DEFINE W == c.wis \cup {a}
             B == AddBot(c.bots, a, RolesForAgent(ev.subject))
  <2>1. RolesForAgent(ev.subject) \in SUBSET Role
    BY <1>1, PolicyAssumption DEF RolesForAgent
  <2>2. W \in SUBSET Agent /\ B \in [Agent -> Bot]
    BY <2>1, Fields DEF AddBot, Bot
  <2>3. ApplyAgent(c, ev) = WithAgents(c, W, B)
    BY <1>1, <1>2 DEF ApplyAgent, WithAgents, UpsertWorkloadIdentity
  <2> HIDE DEF W, B
  <2>4. QED
    BY <2>2, <2>3, WithAgentsFields DEF Settles
<1>3. CASE type = "leaver"
  <2> DEFINE L == c.locks \cup {BotUser[a]}
             B == RemoveBot(LockBot(c.bots, a), a)
             W == c.wis \ {a}
  <2>1. L \in SUBSET LockTarget /\ W \in SUBSET Agent
    BY Fields DEF LockTarget
  <2>2. B \in [Agent -> Bot]
    <3>1. LockBot(c.bots, a) \in [Agent -> Bot]
      BY Fields DEF LockBot, Bot
    <3>2. NoBot \in Bot
      BY DEF NoBot, Bot
    <3> HIDE DEF B
    <3>3. QED
      BY <3>1, <3>2 DEF RemoveBot, B
  <2>3. ApplyAgent(c, ev) = WithLocksAgents(c, L, B, W)
    BY <1>1, <1>3 DEF ApplyAgent, WithLocksAgents, CreateLock, DeleteWorkloadIdentity
  <2>4. c.locks \subseteq L
    OBVIOUS
  <2> HIDE DEF L, W, B
  <2>5. QED
    BY <2>1, <2>2, <2>3, <2>4, WithLocksAgentsFields DEF Settles
<1>4. CASE type = "other"
  BY <1>1, <1>4 DEF ApplyAgent, Settles
<1>5. QED
  BY <1>2, <1>3, <1>4 DEF EventType

LEMMA LockSettles ==
    ASSUME NEW c \in Cluster, NEW h \in Human, NEW d, d = Lock(c, h)
    PROVE  /\ d \in Cluster /\ Settles(c, d, {})
           /\ d.locks = c.locks \cup {h}
           /\ d.sessions = c.sessions /\ d.devices = c.devices
<1> DEFINE L == c.locks \cup {h}
<1>1. L \in SUBSET LockTarget /\ c.locks \subseteq L
  BY Fields DEF LockTarget
<1>2. d = WithLocks(c, L)
  BY DEF Lock, WithLocks, CreateLock
<1> HIDE DEF L
<1>3. /\ d \in Cluster /\ Settles(c, d, {})
      /\ d.locks = L /\ d.sessions = c.sessions /\ d.devices = c.devices
  BY <1>1, <1>2, WithLocksFields DEF Settles
<1>4. QED
  BY <1>3 DEF L

LEMMA TerminateSettles ==
    ASSUME NEW c \in Cluster, NEW h \in Human, NEW d, d = TerminateSessions(c, h)
    PROVE  /\ d \in Cluster /\ Settles(c, d, {})
           /\ d.locks = c.locks
           /\ d.sessions = {s \in c.sessions : s.user # h}
           /\ d.devices = c.devices
<1> DEFINE S == {s \in c.sessions : s.user # h}
<1>1. S \in SUBSET Session /\ S \subseteq c.sessions
  BY Fields
<1>2. d = WithSessions(c, S)
  BY DEF TerminateSessions, WithSessions
<1> HIDE DEF S
<1>3. /\ d \in Cluster /\ Settles(c, d, {})
      /\ d.locks = c.locks /\ d.sessions = S /\ d.devices = c.devices
  BY <1>1, <1>2, WithSessionsFields DEF Settles
<1>4. QED
  BY <1>3 DEF S

Upserted(c, serial, h, p) == UpsertDevice(c, serial, h, p.managed, p.compliant)

\* A registration is the only device of its owner, and nobody else's changes.
LEMMA DeviceSettles ==
    ASSUME NEW c \in Cluster, NEW h \in Human, NEW serial \in Serial,
           NEW p \in LivePosture,
           NEW d, d = Upserted(c, serial, h, p)
    PROVE  /\ d \in Cluster /\ Settles(c, d, {})
           /\ d.locks = c.locks /\ d.sessions = c.sessions
           /\ Own(d.devices, h) = {Registered(serial, h, p)}
           /\ \A x \in Human \ {h} : Own(d.devices, x) = Own(c.devices, x)
<1> DEFINE old == {e \in c.devices : e.owner # h}
           new == Registered(serial, h, p)
           D == old \cup {new}
<1>1. p.managed \in BOOLEAN /\ p.compliant \in BOOLEAN
  BY LiveAssumption
<1>2. new \in Device /\ new.owner = h
  BY <1>1 DEF Registered, Device
<1>3. D \in SUBSET Device
  BY <1>2, Fields
<1>4. /\ Own(D, h) = {new}
      /\ \A x \in Human \ {h} : Own(D, x) = Own(c.devices, x)
  <2> HIDE DEF new
  <2>1. QED
    BY <1>2 DEF Own
<1>5. d = WithDevices(c, D)
  <2>1. WithDevices(c, old) \in Cluster /\ WithDevices(c, old).devices = old
    <3>1. old \in SUBSET Device
      BY Fields
    <3> HIDE DEF old
    <3>2. QED
      BY <3>1, WithDevicesFields
  <2>2. d = WithDevices(WithDevices(c, old), D)
    BY <2>1 DEF Upserted, UpsertDevice, Dev, WithDevices, Registered
  <2> HIDE DEF D, old
  <2>3. QED
    BY <2>2 DEF WithDevices, Cluster
<1> HIDE DEF D, new
<1>6. /\ d \in Cluster /\ Settles(c, d, {})
      /\ d.locks = c.locks /\ d.sessions = c.sessions /\ d.devices = D
  BY <1>3, <1>5, WithDevicesFields DEF Settles
<1>7. QED
  BY <1>4, <1>6 DEF new

\* What an owner's devices decide.
LEMMA PostureIsOwn ==
    ASSUME NEW D, NEW E, NEW h, Own(D, h) = Own(E, h)
    PROVE  /\ PassesPosture(D, h) <=> PassesPosture(E, h)
           /\ IsManaged(D, h) <=> IsManaged(E, h)
BY DEF Own, PassesPosture, IsManaged, Posture

LEMMA PostureOfOne ==
    ASSUME NEW D, NEW h, NEW serial \in Serial,
           NEW p \in [managed : BOOLEAN, compliant : BOOLEAN],
           Own(D, h) = {Registered(serial, h, p)}
    PROVE  /\ IsManaged(D, h) <=> p.managed
           /\ PassesPosture(D, h) <=> p.managed /\ p.compliant
<1> DEFINE new == Registered(serial, h, p)
<1>1. new.serial = serial /\ new.managed = p.managed /\ new.overall = p.compliant
  BY DEF Registered
<1>2. serial <= serial
  BY SerialAssumption
<1> HIDE DEF new
<1>3. Posture(D, h) = {new}
  BY <1>1, <1>2 DEF Posture, Own, new
<1>4. QED
  BY <1>1, <1>3 DEF IsManaged, PassesPosture, IsCompliant

-----------------------------------------------------------------------------
\* A request that settles the people of S, and no one else, keeps each part of
\* the invariant that what it leaves alone is about.
LEMMA SettlesInv ==
    ASSUME IInv, run' \in Cluster, NEW S \in SUBSET Human,
           Settles(run, run', S),
           reconciled' \in SUBSET (reconciled \cup S),
           current' = current
    PROVE  /\ ReconInv'
           /\ incidents' = incidents => IncidentInv'
           /\ run'.devices = run.devices /\ upserted' = upserted =>
                 PostureInv' /\ CleanInv'
           /\ current = "clean" => IdentityFindings(run') = {}
<1>1. reconciled' \subseteq Human /\ run \in Cluster
  BY DEF IInv, TypeOK
<1>2. ReconInv'
  BY <1>1 DEF ReconInv, Settles, IInv
<1>3. incidents' = incidents => IncidentInv'
  BY DEF IncidentInv, Settles, IInv
<1>4. IdentityFindings(run') \subseteq IdentityFindings(run)
  BY <1>1, SettlesFindings
<1>5. current = "clean" => IdentityFindings(run') = {}
  BY <1>4 DEF IInv, CleanInv
<1>6. ASSUME run'.devices = run.devices, upserted' = upserted
      PROVE  PostureInv' /\ CleanInv'
  <2>1. PostureInv'
    BY <1>6 DEF IInv, PostureInv
  <2>2. CleanInv'
    <3>1. run'.sessions \subseteq run.sessions
      BY DEF Settles
    <3>2. QED
      BY <1>5, <1>6, <3>1 DEF IInv, CleanInv, Excused
  <2>3. QED
    BY <2>1, <2>2
<1>7. QED
  BY <1>2, <1>3, <1>5, <1>6

\* Each request: its state is a Runner, and it keeps the invariant.
LEMMA LoadInv ==
    ASSUME TypeOK, NEW id \in Scenario, Loaded(id),
           incidents' \in [Human -> {"none", "overtaken"}]
    PROVE  IInv'
<1>1. /\ run' = Seed[id] /\ current' = id
      /\ reconciled' = {} /\ upserted' = [h \in Human |-> {}]
  BY DEF Loaded
<1>2. TypeOK'
  BY <1>1, SeedAssumption DEF TypeOK, Scenario, Response
<1>3. ReconInv' /\ PostureInv'
  BY <1>1 DEF ReconInv, PostureInv
<1>4. IncidentInv'
  BY DEF IncidentInv
<1>5. CleanInv'
  BY <1>1, CleanAssumption DEF CleanInv, Scenario
<1>6. QED
  BY <1>2, <1>3, <1>4, <1>5 DEF IInv

LEMMA HumanInv ==
    ASSUME IInv, NEW type \in EventType, NEW h \in Human \cup {NoEmail},
           NEW dept \in Department,
           HumanEvent(NewHumanEvent(type, h, dept, "none"))
    PROVE  /\ IInv'
           /\ \E S \in SUBSET Human : run' \in Cluster /\ Settles(run, run', S)
           /\ run'.devices = run.devices
<1> DEFINE ev == NewHumanEvent(type, h, dept, "none")
<1>0. /\ run' = ApplyHuman(run, ev)
      /\ reconciled' = IF Validate(ev) THEN reconciled \cup {ev.employee.email}
                                       ELSE reconciled
      /\ UNCHANGED <<current, incidents, upserted>>
  BY DEF HumanEvent
<1>1. run \in Cluster
  BY DEF IInv, TypeOK
<1> HIDE DEF ev
<1>2. /\ ev.employee.email = h
      /\ ~Validate(ev) => ApplyHuman(run, ev) = run
      /\ Validate(ev) =>
            /\ h \in Human
            /\ ApplyHuman(run, ev) \in Cluster
            /\ Settles(run, ApplyHuman(run, ev), {h})
            /\ ApplyHuman(run, ev).devices = run.devices
  BY <1>1, HumanSettles DEF ev
<1> DEFINE S == IF Validate(ev) THEN {h} ELSE {}
<1>3. /\ S \in SUBSET Human
      /\ run' \in Cluster /\ Settles(run, run', S)
      /\ run'.devices = run.devices
      /\ reconciled' \in SUBSET (reconciled \cup S)
  BY <1>0, <1>1, <1>2 DEF Settles
<1> HIDE DEF S
<1>4. TypeOK'
  BY <1>0, <1>1, <1>2, <1>3 DEF IInv, TypeOK
<1>5. QED
  BY <1>0, <1>3, <1>4, SettlesInv DEF IInv

\* The requests that settle nobody.
LEMMA OthersInv ==
    ASSUME IInv, run' \in Cluster, Settles(run, run', {}),
           run'.devices = run.devices, IncidentInv',
           incidents' \in [Human -> Response],
           UNCHANGED <<current, reconciled, upserted>>
    PROVE  IInv'
<1>1. TypeOK'
  BY DEF IInv, TypeOK
<1>2. ReconInv' /\ PostureInv' /\ CleanInv'
  BY SettlesInv
<1>3. QED
  BY <1>1, <1>2 DEF IInv

LEMMA DeviceInv ==
    ASSUME IInv, NEW h \in Human, NEW serial \in Serial, NEW p \in LivePosture,
           DeviceRequest(h, serial, p.managed, p.compliant)
    PROVE  /\ IInv'
           /\ run' \in Cluster /\ Settles(run, run', {})
           /\ run'.sessions = run.sessions
           /\ \A x \in Human \ {h} : Own(run'.devices, x) = Own(run.devices, x)
<1>0. /\ run' = Upserted(run, serial, h, p)
      /\ upserted' = [upserted EXCEPT ![h] =
             {[managed |-> p.managed, compliant |-> p.compliant]}]
      /\ UNCHANGED <<current, incidents, reconciled>>
  BY DEF DeviceRequest, Upserted
<1>1. /\ run \in Cluster
      /\ upserted \in [Human -> SUBSET [managed : BOOLEAN, compliant : BOOLEAN]]
  BY DEF IInv, TypeOK
<1>2. p = [managed |-> p.managed, compliant |-> p.compliant]
      /\ p \in [managed : BOOLEAN, compliant : BOOLEAN]
  BY LiveAssumption
<1>3. upserted'[h] = {p} /\ \A x \in Human \ {h} : upserted'[x] = upserted[x]
  BY <1>0, <1>1, <1>2
<1>4. /\ run' \in Cluster /\ Settles(run, run', {})
      /\ run'.sessions = run.sessions
      /\ Own(run'.devices, h) = {Registered(serial, h, p)}
      /\ \A x \in Human \ {h} : Own(run'.devices, x) = Own(run.devices, x)
  BY <1>0, <1>1, DeviceSettles
<1>5. TypeOK'
  BY <1>0, <1>1, <1>2, <1>4 DEF IInv, TypeOK
<1>6. ReconInv' /\ IncidentInv' /\ (current = "clean" => IdentityFindings(run') = {})
  BY <1>0, <1>4, SettlesInv
<1>7. PostureInv'
  BY <1>3, <1>4 DEF IInv, PostureInv
<1>8. CleanInv'
  <2>1. \A x \in Human \ {h} : PassesPosture(run'.devices, x)
                                  <=> PassesPosture(run.devices, x)
    BY <1>4, PostureIsOwn
  <2>2. PassesPosture(run'.devices, h) <=> p.managed /\ p.compliant
    BY <1>2, <1>4, PostureOfOne
  <2>3. \A s \in run.sessions : s.user \in Human
    BY <1>1, Fields DEF Session
  <2>4. QED
    BY <1>0, <1>3, <1>4, <1>6, <2>1, <2>2, <2>3 DEF IInv, CleanInv, Excused
<1>9. QED
  BY <1>4, <1>5, <1>6, <1>7, <1>8 DEF IInv

\* Every request that is not a load settles the people of some set.
LEMMA RequestInv ==
    ASSUME IInv, NEW h \in Human,
           \/ LockRequest(h)
           \/ TerminateRequest(h)
           \/ IncidentLock(h)
           \/ IncidentTerminate(h)
    PROVE  /\ IInv'
           /\ run' \in Cluster /\ Settles(run, run', {})
           /\ run'.devices = run.devices
<1>1. run \in Cluster /\ incidents \in [Human -> Response]
  BY DEF IInv, TypeOK
<1>2. CASE LockRequest(h)
  <2>1. /\ run' = Lock(run, h)
        /\ UNCHANGED <<current, incidents, reconciled, upserted>>
    BY <1>2 DEF LockRequest
  <2>2. run' \in Cluster /\ Settles(run, run', {}) /\ run'.devices = run.devices
    BY <1>1, <2>1, LockSettles
  <2>3. IncidentInv'
    BY <2>1, <2>2, SettlesInv
  <2>4. QED
    BY <1>1, <2>1, <2>2, <2>3, OthersInv
<1>3. CASE TerminateRequest(h)
  <2>1. /\ run' = TerminateSessions(run, h)
        /\ UNCHANGED <<current, incidents, reconciled, upserted>>
    BY <1>3 DEF TerminateRequest
  <2>2. run' \in Cluster /\ Settles(run, run', {}) /\ run'.devices = run.devices
    BY <1>1, <2>1, TerminateSettles
  <2>3. IncidentInv'
    BY <2>1, <2>2, SettlesInv
  <2>4. QED
    BY <1>1, <2>1, <2>2, <2>3, OthersInv
<1>4. CASE IncidentLock(h)
  <2>1. /\ run' = Lock(run, h)
        /\ incidents' = [incidents EXCEPT ![h] = "locked"]
        /\ UNCHANGED <<current, reconciled, upserted>>
    BY <1>4 DEF IncidentLock
  <2>2. /\ run' \in Cluster /\ Settles(run, run', {}) /\ run'.devices = run.devices
        /\ run'.locks = run.locks \cup {h} /\ run'.sessions = run.sessions
    BY <1>1, <2>1, LockSettles
  <2>3. incidents' \in [Human -> Response]
    BY <1>1, <2>1 DEF Response
  <2>4. IncidentInv'
    BY <1>1, <2>1, <2>2 DEF IInv, IncidentInv
  <2>5. QED
    BY <2>1, <2>2, <2>3, <2>4, OthersInv
<1>5. CASE IncidentTerminate(h)
  <2>1. /\ h \in Open
        /\ run' = TerminateSessions(run, h)
        /\ incidents' = [incidents EXCEPT ![h] =
                             IF incidents[h] = "locked" THEN "contained" ELSE "halved"]
        /\ UNCHANGED <<current, reconciled, upserted>>
    BY <1>5 DEF IncidentTerminate
  <2>2. /\ run' \in Cluster /\ Settles(run, run', {}) /\ run'.devices = run.devices
        /\ run'.locks = run.locks
        /\ run'.sessions = {s \in run.sessions : s.user # h}
    BY <1>1, <2>1, TerminateSettles
  <2>3. incidents' \in [Human -> Response]
    BY <1>1, <2>1 DEF Response
  <2>4. IncidentInv'
    BY <1>1, <2>1, <2>2 DEF IInv, IncidentInv
  <2>5. QED
    BY <2>1, <2>2, <2>3, <2>4, OthersInv
<1>6. QED
  BY <1>2, <1>3, <1>4, <1>5

LEMMA AgentInv ==
    ASSUME IInv, NEW type \in EventType, NEW a \in Agent,
           AgentEvents(NewAgentEvent(type, a, Capability))
    PROVE  /\ IInv'
           /\ run' \in Cluster /\ Settles(run, run', {})
           /\ run'.devices = run.devices
<1>1. run \in Cluster /\ incidents \in [Human -> Response]
  BY DEF IInv, TypeOK
<1>2. /\ run' = ApplyAgent(run, NewAgentEvent(type, a, Capability))
      /\ UNCHANGED <<current, incidents, reconciled, upserted>>
  BY DEF AgentEvents
<1>3. run' \in Cluster /\ Settles(run, run', {}) /\ run'.devices = run.devices
  BY <1>1, <1>2, AgentSettles
<1>4. IncidentInv'
  BY <1>2, <1>3, SettlesInv
<1>5. QED
  BY <1>1, <1>2, <1>3, <1>4, OthersInv

\* What a step does, in the terms the action properties need.
Registers ==
    \E h \in Human, serial \in Serial, p \in LivePosture :
        DeviceRequest(h, serial, p.managed, p.compliant)

LEMMA StepInv ==
    ASSUME IInv, Next
    PROVE  /\ IInv'
           /\ \/ \E id \in Scenario : Load(id)
              \/ \E S \in SUBSET Human : run' \in Cluster /\ Settles(run, run', S)
           /\ \/ \E id \in Scenario : Load(id)
              \/ run'.devices = run.devices
              \/ Registers
<1>0. current \in Scenario /\ Live[current] \subseteq Human /\ {} \in SUBSET Human
  BY LiveAssumption DEF IInv, TypeOK, Scenario
<1>1. ASSUME NEW id \in Scenario, Load(id) PROVE IInv'
  <2>1. Loaded(id) /\ incidents' \in [Human -> {"none", "overtaken"}]
    BY <1>1 DEF Load
  <2>2. QED
    BY <2>1, LoadInv DEF IInv
<1>2. ASSUME NEW ev \in LiveHumanEvents, HumanEvent(ev)
      PROVE  /\ IInv'
             /\ \E S \in SUBSET Human : run' \in Cluster /\ Settles(run, run', S)
             /\ run'.devices = run.devices
  <2>1. PICK type \in EventType, h \in Human \cup {NoEmail}, dept \in Department :
            ev = NewHumanEvent(type, h, dept, "none")
    BY <1>0, LiveAssumption DEF LiveHumanEvents
  <2>2. QED
    BY <1>2, <2>1, HumanInv
<1>3. ASSUME NEW ev \in LiveAgentEvents, AgentEvents(ev)
      PROVE  /\ IInv'
             /\ run' \in Cluster /\ Settles(run, run', {})
             /\ run'.devices = run.devices
  <2>1. PICK type \in EventType, a \in Agent : ev = NewAgentEvent(type, a, Capability)
    BY LiveAssumption DEF LiveAgentEvents
  <2>2. QED
    BY <1>3, <2>1, AgentInv
<1>4. QED
  BY <1>0, <1>1, <1>2, <1>3, RequestInv, DeviceInv DEF Next, Registers

\* The inductive invariant holds of every behaviour.
THEOREM Invariance == Spec => []IInv
<1>1. Init => IInv
  <2> SUFFICES ASSUME Init PROVE IInv
    OBVIOUS
  <2>1. "baseline" \in Scenario /\ Seed["baseline"] \in Cluster
    BY LiveAssumption, SeedAssumption DEF Scenario
  <2>2. TypeOK
    BY <2>1 DEF Init, TypeOK, Response
  <2>3. ReconInv /\ IncidentInv /\ PostureInv /\ CleanInv
    BY DEF Init, ReconInv, IncidentInv, PostureInv, CleanInv
  <2>4. QED
    BY <2>2, <2>3 DEF IInv
<1>2. IInv /\ [Next]_vars => IInv'
  <2>1. IInv /\ Next => IInv'
    BY StepInv
  <2>2. IInv /\ UNCHANGED vars => IInv'
    BY DEF vars, IInv, TypeOK, ReconInv, IncidentInv, PostureInv, CleanInv, Excused,
           Open
  <2>3. QED
    BY <2>1, <2>2
<1>3. QED
  BY <1>1, <1>2, PTL DEF Spec

-----------------------------------------------------------------------------
(* The console's state is a cluster, whatever requests it served.           *)
THEOREM TypeCorrect == Spec => []TypeOK
BY Invariance, PTL DEF IInv

(* Nobody a live HR event succeeded for is named by an offboarding or an    *)
(* escalation finding until a scenario is loaded.                           *)
THEOREM Reconciled == Spec => []ReconciledIsClean
<1>1. IInv => ReconciledIsClean
  <2> SUFFICES ASSUME IInv,
                      NEW f \in OffboardedSessions(run) \cup OffboardedSurvivors(run)
                                    \cup PrivilegeEscalations(run),
                      f.user \in reconciled
               PROVE  FALSE
    BY DEF ReconciledIsClean
  <2>1. CASE f \in OffboardedSessions(run) \cup OffboardedSurvivors(run)
    <3>1. AtLarge(run, f.user)
      BY <2>1 DEF OffboardedSessions, OffboardedSurvivors, Finding
    <3>2. QED
      BY <3>1 DEF AtLarge, IInv, ReconInv
  <2>2. CASE f \in PrivilegeEscalations(run)
    <3>1. run.users[f.user].roles \ run.entitled[f.user] # {}
      BY <2>2 DEF PrivilegeEscalations, Finding
    <3>2. QED
      BY <3>1 DEF IInv, ReconInv
  <2>3. QED
    BY <2>1, <2>2
<1>2. QED
  BY <1>1, Invariance, PTL

(* The target of an incident response that no load overtook stays locked    *)
(* and without a session.                                                   *)
THEOREM Incident == Spec => []IncidentContains
<1>1. IInv => IncidentContains
  BY DEF IInv, IncidentInv, IncidentContains
<1>2. QED
  BY <1>1, Invariance, PTL

(* The posture of an owner is the one last registered.                      *)
THEOREM LastPosture == Spec => []PostureFollowsUpsert
<1>1. IInv => PostureFollowsUpsert
  <2> SUFFICES ASSUME IInv, NEW h \in Human, NEW p \in upserted[h]
               PROVE  /\ IsManaged(run.devices, h) = p.managed
                      /\ PassesPosture(run.devices, h) = (p.managed /\ p.compliant)
    BY DEF PostureFollowsUpsert
  <2>1. PICK serial \in Serial : Own(run.devices, h) = {Registered(serial, h, p)}
    BY DEF IInv, PostureInv
  <2>2. /\ p \in [managed : BOOLEAN, compliant : BOOLEAN]
        /\ p.managed \in BOOLEAN /\ p.compliant \in BOOLEAN
    BY DEF IInv, TypeOK
  <2>3. /\ IsManaged(run.devices, h) <=> p.managed
        /\ PassesPosture(run.devices, h) <=> p.managed /\ p.compliant
    BY <2>1, <2>2, PostureOfOne
  <2>4. /\ IsManaged(run.devices, h) \in BOOLEAN
        /\ PassesPosture(run.devices, h) \in BOOLEAN
    BY DEF IsManaged, PassesPosture
  <2>5. QED
    BY <2>2, <2>3, <2>4
<1>2. QED
  BY <1>1, Invariance, PTL

(* The clean scenario keeps its zero findings, but for the people whose     *)
(* device was registered as failing.                                        *)
THEOREM Clean == Spec => []CleanStaysClean
<1>1. IInv => CleanStaysClean
  <2> SUFFICES ASSUME IInv, current = "clean", NEW f \in Detect(run)
               PROVE  Excused(f.user, upserted)
    BY DEF CleanStaysClean, Excused
  <2>1. f \in UntrustedDevices(run)
    BY DEF IInv, CleanInv, Detect
  <2>2. PICK s \in run.sessions : ~PassesPosture(run.devices, s.user) /\ f.user = s.user
    BY <2>1 DEF UntrustedDevices, Finding
  <2>3. QED
    BY <2>2 DEF IInv, CleanInv
<1>2. QED
  BY <1>1, Invariance, PTL

(* No request but a load adds an offboarding, escalation or new-geo finding. *)
THEOREM NoIdentityFinding == Spec => RequestsAddNoIdentityFinding
<1>1. IInv /\ [Next]_vars =>
          [\/ IdentityFindings(run)' \subseteq IdentityFindings(run)
           \/ \E id \in Scenario : Load(id)]_vars
  <2> SUFFICES ASSUME IInv, Next
               PROVE  \/ IdentityFindings(run)' \subseteq IdentityFindings(run)
                      \/ \E id \in Scenario : Load(id)
    OBVIOUS
  <2>1. ASSUME NEW S \in SUBSET Human, run' \in Cluster, Settles(run, run', S)
        PROVE  IdentityFindings(run') \subseteq IdentityFindings(run)
    BY <2>1, SettlesFindings DEF IInv, TypeOK
  <2>2. QED
    BY <2>1, StepInv
<1>2. QED
  BY <1>1, Invariance, PTL DEF Spec, RequestsAddNoIdentityFinding

(* A registration changes the device findings of its owner alone, but for   *)
(* the first, which has every session of the others reported as unmanaged   *)
(* (scenario.go, UpsertDevice and Trace).                                   *)
THEOREM OneOwner == Spec => RegistrationConcernsOneOwner
<1>1. ASSUME IInv, NEW h \in Human, NEW serial \in Serial, NEW p \in LivePosture,
             DeviceRequest(h, serial, p.managed, p.compliant)
      PROVE  AboutOthers(run', h) = IF run.devices = {}
                                    THEN EverySessionOfOthers(run, h)
                                    ELSE AboutOthers(run, h)
  <2>0. run \in Cluster
    BY <1>1 DEF IInv, TypeOK
  <2>1. /\ run'.sessions = run.sessions
        /\ \A x \in Human \ {h} : Own(run'.devices, x) = Own(run.devices, x)
    BY <1>1, DeviceInv
  <2>2. run'.devices # {}
    <3>1. run' = Upserted(run, serial, h, p)
      BY <1>1 DEF DeviceRequest, Upserted
    <3> DEFINE d == Upserted(run, serial, h, p)
    <3>2. Own(d.devices, h) = {Registered(serial, h, p)}
      BY <1>1, <2>0, DeviceSettles
    <3> HIDE DEF d
    <3>3. d.devices # {}
      BY <3>2 DEF Own
    <3>4. QED
      BY <3>1, <3>3 DEF d
  <2>3. \A x \in Human \ {h} :
            /\ IsManaged(run'.devices, x) <=> IsManaged(run.devices, x)
            /\ PassesPosture(run'.devices, x) <=> PassesPosture(run.devices, x)
    BY <2>1, PostureIsOwn
  <2>4. \A s \in run.sessions : s.user \in Human
    BY <2>0, Fields DEF Session
  \* The findings about others that an inventory D gives which is not empty.
  <2> DEFINE Named(s, D) == Finding(IF IsManaged(D, s.user) THEN "noncompliant-device"
                                                          ELSE "unmanaged-device",
                                    s.user, s.id)
             Of(D) == {Named(s, D) : s \in {t \in run.sessions :
                          t.user # h /\ ~PassesPosture(D, t.user)}}
  <2>5. \A D : \A s \in run.sessions : Named(s, D).user = s.user
    BY DEF Finding
  <2>6. \A s \in run.sessions : s.user # h =>
            /\ Named(s, run'.devices) = Named(s, run.devices)
            /\ PassesPosture(run'.devices, s.user) <=> PassesPosture(run.devices, s.user)
    BY <2>3, <2>4
  <2>7. UntrustedDevices(run') = {Named(s, run'.devices) :
            s \in {t \in run.sessions : ~PassesPosture(run'.devices, t.user)}}
    BY <2>1, <2>2 DEF UntrustedDevices
  <2>8. AboutOthers(run', h) = Of(run.devices)
    <3> HIDE DEF Named
    <3>1. AboutOthers(run', h) = Of(run'.devices)
      BY <2>5, <2>7 DEF AboutOthers
    <3>2. Of(run'.devices) = Of(run.devices)
      BY <2>6
    <3>3. QED
      BY <3>1, <3>2
  <2>9. CASE run.devices = {}
    <3>1. \A x : ~IsManaged(run.devices, x) /\ ~PassesPosture(run.devices, x)
      BY <2>9 DEF IsManaged, PassesPosture, Posture
    <3>2. Of(run.devices) = EverySessionOfOthers(run, h)
      BY <3>1 DEF EverySessionOfOthers
    <3>3. QED
      BY <2>8, <2>9, <3>2
  <2>10. CASE run.devices # {}
    <3>1. UntrustedDevices(run) = {Named(s, run.devices) :
              s \in {t \in run.sessions : ~PassesPosture(run.devices, t.user)}}
      BY <2>10 DEF UntrustedDevices
    <3> HIDE DEF Named
    <3>2. AboutOthers(run, h) = Of(run.devices)
      BY <2>5, <3>1 DEF AboutOthers
    <3>3. QED
      BY <2>8, <2>10, <3>2
  <2>11. QED
    BY <2>9, <2>10
<1>2. IInv /\ [Next]_vars =>
          [\/ run'.devices = run.devices
           \/ \E id \in Scenario : Load(id)
           \/ \E owner \in Human :
                 AboutOthers(run, owner)' = IF run.devices = {}
                                            THEN EverySessionOfOthers(run, owner)
                                            ELSE AboutOthers(run, owner)]_vars
  <2> SUFFICES ASSUME IInv, Next, run'.devices # run.devices,
                      ~\E id \in Scenario : Load(id)
               PROVE  \E owner \in Human :
                          AboutOthers(run', owner) =
                              IF run.devices = {} THEN EverySessionOfOthers(run, owner)
                              ELSE AboutOthers(run, owner)
    BY DEF AboutOthers
  <2>1. PICK h \in Human, serial \in Serial, p \in LivePosture :
                 DeviceRequest(h, serial, p.managed, p.compliant)
    BY StepInv DEF Registers
  <2>2. QED
    BY <1>1, <2>1
<1>3. QED
  BY <1>2, Invariance, PTL DEF Spec, RegistrationConcernsOneOwner

=============================================================================
