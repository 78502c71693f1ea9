------------------------------- MODULE Runner -------------------------------
(***************************************************************************)
(* The state behind the console (scenario.Runner in                        *)
(* go/internal/scenario) and the effect of each of its operations on it.   *)
(* Every exported method runs under the Runner's mutex, so a method is one *)
(* step, however many calls it makes on the engine and the Teleport mock.  *)
(* The logs of past steps and decisions are left out: nothing reads them   *)
(* but the page that shows them.                                           *)
(***************************************************************************)
EXTENDS Audit

\* The fields of the Runner, with the agents' half of the Teleport mock.
Cluster == [users    : [Human -> User],
            locks    : SUBSET LockTarget,
            sessions : SUBSET Session,
            active   : SUBSET Human,
            entitled : [Human -> SUBSET Role],
            known    : [Human -> SUBSET Address],
            devices  : SUBSET Device,
            wis      : SUBSET Agent,
            bots     : [Agent -> Bot]]

\* reset
Empty == [users    |-> [h \in Human |-> NoUser],
          locks    |-> {},
          sessions |-> {},
          active   |-> {},
          entitled |-> [h \in Human |-> {}],
          known    |-> [h \in Human |-> {}],
          devices  |-> {},
          wis      |-> {},
          bots     |-> [a \in Agent |-> NoBot]]

MarkActive(active, h, is) == IF is THEN active \cup {h} ELSE active \ {h}

\* Mutant of Reconcile: a re-join lifts the lock.
ReconcileUnlocks(c, ev) ==
    LET h == ev.employee.email IN
    IF ev.type = "leaver"
    THEN [c EXCEPT !.locks = CreateLock(@, h), !.users = DeleteUser(@, h)]
    ELSE [c EXCEPT !.users = UpsertUser(@, h, RolesFor(ev.employee)),
                   !.locks = @ \ {h}]

\* One Reconcile of the engine, undisturbed: the write of equal roles that it
\* spares a converged user would change nothing.
Reconcile(c, ev) ==
    LET h == ev.employee.email IN
    IF ev.type = "leaver"
    THEN [c EXCEPT !.locks = CreateLock(@, h), !.users = DeleteUser(@, h)]
    ELSE [c EXCEPT !.users = UpsertUser(@, h, RolesFor(ev.employee))]

\* Mutant of ApplyHuman: the roster is written before the event is validated.
ApplyHumanRosterFirst(c, ev) ==
    LET h == ev.employee.email
        d == [c EXCEPT !.active = MarkActive(@, h, ev.employee.status = "active")]
    IN  IF Validate(ev)
        THEN [Reconcile(d, ev) EXCEPT !.entitled[h] = RolesFor(ev.employee)]
        ELSE d

\* applyHuman: an event that Reconcile refuses leaves the roster alone too.
ApplyHuman(c, ev) ==
    LET h == ev.employee.email IN
    IF Validate(ev)
    THEN [Reconcile(c, ev) EXCEPT
             !.entitled[h] = RolesFor(ev.employee),
             !.active = MarkActive(@, h, ev.employee.status = "active")]
    ELSE c

\* applyAgent, with ReconcileAgent undisturbed.
ApplyAgent(c, ev) ==
    LET a == ev.subject.name IN
    CASE ev.type \in {"joiner", "mover"} ->
           [c EXCEPT !.wis  = UpsertWorkloadIdentity(@, a),
                     !.bots = AddBot(@, a, RolesForAgent(ev.subject))]
      [] ev.type = "leaver" ->
           [c EXCEPT !.locks = CreateLock(@, BotUser[a]),
                     !.bots  = RemoveBot(LockBot(@, a), a),
                     !.wis   = DeleteWorkloadIdentity(@, a)]
      [] ev.type = "other" -> c

Lock(c, target) == [c EXCEPT !.locks = CreateLock(@, target)]

TerminateSessions(c, h) ==
    [c EXCEPT !.sessions = {s \in @ : s.user # h}]

\* dev: the registered device passes every control or fails the baseline.
Dev(c, serial, h, managed, compliant) ==
    [c EXCEPT !.devices = @ \cup {[serial |-> serial, owner |-> h,
                                   managed |-> managed, overall |-> compliant]}]

\* Mutants of UpsertDevice: the owner's old devices stay; what is forgotten is
\* the device of that serial number, whoever has it.
UpsertDeviceAppends(c, serial, h, managed, compliant) ==
    Dev(c, serial, h, managed, compliant)
UpsertDeviceBySerial(c, serial, h, managed, compliant) ==
    Dev([c EXCEPT !.devices = {d \in @ : d.serial # serial}],
        serial, h, managed, compliant)

\* UpsertDevice forgets every device of the owner first.
UpsertDevice(c, serial, h, managed, compliant) ==
    Dev([c EXCEPT !.devices = {d \in @ : d.owner # h}],
        serial, h, managed, compliant)

\* NewHumanEvent: the status follows from the type.
NewHumanEvent(type, h, dept, title) ==
    [type |-> type,
     employee |-> [email |-> h, dept |-> dept, title |-> title,
                   status |-> IF type = "leaver" THEN "terminated" ELSE "active"]]

\* NewAgentEvent: so does the status of an agent, and a leaver has no scope.
NewAgentEvent(type, a, scope) ==
    [type |-> type,
     subject |-> [kind |-> "agent", name |-> a,
                  scope |-> IF type = "leaver" THEN {} ELSE scope,
                  status |-> IF type = "leaver" THEN "terminated" ELSE "active"]]

-----------------------------------------------------------------------------
\* What the scenarios are written with, besides the operations above.

\* survivor: a user that no lifecycle event provisioned.
Survivor(c, h, roles, entitled, is) ==
    [c EXCEPT !.users = UpsertUser(@, h, roles),
              !.entitled[h] = entitled,
              !.active = MarkActive(@, h, is)]

\* SeedSession overwrites a session of the same id.
SeedSession(c, id, h, ip) ==
    [c EXCEPT !.sessions = {s \in @ : s.id # id}
                             \cup {[id |-> id, user |-> h, ip |-> ip]}]

SetActive(c, h, is) == [c EXCEPT !.active = MarkActive(@, h, is)]

BaselineIP(c, h, ip) == [c EXCEPT !.known[h] = @ \cup {ip}]

=============================================================================
