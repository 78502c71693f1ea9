----------------------------- MODULE Workflows ------------------------------
(***************************************************************************)
(* The three durable workflows of go/temporal and the workers that run     *)
(* their activities.  The Temporal server keeps the workflows; a worker    *)
(* process keeps the Teleport cluster it was wired with, the in-memory     *)
(* Mock, and any worker may execute any activity.  An attempt of an        *)
(* activity is one step here, which may stop half way and whose result may *)
(* be lost; the interleaving of concurrent attempts, those that timed out  *)
(* included, is the subject of Engine.                                     *)
(***************************************************************************)
EXTENDS AccessPlane, LeanModel, Naturals, Sequences

CONSTANTS Worker,        \* worker processes polling the task queue
          Name,          \* what tickets call people by other than an e-mail
          Feed,          \* the HR events workflows are started for
          AccessRequest, \* the just-in-time requests
          TicketRef,     \* the helpdesk tickets
          Known,         \* the tickets the helpdesk client holds
          MaxAttempts,   \* RetryPolicy.MaximumAttempts
          MaxSignals     \* approval signals sent to one run

\* NoEmail is the empty string, also where a ticket names nobody.
Principal == Human \cup Name \cup {NoEmail}

\* A ticket's text: the words the classifier looks for, the first e-mail, the
\* name after "user", "contractor" and the like.
Ticket == [words : SUBSET {"lock", "access"},
           email : Human \cup {NoEmail},
           named : Name \cup {NoEmail}]

ASSUME WorkflowsAssumption ==
    /\ Feed # {}
    /\ Feed \subseteq {ev \in Event : ev.employee.email \in Human}
    /\ AccessRequest \subseteq [user : Human, requested : Role]
    /\ TicketRef \subseteq Ticket
    /\ Known \subseteq TicketRef
    /\ MaxAttempts \in Nat \ {0}
    /\ MaxSignals \in Nat

VARIABLES
    clusters,    \* the Mock each worker holds
    jml,         \* the run of workflow id "jml-<employee>"
    jit,         \* the run of each access request's workflow
    lockout,     \* the run of each ticket's workflow
    solved,      \* tickets the helpdesk shows as solved
    employed,    \* history: events delivered of people in employment
    crashed      \* history: workers that were restarted

vars == <<clusters, jml, jit, lockout, solved, employed, crashed>>

-----------------------------------------------------------------------------
Cluster == [users : [Human -> User], locks : SUBSET Principal]

\* What worker.Run builds when a process starts.
EmptyCluster == [users |-> [h \in Human |-> NoUser], locks |-> {}]

LiveState(w, h) == [roles  |-> clusters[w].users[h].roles,
                    locked |-> h \in clusters[w].locks]

ActionKind == {"provision", "update_roles", "deprovision", "lock", "noop"}

JmlRun == [pc      : {"idle", "reconcile", "emit", "done", "failed"},
           ev      : Feed,
           attempt : 1..MaxAttempts,
           report  : UNION {[1..n -> ActionKind] : n \in 0..2},
           changed : SUBSET ActionKind,    \* history: what the run changed
           sent    : SUBSET ActionKind,    \* history: records the SIEM has
           silent  : BOOLEAN]              \* history: a record was given up

\* The run's pc is the status its query handler answers.
JitRun == [pc      : {"idle", "evaluating", "awaiting-approval",
                      "auto-approved", "human-approved", "denied", "failed"},
           attempt : 1..MaxAttempts,
           signals : UNION {[1..n -> BOOLEAN] : n \in 0..MaxSignals}]

LockoutRun == [pc      : {"idle", "classify", "lock", "update", "audit",
                          "resolved", "ignored", "failed"},
               attempt : 1..MaxAttempts,
               target  : Principal,
               on      : SUBSET Worker]    \* history: who placed the lock

Running(run) ==
    run.pc \notin {"idle", "done", "failed", "auto-approved", "human-approved",
                   "denied", "resolved", "ignored"}

\* Mutant of Again: one attempt too many.
AgainOnceMore(run, last) ==
    IF run.attempt <= MaxAttempts THEN [run EXCEPT !.attempt = @ + 1] ELSE last

\* The retry policy: the next attempt, or last when none is left.
Again(run, last) ==
    IF run.attempt < MaxAttempts THEN [run EXCEPT !.attempt = @ + 1] ELSE last

-----------------------------------------------------------------------------
\* Reconcile of a valid event as one activity attempt on cluster c.
Reconciled(c, ev) ==
    LET h == ev.employee.email IN
    IF ev.type = "leaver"
    THEN [users |-> DeleteUser(c.users, h), locks |-> CreateLock(c.locks, h)]
    ELSE [c EXCEPT !.users = UpsertUser(@, h, RolesFor(ev.employee))]

Locked(c, target) == [c EXCEPT !.locks = CreateLock(@, target)]

\* Where an attempt that fails, or whose result is lost, may have stopped.
Stops(c, ev) ==
    {c, Reconciled(c, ev)} \cup
    {d \in {Locked(c, ev.employee.email)} : ev.type = "leaver"}

\* Mutants of Report: a leaver who has no user is reported as a no-op; a
\* converged user is reported as provisioned.
ReportAbsent(c, ev) ==
    LET cur == c.users[ev.employee.email] IN
    IF ev.type = "leaver"
    THEN IF cur.exists THEN <<"lock", "deprovision">> ELSE <<"noop">>
    ELSE IF cur.exists /\ cur.roles = RolesFor(ev.employee) THEN <<"noop">>
    ELSE IF cur.exists THEN <<"update_roles">> ELSE <<"provision">>
ReportProvision(c, ev) ==
    IF ev.type = "leaver" THEN <<"lock", "deprovision">> ELSE <<"provision">>

\* The actions Reconcile returns.
Report(c, ev) ==
    LET cur == c.users[ev.employee.email] IN
    IF ev.type = "leaver" THEN <<"lock", "deprovision">>
    ELSE IF cur.exists /\ cur.roles = RolesFor(ev.employee) THEN <<"noop">>
    ELSE IF cur.exists THEN <<"update_roles">> ELSE <<"provision">>

\* History: what really changed about h between two states of a cluster.
Changes(c, d, h) ==
    LET old == c.users[h]  new == d.users[h] IN
    {k \in ActionKind :
        \/ k = "lock" /\ h \in d.locks \ c.locks
        \/ k = "deprovision" /\ old.exists /\ ~new.exists
        \/ k = "provision" /\ ~old.exists /\ new.exists
        \/ k = "update_roles" /\ old.exists /\ new.exists /\ old # new}

-----------------------------------------------------------------------------
Begin(ev) == [pc |-> "reconcile", ev |-> ev, attempt |-> 1, report |-> <<>>,
              changed |-> {}, sent |-> {}, silent |-> FALSE]

Init ==
    /\ clusters = [w \in Worker |-> EmptyCluster]
    /\ jml = [h \in Human |->
                 [Begin(CHOOSE ev \in Feed : TRUE) EXCEPT !.pc = "idle"]]
    /\ jit = [r \in AccessRequest |->
                 [pc |-> "idle", attempt |-> 1, signals |-> <<>>]]
    /\ lockout = [t \in TicketRef |->
                     [pc |-> "idle", attempt |-> 1, target |-> NoEmail,
                      on |-> {}]]
    /\ solved = {}
    /\ employed = {}
    /\ crashed = {}

-----------------------------------------------------------------------------
(* JoinerMoverLeaverWorkflow.                                               *)

\* While a run with this id is open, starting it again joins that run and the
\* new event goes nowhere; once it is closed, a new run replaces it.
StartJml(ev) ==
    LET h == ev.employee.email IN
    /\ ~Running(jml[h])
    /\ jml' = [jml EXCEPT ![h] = Begin(ev)]
    /\ employed' = employed \cup
           {e \in {ev} : e.type # "leaver" /\ e.employee.status # "terminated"}
    /\ UNCHANGED <<clusters, jit, lockout, solved, crashed>>

\* A malformed event is not retried.
ReconcileRefused(h) ==
    /\ jml[h].pc = "reconcile"
    /\ ~Validate(jml[h].ev)
    /\ jml' = [jml EXCEPT ![h].pc = "failed"]
    /\ UNCHANGED <<clusters, jit, lockout, solved, employed, crashed>>

ReconcileDone(h, w) ==
    LET run == jml[h]
        c   == Reconciled(clusters[w], run.ev)
    IN  /\ run.pc = "reconcile"
        /\ Validate(run.ev)
        /\ clusters' = [clusters EXCEPT ![w] = c]
        /\ jml' = [jml EXCEPT ![h] =
               [run EXCEPT !.pc = "emit", !.attempt = 1,
                           !.report = Report(clusters[w], run.ev),
                           !.changed = @ \cup Changes(clusters[w], c, h)]]
        /\ UNCHANGED <<jit, lockout, solved, employed, crashed>>

ReconcileFails(h, w) ==
    /\ jml[h].pc = "reconcile"
    /\ Validate(jml[h].ev)
    /\ \E c \in Stops(clusters[w], jml[h].ev) :
          LET run == [jml[h] EXCEPT !.changed =
                         @ \cup Changes(clusters[w], c, h)]
          IN  /\ clusters' = [clusters EXCEPT ![w] = c]
              /\ jml' = [jml EXCEPT ![h] =
                     Again(run, [run EXCEPT !.pc = "failed"])]
    /\ UNCHANGED <<jit, lockout, solved, employed, crashed>>

\* One audit record reaches the SIEM.
EmitDone(h) ==
    /\ jml[h].pc = "emit"
    /\ jml[h].report # <<>>
    /\ jml' = [jml EXCEPT ![h].sent = @ \cup {Head(jml[h].report)},
                          ![h].report = Tail(@),
                          ![h].attempt = 1]
    /\ UNCHANGED <<clusters, jit, lockout, solved, employed, crashed>>

\* Mutant of EmitFails: the record is retried until the SIEM takes it.
EmitFailsForever(h) ==
    /\ jml[h].pc = "emit"
    /\ jml[h].report # <<>>
    /\ \E got \in SUBSET {Head(jml[h].report)} :
          jml' = [jml EXCEPT ![h].sent = @ \cup got,
                             ![h].attempt = (@ % MaxAttempts) + 1]
    /\ UNCHANGED <<clusters, jit, lockout, solved, employed, crashed>>

\* An attempt failed, before or after the record got through.  After the last
\* one the workflow goes on: a SIEM hiccup must not roll back the change.
EmitFails(h) ==
    /\ jml[h].pc = "emit"
    /\ jml[h].report # <<>>
    /\ \E got \in SUBSET {Head(jml[h].report)} :
          LET run == [jml[h] EXCEPT !.sent = @ \cup got]
          IN  jml' = [jml EXCEPT ![h] =
                  Again(run, [run EXCEPT !.report = Tail(@), !.attempt = 1,
                                         !.silent = TRUE])]
    /\ UNCHANGED <<clusters, jit, lockout, solved, employed, crashed>>

\* Every record was dealt with.  The summary asked for next is advisory: it
\* changes nothing and no failure of it is heard.
Narrate(h) ==
    /\ jml[h].pc = "emit"
    /\ jml[h].report = <<>>
    /\ jml' = [jml EXCEPT ![h].pc = "done"]
    /\ UNCHANGED <<clusters, jit, lockout, solved, employed, crashed>>

JmlStep(h) ==
    \/ ReconcileRefused(h)
    \/ \E w \in Worker : ReconcileDone(h, w) \/ ReconcileFails(h, w)
    \/ EmitDone(h)
    \/ EmitFails(h)
    \/ Narrate(h)

-----------------------------------------------------------------------------
(* AccessRequestWorkflow.                                                   *)

StartJit(r) ==
    /\ ~Running(jit[r])
    /\ jit' = [jit EXCEPT ![r] =
                  [pc |-> "evaluating", attempt |-> 1, signals |-> <<>>]]
    /\ UNCHANGED <<clusters, jml, lockout, solved, employed, crashed>>

\* EvaluateAccessRequest on the cluster of the worker that runs it.  A
\* requester it does not know goes to the approver, like any other.
EvaluateDone(r, w) ==
    LET cur == clusters[w].users[r.user] IN
    /\ jit[r].pc = "evaluating"
    /\ jit' = [jit EXCEPT ![r].pc =
           IF cur.exists /\ CanAutoApprove(cur.roles, r.requested)
           THEN "auto-approved" ELSE "awaiting-approval"]
    /\ UNCHANGED <<clusters, jml, lockout, solved, employed, crashed>>

EvaluateFails(r) ==
    /\ jit[r].pc = "evaluating"
    /\ jit' = [jit EXCEPT ![r] = Again(@, [@ EXCEPT !.pc = "failed"])]
    /\ UNCHANGED <<clusters, jml, lockout, solved, employed, crashed>>

\* The server buffers a signal for any open run, evaluated or not.
Signal(r, approve) ==
    /\ Running(jit[r])
    /\ Len(jit[r].signals) < MaxSignals
    /\ jit' = [jit EXCEPT ![r].signals = Append(@, approve)]
    /\ UNCHANGED <<clusters, jml, lockout, solved, employed, crashed>>

\* Mutant of TakeSignal: the latest signal decides.
TakeLastSignal(r) ==
    /\ jit[r].pc = "awaiting-approval"
    /\ jit[r].signals # <<>>
    /\ jit' = [jit EXCEPT ![r].pc =
           IF jit[r].signals[Len(jit[r].signals)]
           THEN "human-approved" ELSE "denied"]
    /\ UNCHANGED <<clusters, jml, lockout, solved, employed, crashed>>

\* waitForApproval receives one signal, the first.
TakeSignal(r) ==
    /\ jit[r].pc = "awaiting-approval"
    /\ jit[r].signals # <<>>
    /\ jit' = [jit EXCEPT ![r].pc =
           IF Head(jit[r].signals) THEN "human-approved" ELSE "denied"]
    /\ UNCHANGED <<clusters, jml, lockout, solved, employed, crashed>>

\* Mutant of TimerFires: the timer starts the wait again.
TimerRestarts(r) ==
    /\ jit[r].pc = "awaiting-approval"
    /\ jit[r].signals = <<>>
    /\ jit' = [jit EXCEPT ![r].attempt = 1]
    /\ UNCHANGED <<clusters, jml, lockout, solved, employed, crashed>>

\* The selector tries its cases in the order they were added: when the timer
\* and a signal are both ready, the signal is received.
TimerFires(r) ==
    /\ jit[r].pc = "awaiting-approval"
    /\ jit[r].signals = <<>>
    /\ jit' = [jit EXCEPT ![r].pc = "denied"]
    /\ UNCHANGED <<clusters, jml, lockout, solved, employed, crashed>>

JitStep(r) ==
    \/ \E w \in Worker : EvaluateDone(r, w)
    \/ EvaluateFails(r)
    \/ TakeSignal(r)
    \/ TimerFires(r)

-----------------------------------------------------------------------------
(* LockoutWorkflow.                                                         *)

\* ClassifyAndExtract: an e-mail anywhere in the text comes before a name.
Intent(t) == IF "lock" \in t.words THEN "lockout"
             ELSE IF "access" \in t.words THEN "access_request" ELSE "unknown"

Target(t) == IF t.email # NoEmail THEN t.email ELSE t.named

StartLockout(t) ==
    /\ ~Running(lockout[t])
    /\ lockout' = [lockout EXCEPT ![t].pc = "classify", ![t].attempt = 1,
                                  ![t].target = NoEmail, ![t].on = {}]
    /\ UNCHANGED <<clusters, jml, jit, solved, employed, crashed>>

ClassifyDone(t) ==
    /\ lockout[t].pc = "classify"
    /\ lockout' = [lockout EXCEPT ![t] =
           IF Intent(t) = "lockout" /\ Target(t) # NoEmail
           THEN [@ EXCEPT !.pc = "lock", !.attempt = 1, !.target = Target(t)]
           ELSE [@ EXCEPT !.pc = "ignored"]]
    /\ UNCHANGED <<clusters, jml, jit, solved, employed, crashed>>

ClassifyFails(t) ==
    /\ lockout[t].pc = "classify"
    /\ lockout' = [lockout EXCEPT ![t] = Again(@, [@ EXCEPT !.pc = "failed"])]
    /\ UNCHANGED <<clusters, jml, jit, solved, employed, crashed>>

LockDone(t, w) ==
    /\ lockout[t].pc = "lock"
    /\ clusters' = [clusters EXCEPT ![w] = Locked(@, lockout[t].target)]
    /\ lockout' = [lockout EXCEPT ![t].pc = "update", ![t].attempt = 1,
                                  ![t].on = {w}]
    /\ UNCHANGED <<jml, jit, solved, employed, crashed>>

\* Mutant of LockFails: the lock is best effort, like the steps after it.
LockFailsQuietly(t, w) ==
    /\ lockout[t].pc = "lock"
    /\ \E c \in {clusters[w], Locked(clusters[w], lockout[t].target)} :
          clusters' = [clusters EXCEPT ![w] = c]
    /\ lockout' = [lockout EXCEPT ![t] =
           Again(@, [@ EXCEPT !.pc = "update", !.attempt = 1])]
    /\ UNCHANGED <<jml, jit, solved, employed, crashed>>

\* The lock may be in place although the attempt failed.
LockFails(t, w) ==
    /\ lockout[t].pc = "lock"
    /\ \E c \in {clusters[w], Locked(clusters[w], lockout[t].target)} :
          clusters' = [clusters EXCEPT ![w] = c]
    /\ lockout' = [lockout EXCEPT ![t] = Again(@, [@ EXCEPT !.pc = "failed"])]
    /\ UNCHANGED <<jml, jit, solved, employed, crashed>>

\* The helpdesk refuses a ticket it does not hold.
UpdateDone(t) ==
    /\ lockout[t].pc = "update"
    /\ t \in Known
    /\ solved' = solved \cup {t}
    /\ lockout' = [lockout EXCEPT ![t].pc = "audit", ![t].attempt = 1]
    /\ UNCHANGED <<clusters, jml, jit, employed, crashed>>

\* The outcome is dropped: after the last attempt the saga goes on.
UpdateFails(t) ==
    /\ lockout[t].pc = "update"
    /\ \E got \in SUBSET ({t} \cap Known) : solved' = solved \cup got
    /\ lockout' = [lockout EXCEPT ![t] =
           Again(@, [@ EXCEPT !.pc = "audit", !.attempt = 1])]
    /\ UNCHANGED <<clusters, jml, jit, employed, crashed>>

\* The SIEM has the record or the attempts ran out; no state depends on which.
AuditForwarded(t) ==
    /\ lockout[t].pc = "audit"
    /\ lockout' = [lockout EXCEPT ![t].pc = "resolved"]
    /\ UNCHANGED <<clusters, jml, jit, solved, employed, crashed>>

LockoutStep(t) ==
    \/ ClassifyDone(t)
    \/ ClassifyFails(t)
    \/ \E w \in Worker : LockDone(t, w) \/ LockFails(t, w)
    \/ UpdateDone(t)
    \/ UpdateFails(t)
    \/ AuditForwarded(t)

-----------------------------------------------------------------------------
\* A worker process ends and a new one is started in its place.
Restart(w) ==
    /\ clusters' = [clusters EXCEPT ![w] = EmptyCluster]
    /\ crashed' = crashed \cup {w}
    /\ UNCHANGED <<jml, jit, lockout, solved, employed>>

Next ==
    \/ \E ev \in Feed : StartJml(ev)
    \/ \E h \in Human : JmlStep(h)
    \/ \E r \in AccessRequest :
          \/ StartJit(r)
          \/ JitStep(r)
          \/ \E approve \in BOOLEAN : Signal(r, approve)
    \/ \E t \in TicketRef : StartLockout(t) \/ LockoutStep(t)
    \/ \E w \in Worker : Restart(w)

Spec == Init /\ [][Next]_vars

\* The server keeps an open run going: it dispatches the attempts, delivers
\* the signals it holds and fires timers.  Nobody has to start a run or answer
\* a request.
FairSpec ==
    /\ Spec
    /\ \A h \in Human : WF_vars(JmlStep(h))
    /\ \A r \in AccessRequest : WF_vars(JitStep(r))
    /\ \A t \in TicketRef : WF_vars(LockoutStep(t))

-----------------------------------------------------------------------------
TypeOK ==
    /\ clusters \in [Worker -> Cluster]
    /\ jml \in [Human -> JmlRun]
    /\ jit \in [AccessRequest -> JitRun]
    /\ lockout \in [TicketRef -> LockoutRun]
    /\ solved \subseteq Known
    /\ employed \subseteq Feed
    /\ crashed \subseteq Worker

(* An offboarding that the workflow reports done left both of its records   *)
(* in the SIEM, through every failure, restart and retry of the reconcile,  *)
(* unless the SIEM itself refused one to the last attempt.                  *)
OffboardingIsAudited ==
    \A h \in Human :
        jml[h].pc = "done" /\ jml[h].ev.type = "leaver" /\ ~jml[h].silent =>
            {"lock", "deprovision"} \subseteq jml[h].sent

(* A grant the SIEM hears of is one that this very run made on a cluster.   *)
GrantsReportedWereMade ==
    \A h \in Human :
        jml[h].sent \cap {"provision", "update_roles"} \subseteq jml[h].changed

(* lifecycle.go: the workflow "emits an audit record per resulting action", *)
(* so a run the SIEM refused nothing has reported every change it made.     *)
EveryChangeIsAudited ==
    \A h \in Human :
        jml[h].pc = "done" /\ ~jml[h].silent =>
            jml[h].changed \subseteq jml[h].sent

(* Of the answers given to one request, and of an answer and the timeout,   *)
(* the first answer decides, also when it came before the evaluation was    *)
(* done; a request is denied without an answer only if there was none.      *)
FirstAnswerDecides ==
    \A r \in AccessRequest :
        jit[r].pc \in {"human-approved", "denied"} =>
            (jit[r].pc = "human-approved"
                <=> jit[r].signals # <<>> /\ Head(jit[r].signals))

(* Whichever worker evaluates a request, with whatever it still remembers,  *)
(* a role is auto-approved only along an escalation path from the roles     *)
(* that some record HR delivered of the requester, as employed, entitles to. *)
AutoApprovalFollowsHr ==
    \A r \in AccessRequest : jit[r].pc = "auto-approved" =>
        \E ev \in employed :
            /\ ev.employee.email = r.user
            /\ CanAutoApprove(RolesFor(ev.employee), r.requested)

(* A ticket is resolved only with the lock on its target in place, and the  *)
(* lock outlasts every later event of that person, a joiner's included, as  *)
(* long as the worker's process lives.                                      *)
ResolvedIsLocked ==
    \A t \in TicketRef : lockout[t].pc = "resolved" =>
        \E w \in lockout[t].on :
            lockout[t].target \in clusters[w].locks \/ w \in crashed

(* Every lifecycle run and every saga that was started closes, whatever     *)
(* fails, is refused or restarts on the way.                                *)
RunsClose ==
    /\ \A h \in Human : Running(jml[h]) ~> ~Running(jml[h])
    /\ \A t \in TicketRef : Running(lockout[t]) ~> ~Running(lockout[t])

(* A request nobody answers is decided as well: the timer denies it.        *)
RequestsAreDecided ==
    \A r \in AccessRequest : Running(jit[r]) ~> ~Running(jit[r])

=============================================================================
