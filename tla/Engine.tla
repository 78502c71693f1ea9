------------------------------- MODULE Engine -------------------------------
(***************************************************************************)
(* The human half of go/internal/engine, run as the ReconcileHuman         *)
(* activity of the Temporal worker.  The engine has no lock of its own:    *)
(* one Reconcile is a sequence of Teleport calls, and the calls of         *)
(* reconciles that run at the same time interleave.  The worker retries a  *)
(* failed attempt from the beginning, a bounded number of times.  It may   *)
(* also start the next attempt while an attempt that timed out is still    *)
(* running, because the client ignores the cancelled context.              *)
(***************************************************************************)
EXTENDS AccessPlane, LeanModel, Naturals

CONSTANTS Feed,          \* the events the HR sources deliver
          Slot,          \* activity slots of the workers
          MaxAttempts    \* RetryPolicy.MaximumAttempts

ASSUME FeedAssumption == Feed # {} /\ Feed \subseteq Event
ASSUME AttemptAssumption == MaxAttempts \in Nat \ {0}

VARIABLES
    users,        \* Mock.users: [Human -> User]
    locks,        \* keys of Mock.locks
    calls,        \* the reconcile each slot is running
    alone,        \* history: slots whose call met no other call on its identity
    settled,      \* history: the event that call reconciled, until the next one
    offboarded,   \* history: identities a leaver event was reported done for
    abandoned     \* history: identities some event of which ran out of attempts

vars == <<users, locks, calls, alone, settled, offboarded, abandoned>>

-----------------------------------------------------------------------------
Pc == {"idle", "start", "upsert", "delete", "done"}

\* An orphan is an attempt the server has timed out: nobody waits for it.
Call == [pc : Pc, ev : Feed, attempt : 1..MaxAttempts, orphan : BOOLEAN]

Idle == [pc |-> "idle", ev |-> CHOOSE e \in Feed : TRUE,
         attempt |-> 1, orphan |-> FALSE]

Fresh(ev, n) ==
    [pc |-> "start", ev |-> ev, attempt |-> n, orphan |-> FALSE]

Emp(s)  == calls[s].ev.employee
Name(s) == Emp(s).email
Busy(s) == calls[s].pc # "idle"

Rivals(s, h) == {t \in Slot \ {s} : Busy(t) /\ calls[t].ev.employee.email = h}

Forget(h) == [x \in Human |-> IF x = h THEN {} ELSE settled[x]]

\* Slot s takes up ev: the call is alone if no other call names the identity,
\* and those that do are alone no longer.
Begin(s, ev, n) ==
    LET h == ev.employee.email IN
    /\ calls[s].pc = "idle"
    /\ alone' = IF Rivals(s, h) = {} THEN alone \cup {s}
                                     ELSE alone \ Rivals(s, h)
    /\ settled' = Forget(h)

End(s) == /\ calls' = [calls EXCEPT ![s] = Idle]
          /\ alone' = alone \ {s}

-----------------------------------------------------------------------------
Init ==
    /\ users = [h \in Human |-> NoUser]
    /\ locks = {}
    /\ calls = [s \in Slot |-> Idle]
    /\ alone = {}
    /\ settled = [h \in Human |-> {}]
    /\ offboarded = {}
    /\ abandoned = {}

\* A workflow schedules the activity and a worker picks it up.
Submit(s, ev) ==
    /\ Begin(s, ev, 1)
    /\ calls' = [calls EXCEPT ![s] = Fresh(ev, 1)]
    /\ UNCHANGED <<users, locks, offboarded, abandoned>>

\* A malformed event is a non-retryable failure.
Reject(s) ==
    /\ calls[s].pc = "start"
    /\ ~Validate(calls[s].ev)
    /\ End(s)
    /\ UNCHANGED <<users, locks, settled, offboarded, abandoned>>

SameRoles(a, b) == a = b

\* converge, the read: nothing more to do when the roles are the desired ones.
\* The value read also chooses between Provision and UpdateRoles in the action
\* reported, which no property here is about.
ConvergeRead(s) ==
    LET cur == users[Name(s)] IN
    /\ calls[s].pc = "start"
    /\ Validate(calls[s].ev)
    /\ calls[s].ev.type \in {"joiner", "mover"}
    /\ calls' = [calls EXCEPT ![s].pc =
           IF cur.exists /\ SameRoles(cur.roles, RolesFor(Emp(s)))
           THEN "done" ELSE "upsert"]
    /\ UNCHANGED <<users, locks, alone, settled, offboarded, abandoned>>

\* Mutant of ConvergeWrite: joining again lifts the lock.
ConvergeWriteUnlocks(s) ==
    /\ calls[s].pc = "upsert"
    /\ users' = UpsertUser(users, Name(s), RolesFor(Emp(s)))
    /\ locks' = locks \ {Name(s)}
    /\ calls' = [calls EXCEPT ![s].pc = "done"]
    /\ UNCHANGED <<alone, settled, offboarded, abandoned>>

\* converge, the write.
ConvergeWrite(s) ==
    /\ calls[s].pc = "upsert"
    /\ users' = UpsertUser(users, Name(s), RolesFor(Emp(s)))
    /\ calls' = [calls EXCEPT ![s].pc = "done"]
    /\ UNCHANGED <<locks, alone, settled, offboarded, abandoned>>

\* Mutants of DeprovisionLock: an identity without a user is skipped; the user
\* is deleted and never locked.
DeprovisionKnownOnly(s) ==
    /\ calls[s].pc = "start"
    /\ Validate(calls[s].ev)
    /\ calls[s].ev.type = "leaver"
    /\ IF users[Name(s)].exists
       THEN /\ locks' = CreateLock(locks, Name(s))
            /\ calls' = [calls EXCEPT ![s].pc = "delete"]
       ELSE /\ calls' = [calls EXCEPT ![s].pc = "done"]
            /\ UNCHANGED locks
    /\ UNCHANGED <<users, alone, settled, offboarded, abandoned>>
DeprovisionUnlocked(s) ==
    /\ calls[s].pc = "start"
    /\ Validate(calls[s].ev)
    /\ calls[s].ev.type = "leaver"
    /\ calls' = [calls EXCEPT ![s].pc = "delete"]
    /\ UNCHANGED <<users, locks, alone, settled, offboarded, abandoned>>

\* deprovision, first half.
DeprovisionLock(s) ==
    /\ calls[s].pc = "start"
    /\ Validate(calls[s].ev)
    /\ calls[s].ev.type = "leaver"
    /\ locks' = CreateLock(locks, Name(s))
    /\ calls' = [calls EXCEPT ![s].pc = "delete"]
    /\ UNCHANGED <<users, alone, settled, offboarded, abandoned>>

\* deprovision, second half.
DeprovisionDelete(s) ==
    /\ calls[s].pc = "delete"
    /\ users' = DeleteUser(users, Name(s))
    /\ calls' = [calls EXCEPT ![s].pc = "done"]
    /\ UNCHANGED <<locks, alone, settled, offboarded, abandoned>>

\* The attempt returned and its result reached the server.
Complete(s) ==
    LET h == Name(s) IN
    /\ calls[s].pc = "done"
    /\ settled' = [settled EXCEPT ![h] = IF s \in alone THEN {calls[s].ev} ELSE {}]
    /\ offboarded' = IF calls[s].ev.type = "leaver"
                     THEN offboarded \cup {h} ELSE offboarded
    /\ End(s)
    /\ UNCHANGED <<users, locks, abandoned>>

\* A Teleport call returned an error, or the worker died before the server
\* heard the result ("done"): the attempt stops where it is.
Fails(s) == /\ calls[s].pc \in {"start", "upsert", "delete", "done"}
            /\ Validate(calls[s].ev)

\* Mutant of Retry: one attempt too many.
RetryOnceMore(s) ==
    /\ Fails(s)
    /\ ~calls[s].orphan
    /\ calls[s].attempt <= MaxAttempts
    /\ calls' = [calls EXCEPT ![s] = Fresh(calls[s].ev, calls[s].attempt + 1)]
    /\ UNCHANGED <<users, locks, alone, settled, offboarded, abandoned>>

\* The retry policy starts the whole Reconcile again.
Retry(s) ==
    /\ Fails(s)
    /\ ~calls[s].orphan
    /\ calls[s].attempt < MaxAttempts
    /\ calls' = [calls EXCEPT ![s] = Fresh(calls[s].ev, calls[s].attempt + 1)]
    /\ UNCHANGED <<users, locks, alone, settled, offboarded, abandoned>>

\* No attempt is left, or nobody waits for this one.
GiveUp(s) ==
    /\ Fails(s)
    /\ calls[s].orphan \/ calls[s].attempt = MaxAttempts
    /\ abandoned' = IF calls[s].orphan THEN abandoned ELSE abandoned \cup {Name(s)}
    /\ End(s)
    /\ UNCHANGED <<users, locks, settled, offboarded>>

\* StartToCloseTimeout: the next attempt starts in slot t, while the one in s
\* runs on with nobody to read its result.
TimeOut(s, t) ==
    /\ Fails(s)
    /\ ~calls[s].orphan
    /\ calls[s].attempt < MaxAttempts
    /\ Begin(t, calls[s].ev, calls[s].attempt + 1)
    /\ calls' = [calls EXCEPT ![s].orphan = TRUE,
                              ![t] = Fresh(calls[s].ev, calls[s].attempt + 1)]
    /\ UNCHANGED <<users, locks, offboarded, abandoned>>

Work(s) ==
    \/ Reject(s)
    \/ ConvergeRead(s)
    \/ ConvergeWrite(s)
    \/ DeprovisionLock(s)
    \/ DeprovisionDelete(s)
    \/ Complete(s)
    \/ Retry(s)
    \/ GiveUp(s)

Next ==
    \/ \E s \in Slot, ev \in Feed : Submit(s, ev)
    \/ \E s \in Slot : Work(s)
    \/ \E s, t \in Slot : TimeOut(s, t)

Spec == Init /\ [][Next]_vars

\* Temporal keeps dispatching an attempt that is under way; nothing makes HR
\* deliver an event or an attempt time out.
FairSpec == Spec /\ \A s \in Slot : WF_vars(Work(s))

-----------------------------------------------------------------------------
\* EvaluateAccessRequest: one read of the requester, then the policy.  An
\* unknown requester is denied.
AutoApproves(h, requested) ==
    /\ users[h].exists
    /\ CanAutoApprove(users[h].roles, requested)

\* What Lean's hasAccess asks of the live state.
LiveState(h) == [roles |-> users[h].roles, locked |-> h \in locks]

TypeOK ==
    /\ users \in [Human -> User]
    /\ locks \subseteq Human
    /\ calls \in [Slot -> Call]
    /\ alone \subseteq Slot
    /\ settled \in [Human -> SUBSET Feed]
    /\ offboarded \subseteq Human
    /\ abandoned \subseteq Human

Converged(h, ev) ==
    IF ev.type = "leaver"
    THEN ~users[h].exists /\ h \in locks
    ELSE users[h].exists /\ users[h].roles = RolesFor(ev.employee)

(* A reconcile that no other call on its identity overlapped leaves that    *)
(* identity exactly as its event says: gone and locked for a leaver, with   *)
(* exactly the entitled roles otherwise.  Failed attempts, retries and      *)
(* calls on other identities make no difference, then or later.             *)
ReconcileConverges == \A h \in Human : \A ev \in settled[h] : Converged(h, ev)

(* Once a leaver event has been reported done, the identity never has       *)
(* effective access again, whatever late, retried or timed-out attempts     *)
(* still write to it (engine.go, deprovision).                              *)
OffboardedStaysOut ==
    \A h \in offboarded : ~HasAccess(LiveState(h))

Records(h) == {ev \in Feed : Validate(ev) /\ ev.employee.email = h}

Grants(ev, r) == ev.type # "leaver" /\ CanAutoApprove(RolesFor(ev.employee), r)

(* A just-in-time request of a settled identity is auto-approved only along *)
(* an escalation path from the roles of its HR record, so never for a       *)
(* leaver.  While the cluster lags behind HR, mid-retry, between timed-out  *)
(* attempts or after a record was given up on, it may go by another record, *)
(* but by one the sources did deliver, whole: what several attempts at      *)
(* several records left never adds up to a grant that no one record gives.  *)
JitFollowsHr ==
    \A h \in Human, r \in Role : AutoApproves(h, r) =>
        /\ \A ev \in settled[h] : Grants(ev, r)
        /\ \E ev \in Records(h) : Grants(ev, r)

(* A user is deleted only when its lock is already in place, so no session  *)
(* or certificate outlives the user, wherever an attempt stops.             *)
LockBeforeDelete ==
    [][\A h \in Human :
          users[h].exists /\ ~users'[h].exists => h \in locks]_vars

(* An identity is locked only while a record that says terminated is being  *)
(* reconciled for it, and gains a role only while one that does not is.     *)
EffectsFollowHrStatus ==
    [][\A h \in Human :
          LET Running(S) == \E s \in Slot : /\ Busy(s) /\ Name(s) = h
                                            /\ Emp(s).status \in S
          IN  /\ h \in locks' \ locks => Running({"terminated"})
              /\ users'[h].roles \ users[h].roles # {} =>
                     Running({"active", "other"})]_vars

(* A valid leaver event that a worker has taken up ends in a lock, unless   *)
(* the identity was given up on after the last attempt.                     *)
LeaverSevers ==
    \A h \in Human :
        (\E s \in Slot : /\ calls[s].pc = "start" /\ Name(s) = h
                         /\ calls[s].ev.type = "leaver" /\ Validate(calls[s].ev))
            ~> (h \in locks \cup abandoned)

-----------------------------------------------------------------------------
Access == [h \in Human |-> IF h \in locks THEN {} ELSE users[h].roles]

Promise == INSTANCE Offboarding WITH
    Identity    <- Human,
    Entitlement <- [h \in Human |-> {RolesFor(ev.employee) : ev \in Records(h)}],
    Leavers     <- {h \in Human : \E ev \in Records(h) : ev.type = "leaver"},
    access      <- Access,
    severed     <- locks

(* The engine, with all its interleavings, retries and timeouts, implements *)
(* the promise: a user exists with roles but locked counts as no access.    *)
ImplementsOffboarding == Promise!Spec

=============================================================================
