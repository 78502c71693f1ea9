----------------------------- MODULE AgentEngine ----------------------------
(***************************************************************************)
(* The agent half of go/internal/engine: ReconcileAgent over the workload  *)
(* identities, bots and locks of the Teleport mock, as calls that any      *)
(* number of workers run at once and retry from the beginning.  Agents     *)
(* mint SVIDs at run time (tbot), which a lock on the bot user severs.     *)
(***************************************************************************)
EXTENDS AccessPlane, LeanModel, Naturals

CONSTANTS Feed,          \* the agent events delivered
          Slot,          \* activity slots of the workers
          MaxAttempts    \* RetryPolicy.MaximumAttempts

ASSUME FeedAssumption == Feed # {} /\ Feed \subseteq AgentEvent
ASSUME AttemptAssumption == MaxAttempts \in Nat \ {0}

VARIABLES
    wis,        \* keys of Mock.wis
    bots,       \* Mock.bots: [Agent -> Bot]
    locks,      \* the bot users in Mock.locks
    svids,      \* agents that hold an unexpired SVID
    calls,      \* the reconcile each slot is running
    alone,      \* history: slots whose call met no other call on its agent
    settled     \* history: the event that call reconciled, until the next one

vars == <<wis, bots, locks, svids, calls, alone, settled>>

-----------------------------------------------------------------------------
Pc == {"idle", "start", "addBot", "removeBot", "deleteIdentity", "done"}

Call == [pc : Pc, ev : Feed, attempt : 1..MaxAttempts, orphan : BOOLEAN]

Idle == [pc |-> "idle", ev |-> CHOOSE e \in Feed : TRUE,
         attempt |-> 1, orphan |-> FALSE]

Fresh(ev, n) ==
    [pc |-> "start", ev |-> ev, attempt |-> n, orphan |-> FALSE]

Subj(s) == calls[s].ev.subject
Name(s) == Subj(s).name
Busy(s) == calls[s].pc # "idle"

Rivals(s, a) == {t \in Slot \ {s} : Busy(t) /\ Name(t) = a}

Begin(s, ev, n) ==
    LET a == ev.subject.name IN
    /\ calls[s].pc = "idle"
    /\ alone' = IF Rivals(s, a) = {} THEN alone \cup {s}
                                     ELSE alone \ Rivals(s, a)
    /\ settled' = [settled EXCEPT ![a] = {}]

End(s) == /\ calls' = [calls EXCEPT ![s] = Idle]
          /\ alone' = alone \ {s}

Step(s, pc) == calls' = [calls EXCEPT ![s].pc = pc]

\* ReconcileAgent's own checks: the kind of subject and the type of event.
Accepts(ev) ==
    /\ ev.subject.kind = "agent"
    /\ ev.type \in {"joiner", "mover", "leaver"}

-----------------------------------------------------------------------------
Init ==
    /\ wis = {}
    /\ bots = [a \in Agent |-> NoBot]
    /\ locks = {}
    /\ svids = {}
    /\ calls = [s \in Slot |-> Idle]
    /\ alone = {}
    /\ settled = [a \in Agent |-> {}]

Submit(s, ev) ==
    /\ Begin(s, ev, 1)
    /\ calls' = [calls EXCEPT ![s] = Fresh(ev, 1)]
    /\ UNCHANGED <<wis, bots, locks, svids>>

\* joinAgent and moveAgent make the same calls and differ in their report only.
GrantIdentity(s) ==
    /\ calls[s].pc = "start"
    /\ Accepts(calls[s].ev)
    /\ calls[s].ev.type \in {"joiner", "mover"}
    /\ wis' = UpsertWorkloadIdentity(wis, Name(s))
    /\ Step(s, "addBot")
    /\ UNCHANGED <<bots, locks, svids, alone, settled>>

GrantBot(s) ==
    /\ calls[s].pc = "addBot"
    /\ bots' = AddBot(bots, Name(s), RolesForAgent(Subj(s)))
    /\ Step(s, "done")
    /\ UNCHANGED <<wis, locks, svids, alone, settled>>

\* Mutant of LeaveLock: the bot is locked, the cluster is not told.
LeaveLockBotOnly(s) ==
    /\ calls[s].pc = "start"
    /\ Accepts(calls[s].ev)
    /\ calls[s].ev.type = "leaver"
    /\ bots' = LockBot(bots, Name(s))
    /\ Step(s, "removeBot")
    /\ UNCHANGED <<wis, locks, svids, alone, settled>>

\* leaveAgent: lock the bot, then remove the bot, then delete the identity.
LeaveLock(s) ==
    /\ calls[s].pc = "start"
    /\ Accepts(calls[s].ev)
    /\ calls[s].ev.type = "leaver"
    /\ bots' = LockBot(bots, Name(s))
    /\ locks' = CreateLock(locks, BotUser[Name(s)])
    /\ Step(s, "removeBot")
    /\ UNCHANGED <<wis, svids, alone, settled>>

LeaveRemoveBot(s) ==
    /\ calls[s].pc = "removeBot"
    /\ bots' = RemoveBot(bots, Name(s))
    /\ Step(s, "deleteIdentity")
    /\ UNCHANGED <<wis, locks, svids, alone, settled>>

LeaveDeleteIdentity(s) ==
    /\ calls[s].pc = "deleteIdentity"
    /\ wis' = DeleteWorkloadIdentity(wis, Name(s))
    /\ Step(s, "done")
    /\ UNCHANGED <<bots, locks, svids, alone, settled>>

Complete(s) ==
    /\ calls[s].pc = "done"
    /\ settled' = IF s \in alone
                  THEN [settled EXCEPT ![Name(s)] = {calls[s].ev}] ELSE settled
    /\ End(s)
    /\ UNCHANGED <<wis, bots, locks, svids>>

\* Mutant of Retry: one attempt too many.
RetryOnceMore(s) ==
    /\ Busy(s)
    /\ ~calls[s].orphan
    /\ calls[s].attempt <= MaxAttempts
    /\ calls' = [calls EXCEPT ![s] = Fresh(calls[s].ev, calls[s].attempt + 1)]
    /\ UNCHANGED <<wis, bots, locks, svids, alone, settled>>

\* An error, wherever it comes from: an event ReconcileAgent refuses (an
\* ordinary error, so the worker retries it), a Teleport call, a dead worker.
Retry(s) ==
    /\ Busy(s)
    /\ ~calls[s].orphan
    /\ calls[s].attempt < MaxAttempts
    /\ calls' = [calls EXCEPT ![s] = Fresh(calls[s].ev, calls[s].attempt + 1)]
    /\ UNCHANGED <<wis, bots, locks, svids, alone, settled>>

GiveUp(s) ==
    /\ Busy(s)
    /\ calls[s].orphan \/ calls[s].attempt = MaxAttempts
    /\ End(s)
    /\ UNCHANGED <<wis, bots, locks, svids, settled>>

TimeOut(s, t) ==
    /\ Busy(s)
    /\ ~calls[s].orphan
    /\ calls[s].attempt < MaxAttempts
    /\ Begin(t, calls[s].ev, calls[s].attempt + 1)
    /\ calls' = [calls EXCEPT ![s].orphan = TRUE,
                              ![t] = Fresh(calls[s].ev, calls[s].attempt + 1)]
    /\ UNCHANGED <<wis, bots, locks, svids>>

\* tbot mints an SVID; one that it held already is renewed.
IssueSVID(a) ==
    /\ CanIssueSVID(bots, wis, a)
    /\ svids' = svids \cup {a}
    /\ UNCHANGED <<wis, bots, locks, calls, alone, settled>>

\* The short TTL of an SVID runs out.
Expire(a) ==
    /\ a \in svids
    /\ svids' = svids \ {a}
    /\ UNCHANGED <<wis, bots, locks, calls, alone, settled>>

Next ==
    \/ \E s \in Slot, ev \in Feed : Submit(s, ev)
    \/ \E s \in Slot :
          \/ GrantIdentity(s)
          \/ GrantBot(s)
          \/ LeaveLock(s)
          \/ LeaveRemoveBot(s)
          \/ LeaveDeleteIdentity(s)
          \/ Complete(s)
          \/ Retry(s)
          \/ GiveUp(s)
    \/ \E s, t \in Slot : TimeOut(s, t)
    \/ \E a \in Agent : IssueSVID(a) \/ Expire(a)

Spec == Init /\ [][Next]_vars

-----------------------------------------------------------------------------
TypeOK ==
    /\ wis \subseteq Agent
    /\ bots \in [Agent -> Bot]
    /\ locks \subseteq {BotUser[a] : a \in Agent}
    /\ svids \subseteq Agent
    /\ calls \in [Slot -> Call]
    /\ alone \subseteq Slot
    /\ settled \in [Agent -> SUBSET Feed]

Converged(a, ev) ==
    IF ev.type = "leaver"
    THEN ~bots[a].exists /\ a \notin wis /\ BotUser[a] \in locks
    ELSE /\ a \in wis
         /\ bots[a] = [exists |-> TRUE, roles |-> RolesForAgent(ev.subject),
                       locked |-> FALSE]

(* A reconcile that no other call on its agent overlapped leaves the agent  *)
(* exactly as its event says: bot and identity gone and the bot user locked *)
(* after a leave, both present with exactly the roles of the scope after a  *)
(* join or a move, whatever failed and was retried on the way.              *)
AgentConverges == \A a \in Agent : \A ev \in settled[a] : Converged(a, ev)

(* No step of a leave, a failure or a retry ever makes a credential         *)
(* obtainable: an agent becomes able to mint an SVID only while a join or a *)
(* move of that very agent is being reconciled.                             *)
MintingOnlyByGrant ==
    [][\A a \in Agent :
          CanIssueSVID(bots, wis, a)' /\ ~CanIssueSVID(bots, wis, a) =>
              \E s \in Slot : /\ Busy(s) /\ Name(s) = a
                              /\ calls[s].ev.type \in {"joiner", "mover"}]_vars

(* A decommission takes the credential away with its first call, the lock,  *)
(* and it stays away up to the end of the call, through every failure and   *)
(* retry, as long as no other event of the agent is being reconciled.       *)
LeaveSeversFirst ==
    \A s \in alone :
        calls[s].pc \in {"removeBot", "deleteIdentity", "done"}
            /\ calls[s].ev.type = "leaver" =>
                /\ ~CanIssueSVID(bots, wis, Name(s))
                /\ BotUser[Name(s)] \in locks

(* Deleting the bot or the identity does not revoke an SVID that was minted *)
(* before: whenever one outlives either, the cluster lock severs it.        *)
OutstandingSvidsAreSevered ==
    \A a \in svids :
        ~bots[a].exists \/ a \notin wis => BotUser[a] \in locks

-----------------------------------------------------------------------------
\* The roles an agent can use: those it can obtain an SVID for, unless the
\* cluster severs whatever the bot user presents.
Access ==
    [a \in Agent |-> IF BotUser[a] \notin locks /\ CanIssueSVID(bots, wis, a)
                     THEN bots[a].roles ELSE {}]

Records(a) == {ev \in Feed : Accepts(ev) /\ ev.subject.name = a}

Promise == INSTANCE Offboarding WITH
    Identity    <- Agent,
    Entitlement <- [a \in Agent |->
                       {RolesForAgent(ev.subject) : ev \in Records(a)}],
    Leavers     <- {a \in Agent : \E ev \in Records(a) : ev.type = "leaver"},
    access      <- Access,
    severed     <- {a \in Agent : BotUser[a] \in locks}

(* Agents are held to the promise made for people (Agent.lean: there is no  *)
(* agent-specific escape hatch), taking the cluster to enforce its locks.   *)
ImplementsOffboarding == Promise!Spec

=============================================================================
