-------------------------- MODULE AgentEngineProofs -------------------------
(***************************************************************************)
(* What AgentEngine guarantees for every feed, every policy, any number of *)
(* agents, slots and attempts.  Needed besides the properties: what a call *)
(* knows by where it stands (CallInv), what more it knows if no other call *)
(* is on its agent (AloneInv), that settled agents are at rest             *)
(* (SettledInv), and that a bot that can mint carries the roles of some    *)
(* record of its agent (EntitledInv).                                      *)
(***************************************************************************)
EXTENDS AgentEngine, TLAPS

Known(s) ==
    /\ calls[s].pc \notin {"idle", "start"} => Accepts(calls[s].ev)
    /\ calls[s].pc = "addBot" => calls[s].ev.type # "leaver"
    /\ calls[s].pc \in {"removeBot", "deleteIdentity"} =>
           calls[s].ev.type = "leaver"
    /\ /\ calls[s].pc \in {"removeBot", "deleteIdentity", "done"}
       /\ calls[s].ev.type = "leaver"
       => BotUser[Name(s)] \in locks

Stage(s) ==
    /\ calls[s].pc = "addBot" => Name(s) \in wis
    /\ calls[s].pc = "removeBot" => bots[Name(s)].locked
    /\ calls[s].pc = "deleteIdentity" => ~bots[Name(s)].exists
    /\ calls[s].pc = "done" => Converged(Name(s), calls[s].ev)

Sole(s) == \A t \in Slot \ {s} : Busy(t) => Name(t) # Name(s)

CallInv == \A s \in Slot : Known(s)

AloneInv == \A s \in alone : Busy(s) /\ Sole(s) /\ Stage(s)

SettledInv ==
    \A a \in Agent : \A ev \in settled[a] :
        /\ Converged(a, ev)
        /\ \A t \in Slot : Busy(t) => Name(t) # a

Entitled(a) == {RolesForAgent(ev.subject) : ev \in Records(a)}

EntitledInv ==
    \A a \in Agent :
        bots[a].exists /\ ~bots[a].locked => bots[a].roles \in Entitled(a)

IInv == /\ TypeOK /\ CallInv /\ AloneInv /\ SettledInv /\ EntitledInv
        /\ OutstandingSvidsAreSevered

-----------------------------------------------------------------------------
LEMMA EventFacts ==
    ASSUME NEW ev \in Feed
    PROVE  /\ ev.subject \in Subject
           /\ ev.subject.name \in Agent
           /\ RolesForAgent(ev.subject) \in SUBSET Role
<1>1. ev.subject \in Subject /\ ev.subject.name \in Agent
  BY FeedAssumption DEF AgentEvent, Subject
<1>2. RolesForAgent(ev.subject) \in SUBSET Role
  BY <1>1, PolicyAssumption DEF RolesForAgent, Subject
<1>3. QED
  BY <1>1, <1>2

LEMMA FreshFacts ==
    ASSUME NEW ev \in Feed, NEW n \in 1..MaxAttempts
    PROVE  /\ Idle \in Call /\ Idle.pc = "idle"
           /\ Fresh(ev, n) \in Call
           /\ Fresh(ev, n).pc = "start"
           /\ Fresh(ev, n).ev = ev
<1>1. (CHOOSE e \in Feed : TRUE) \in Feed
  BY FeedAssumption
<1>2. 1 \in 1..MaxAttempts
  BY AttemptAssumption
<1>3. Idle \in Call /\ Idle.pc = "idle"
  BY <1>1, <1>2 DEF Idle, Call, Pc
<1>4. QED
  BY <1>1, <1>2, <1>3 DEF Fresh, Idle, Call, Pc

LEMMA NameType ==
    ASSUME TypeOK, NEW s \in Slot
    PROVE  calls[s] \in Call /\ calls[s].ev \in Feed /\ Name(s) \in Agent
BY EventFacts DEF TypeOK, Call, Name, Subj

(* The invariant holds at the start, and every action preserves it.         *)
LEMMA InitInv == Init => IInv
<1> SUFFICES ASSUME Init PROVE IInv
  OBVIOUS
<1>1. PICK e \in Feed : TRUE
  BY FeedAssumption
<1>2. Idle \in Call /\ Idle.pc = "idle"
  BY <1>1, FreshFacts, AttemptAssumption
<1>3. NoBot \in Bot /\ ~NoBot.exists
  BY DEF NoBot, Bot
<1>4. TypeOK
  BY <1>2, <1>3 DEF Init, TypeOK
<1>5. QED
  BY <1>2, <1>3, <1>4 DEF Init, IInv, CallInv, Known, AloneInv, SettledInv,
     EntitledInv, OutstandingSvidsAreSevered

-----------------------------------------------------------------------------
\* What the actions preserve, by kind.  A call begins in an idle slot, while
\* other slots keep their place (one of them may become an orphan).
LEMMA BeginInv ==
    ASSUME IInv, NEW s \in Slot, NEW ev \in Feed, NEW n \in 1..MaxAttempts,
           Begin(s, ev, n),
           calls' \in [Slot -> Call],
           calls'[s] = Fresh(ev, n),
           \A t \in Slot \ {s} : /\ calls'[t].pc = calls[t].pc
                                 /\ calls'[t].ev = calls[t].ev,
           UNCHANGED <<wis, bots, locks, svids>>
    PROVE  IInv'
<1> USE DEF IInv
<1> DEFINE a == ev.subject.name
<1>1. /\ calls'[s].pc = "start" /\ calls'[s].ev = ev
      /\ calls[s].pc = "idle"
      /\ a \in Agent
  BY FreshFacts, EventFacts DEF Begin
<1>2. /\ settled' \in [Agent -> SUBSET Feed]
      /\ settled'[a] = {}
      /\ \A b \in Agent : b # a => settled'[b] = settled[b]
      /\ alone' \subseteq Slot
  BY <1>1 DEF Begin, TypeOK, Rivals
<1>3. TypeOK'
  BY <1>2 DEF TypeOK
<1>4. CallInv'
  BY <1>1 DEF CallInv, Known, Name, Subj
<1>5. AloneInv'
  <2> SUFFICES ASSUME NEW x \in alone' PROVE (Busy(x) /\ Sole(x) /\ Stage(x))'
    BY DEF AloneInv
  <2>1. x \in Slot
    BY <1>2
  <2>2. CASE x = s
    <3>1. Rivals(s, a) = {}
      BY <1>1, <2>2 DEF Begin, AloneInv, Busy
    <3>2. QED
      BY <1>1, <2>2, <3>1 DEF Rivals, Busy, Sole, Stage, Name, Subj
  <2>3. CASE x # s
    <3>1. x \in alone /\ x \notin Rivals(s, a)
      BY <2>1, <2>3 DEF Begin
    <3>2. Busy(x) /\ Sole(x) /\ Stage(x) /\ Name(x) # a
      BY <2>1, <2>3, <3>1 DEF AloneInv, Rivals
    <3>3. (Busy(x) /\ Sole(x))'
      BY <1>1, <2>1, <2>3, <3>2 DEF Busy, Sole, Name, Subj
    <3>4. Stage(x)'
      BY <2>1, <2>3, <3>2 DEF Stage, Name, Subj, Converged
    <3>5. QED
      BY <3>3, <3>4
  <2>4. QED
    BY <2>2, <2>3
<1>6. SettledInv'
  BY <1>1, <1>2 DEF SettledInv, Busy, Name, Subj, Converged
<1>7. EntitledInv' /\ OutstandingSvidsAreSevered'
  BY DEF EntitledInv, OutstandingSvidsAreSevered
<1>8. QED
  BY <1>3, <1>4, <1>5, <1>6, <1>7

\* A call ends, and settles its agent or not.
LEMMA EndInv ==
    ASSUME IInv, NEW s \in Slot, Busy(s), End(s),
           \/ settled' = settled
           \/ /\ calls[s].pc = "done" /\ s \in alone
              /\ settled' = [settled EXCEPT ![Name(s)] = {calls[s].ev}],
           UNCHANGED <<wis, bots, locks, svids>>
    PROVE  IInv'
<1> USE DEF IInv
<1>1. PICK e \in Feed : TRUE
  BY FeedAssumption
<1>2. Idle \in Call /\ Idle.pc = "idle"
  BY <1>1, FreshFacts, AttemptAssumption
<1>3. /\ calls' \in [Slot -> Call]
      /\ calls'[s].pc = "idle"
      /\ \A t \in Slot \ {s} : calls'[t] = calls[t]
      /\ alone' \subseteq Slot
      /\ \A t \in alone' : t \in alone /\ t # s
  BY <1>2 DEF End, TypeOK
<1>4. calls[s].ev \in Feed /\ Name(s) \in Agent
  BY NameType
<1>5. TypeOK'
  BY <1>3, <1>4 DEF TypeOK
<1>6. CallInv'
  BY <1>3 DEF CallInv, Known, Name, Subj
<1>7. AloneInv'
  BY <1>3 DEF AloneInv, TypeOK, Busy, Sole, Stage, Name, Subj, Converged
<1>8. SettledInv'
  <2> SUFFICES ASSUME NEW a \in Agent, NEW ev \in settled'[a]
               PROVE  Converged(a, ev) /\ \A t \in Slot : Busy(t)' => Name(t)' # a
    BY DEF SettledInv, Converged
  <2>1. CASE ev \in settled[a]
    BY <2>1, <1>3 DEF SettledInv, Busy, Name, Subj
  <2>2. CASE ev \notin settled[a]
    <3>1. s \in alone /\ calls[s].pc = "done" /\ a = Name(s) /\ ev = calls[s].ev
      BY <2>2, <1>4 DEF TypeOK
    <3>2. Converged(a, ev) /\ Sole(s)
      BY <3>1 DEF AloneInv, Stage
    <3>3. QED
      BY <3>1, <3>2, <1>3 DEF Sole, Busy, Name, Subj
  <2>3. QED
    BY <2>1, <2>2
<1>9. EntitledInv' /\ OutstandingSvidsAreSevered'
  BY DEF EntitledInv, OutstandingSvidsAreSevered
<1>10. QED
  BY <1>5, <1>6, <1>7, <1>8, <1>9

\* A call goes on and touches nothing but its own agent; what is left to show
\* is that the call knows what its next place says.
LEMMA GoesInv ==
    ASSUME IInv, NEW s \in Slot, Busy(s),
           calls' \in [Slot -> Call],
           calls'[s].pc # "idle",
           calls'[s].ev = calls[s].ev,
           \A t \in Slot \ {s} : calls'[t] = calls[t],
           bots' \in [Agent -> Bot],
           wis' \subseteq Agent,
           locks' \subseteq {BotUser[a] : a \in Agent},
           locks \subseteq locks',
           \A a \in Agent \ {Name(s)} : /\ bots'[a] = bots[a]
                                        /\ a \in wis' <=> a \in wis
                                        /\ BotUser[a] \in locks' <=> BotUser[a] \in locks,
           UNCHANGED <<svids, alone, settled>>,
           Known(s)',
           s \in alone => Stage(s)',
           EntitledInv',
           /\ Name(s) \in svids
           /\ ~bots'[Name(s)].exists \/ Name(s) \notin wis'
           => BotUser[Name(s)] \in locks'
    PROVE  IInv'
<1> USE DEF IInv
<1>1. TypeOK'
  BY DEF TypeOK
<1>2. \A t \in Slot : /\ Name(t)' = Name(t)
                      /\ Busy(t)' <=> Busy(t)
                      /\ Name(t) \in Agent
  BY NameType DEF Name, Subj, Busy
<1>3. CallInv'
  <2> SUFFICES ASSUME NEW t \in Slot, t # s PROVE Known(t)'
    BY DEF CallInv
  <2>1. Known(t)
    BY DEF CallInv
  <2>2. QED
    BY <2>1, <1>2 DEF Known
<1>4. AloneInv'
  <2> SUFFICES ASSUME NEW x \in alone, x # s PROVE Busy(x)' /\ Sole(x)' /\ Stage(x)'
    BY <1>2 DEF AloneInv, Sole, TypeOK
  <2>1. x \in Slot /\ Busy(x) /\ Sole(x) /\ Stage(x)
    BY DEF AloneInv, TypeOK
  <2>2. Name(x) # Name(s) /\ calls'[x] = calls[x]
    BY <2>1 DEF Sole
  <2>3. Stage(x)'
    BY <2>1, <2>2, <1>2 DEF Stage, Converged
  <2>4. QED
    BY <2>1, <2>3, <1>2 DEF Sole
<1>5. SettledInv'
  <2> SUFFICES ASSUME NEW a \in Agent, NEW ev \in settled[a]
               PROVE  Converged(a, ev)' /\ \A t \in Slot : Busy(t) => Name(t) # a
    BY <1>2 DEF SettledInv
  <2>1. Converged(a, ev) /\ \A t \in Slot : Busy(t) => Name(t) # a
    BY DEF SettledInv
  <2>2. a # Name(s)
    BY <2>1
  <2>3. QED
    BY <2>1, <2>2 DEF Converged
<1>6. OutstandingSvidsAreSevered'
  <2> SUFFICES ASSUME NEW a \in svids, ~bots'[a].exists \/ a \notin wis'
               PROVE  BotUser[a] \in locks'
    BY DEF OutstandingSvidsAreSevered
  <2>1. CASE a = Name(s)
    BY <2>1
  <2>2. CASE a # Name(s)
    BY <2>2 DEF OutstandingSvidsAreSevered, TypeOK
  <2>3. QED
    BY <2>1, <2>2
<1>7. QED
  BY <1>1, <1>3, <1>4, <1>5, <1>6

-----------------------------------------------------------------------------
\* The same, action by action.
LEMMA SubmitInv ==
    ASSUME IInv, NEW s \in Slot, NEW ev \in Feed, Submit(s, ev)
    PROVE  IInv'
<1>1. 1 \in 1..MaxAttempts
  BY AttemptAssumption
<1>2. Fresh(ev, 1) \in Call
  BY <1>1, FreshFacts
<1>3. QED
  BY <1>1, <1>2, BeginInv DEF Submit, IInv, TypeOK

LEMMA TimeOutInv ==
    ASSUME IInv, NEW s \in Slot, NEW t \in Slot, TimeOut(s, t)
    PROVE  IInv'
<1> DEFINE n == calls[s].attempt + 1
           ev == calls[s].ev
<1>1. n \in 1..MaxAttempts /\ ev \in Feed /\ calls[s] \in Call
  BY AttemptAssumption DEF TimeOut, IInv, TypeOK, Call
<1>2. Fresh(ev, n) \in Call /\ s # t
  BY <1>1, FreshFacts DEF TimeOut, Begin, Busy
<1>3. [calls[s] EXCEPT !.orphan = TRUE] \in Call
  BY <1>1 DEF Call
<1>4. /\ calls' \in [Slot -> Call]
      /\ calls'[t] = Fresh(ev, n)
      /\ \A u \in Slot \ {t} : calls'[u].pc = calls[u].pc /\ calls'[u].ev = calls[u].ev
  BY <1>1, <1>2, <1>3 DEF TimeOut, IInv, TypeOK, Call
<1>5. Begin(t, ev, n) /\ UNCHANGED <<wis, bots, locks, svids>>
  BY DEF TimeOut
<1>6. QED
  BY <1>1, <1>4, <1>5, BeginInv

LEMMA RetryInv ==
    ASSUME IInv, NEW s \in Slot, Retry(s)
    PROVE  IInv'
<1> DEFINE n == calls[s].attempt + 1
           ev == calls[s].ev
<1>1. n \in 1..MaxAttempts /\ ev \in Feed
  BY AttemptAssumption DEF Retry, IInv, TypeOK, Call
<1>2. Fresh(ev, n) \in Call /\ Fresh(ev, n).pc = "start" /\ Fresh(ev, n).ev = ev
  BY <1>1, FreshFacts
<1>3. /\ calls' \in [Slot -> Call]
      /\ calls'[s].pc = "start" /\ calls'[s].ev = ev
      /\ \A t \in Slot \ {s} : calls'[t] = calls[t]
      /\ UNCHANGED <<wis, bots, locks, svids, alone, settled>>
      /\ Busy(s)
  BY <1>2 DEF Retry, IInv, TypeOK
<1>4. Known(s)' /\ Stage(s)'
  BY <1>3 DEF Known, Stage
<1>5. EntitledInv'
  BY <1>3 DEF IInv, EntitledInv
<1>6. Name(s) \in svids /\ (~bots[Name(s)].exists \/ Name(s) \notin wis) =>
          BotUser[Name(s)] \in locks
  BY DEF IInv, OutstandingSvidsAreSevered
<1>7. QED
  BY <1>3, <1>4, <1>5, <1>6, GoesInv DEF IInv, TypeOK

\* Where a step of a call leads, whichever it is.
LEMMA StepFacts ==
    ASSUME IInv, NEW s \in Slot, Busy(s), NEW p \in Pc \ {"idle"}, Step(s, p)
    PROVE  /\ calls' \in [Slot -> Call]
           /\ calls'[s].pc = p
           /\ calls'[s].ev = calls[s].ev
           /\ Name(s)' = Name(s)
           /\ \A t \in Slot \ {s} : calls'[t] = calls[t]
BY DEF Step, IInv, TypeOK, Call, Name, Subj

LEMMA GrantIdentityInv ==
    ASSUME IInv, NEW s \in Slot, GrantIdentity(s)
    PROVE  IInv'
<1>1. Busy(s) /\ Name(s) \in Agent
  BY NameType DEF GrantIdentity, Busy, IInv
<1>2. /\ calls' \in [Slot -> Call]
      /\ calls'[s].pc = "addBot"
      /\ calls'[s].ev = calls[s].ev
      /\ Name(s)' = Name(s)
      /\ \A t \in Slot \ {s} : calls'[t] = calls[t]
  BY <1>1, StepFacts DEF GrantIdentity, Pc
<1>3. Known(s)' /\ Stage(s)'
  BY <1>2 DEF Known, Stage, GrantIdentity, UpsertWorkloadIdentity
<1>4. EntitledInv'
  BY DEF IInv, EntitledInv, GrantIdentity
<1>5. wis' = wis \cup {Name(s)} /\ UNCHANGED <<bots, locks, svids, alone, settled>>
  BY DEF GrantIdentity, UpsertWorkloadIdentity
<1>6. Name(s) \in svids /\ ~bots[Name(s)].exists => BotUser[Name(s)] \in locks
  BY DEF IInv, OutstandingSvidsAreSevered
<1>7. QED
  BY <1>1, <1>2, <1>3, <1>4, <1>5, <1>6, GoesInv DEF IInv, TypeOK

LEMMA GrantBotInv ==
    ASSUME IInv, NEW s \in Slot, GrantBot(s)
    PROVE  IInv'
<1> DEFINE a == Name(s)
           R == RolesForAgent(Subj(s))
<1>1. /\ Busy(s) /\ a \in Agent
      /\ calls[s].ev \in Feed /\ R \in SUBSET Role
      /\ Accepts(calls[s].ev) /\ calls[s].ev.type # "leaver"
  BY NameType, EventFacts DEF GrantBot, Busy, IInv, CallInv, Known, Subj
<1>2. /\ calls' \in [Slot -> Call]
      /\ calls'[s].pc = "done"
      /\ calls'[s].ev = calls[s].ev
      /\ Name(s)' = a
      /\ \A t \in Slot \ {s} : calls'[t] = calls[t]
  BY <1>1, StepFacts DEF GrantBot, Pc
<1>3. /\ bots' = [bots EXCEPT ![a] =
                     [exists |-> TRUE, roles |-> R, locked |-> FALSE]]
      /\ UNCHANGED <<wis, locks, svids, alone, settled>>
  BY DEF GrantBot, AddBot
<1>4. [exists |-> TRUE, roles |-> R, locked |-> FALSE] \in Bot
  BY <1>1 DEF Bot
<1>5. /\ bots' \in [Agent -> Bot]
      /\ bots'[a] = [exists |-> TRUE, roles |-> R, locked |-> FALSE]
      /\ \A b \in Agent \ {a} : bots'[b] = bots[b]
  BY <1>1, <1>3, <1>4 DEF IInv, TypeOK
<1>6. Known(s)'
  BY <1>1, <1>2 DEF Known
<1>7. s \in alone => Stage(s)'
  BY <1>1, <1>2, <1>3, <1>5
     DEF Stage, Converged, IInv, AloneInv, GrantBot, Subj
<1>8. EntitledInv'
  <2>1. R \in Entitled(a)
    BY <1>1 DEF Entitled, Records, Name, Subj
  <2>2. QED
    BY <2>1, <1>5 DEF IInv, EntitledInv, Entitled
<1>9. a \in svids /\ a \notin wis => BotUser[a] \in locks
  BY DEF IInv, OutstandingSvidsAreSevered
<1>10. QED
  BY <1>1, <1>2, <1>3, <1>5, <1>6, <1>7, <1>8, <1>9, GoesInv DEF IInv, TypeOK

LEMMA LeaveLockInv ==
    ASSUME IInv, NEW s \in Slot, LeaveLock(s)
    PROVE  IInv'
<1> DEFINE a == Name(s)
           b == [exists |-> TRUE, roles |-> bots[a].roles, locked |-> TRUE]
<1>1. /\ Busy(s) /\ a \in Agent
      /\ Accepts(calls[s].ev) /\ calls[s].ev.type = "leaver"
  BY NameType DEF LeaveLock, Busy, IInv
<1>2. /\ calls' \in [Slot -> Call]
      /\ calls'[s].pc = "removeBot"
      /\ calls'[s].ev = calls[s].ev
      /\ Name(s)' = a
      /\ \A t \in Slot \ {s} : calls'[t] = calls[t]
  BY <1>1, StepFacts DEF LeaveLock, Pc
<1>3. /\ bots' = [bots EXCEPT ![a] = b]
      /\ locks' = locks \cup {BotUser[a]}
      /\ UNCHANGED <<wis, svids, alone, settled>>
  BY DEF LeaveLock, LockBot, CreateLock
<1>4. b \in Bot
  BY <1>1 DEF Bot, IInv, TypeOK
<1>5. /\ bots' \in [Agent -> Bot]
      /\ bots'[a] = b
      /\ \A x \in Agent \ {a} : bots'[x] = bots[x]
      /\ locks' \subseteq {BotUser[x] : x \in Agent}
      /\ BotUser[a] \in locks'
      /\ \A x \in Agent \ {a} : BotUser[x] \in locks' <=> BotUser[x] \in locks
  BY <1>1, <1>3, <1>4, BotUserAssumption DEF IInv, TypeOK
<1>6. Known(s)' /\ Stage(s)'
  BY <1>1, <1>2, <1>5 DEF Known, Stage
<1>7. EntitledInv'
  BY <1>5 DEF IInv, EntitledInv, Entitled
<1>8. QED
  BY <1>1, <1>2, <1>3, <1>5, <1>6, <1>7, GoesInv DEF IInv, TypeOK

LEMMA LeaveRemoveBotInv ==
    ASSUME IInv, NEW s \in Slot, LeaveRemoveBot(s)
    PROVE  IInv'
<1> DEFINE a == Name(s)
<1>1. /\ Busy(s) /\ a \in Agent
      /\ Accepts(calls[s].ev) /\ calls[s].ev.type = "leaver"
      /\ BotUser[a] \in locks
  BY NameType DEF LeaveRemoveBot, Busy, IInv, CallInv, Known
<1>2. /\ calls' \in [Slot -> Call]
      /\ calls'[s].pc = "deleteIdentity"
      /\ calls'[s].ev = calls[s].ev
      /\ Name(s)' = a
      /\ \A t \in Slot \ {s} : calls'[t] = calls[t]
  BY <1>1, StepFacts DEF LeaveRemoveBot, Pc
<1>3. /\ bots' = [bots EXCEPT ![a] = NoBot]
      /\ UNCHANGED <<wis, locks, svids, alone, settled>>
  BY DEF LeaveRemoveBot, RemoveBot
<1>4. NoBot \in Bot /\ ~NoBot.exists
  BY DEF Bot, NoBot
<1>5. /\ bots' \in [Agent -> Bot]
      /\ ~bots'[a].exists
      /\ \A x \in Agent \ {a} : bots'[x] = bots[x]
  BY <1>1, <1>3, <1>4 DEF IInv, TypeOK
<1>6. Known(s)' /\ Stage(s)'
  BY <1>1, <1>2, <1>3, <1>5 DEF Known, Stage
<1>7. EntitledInv'
  BY <1>5 DEF IInv, EntitledInv, Entitled
<1>8. QED
  BY <1>1, <1>2, <1>3, <1>5, <1>6, <1>7, GoesInv DEF IInv, TypeOK

LEMMA LeaveDeleteIdentityInv ==
    ASSUME IInv, NEW s \in Slot, LeaveDeleteIdentity(s)
    PROVE  IInv'
<1> DEFINE a == Name(s)
<1>1. /\ Busy(s) /\ a \in Agent
      /\ Accepts(calls[s].ev) /\ calls[s].ev.type = "leaver"
      /\ BotUser[a] \in locks
  BY NameType DEF LeaveDeleteIdentity, Busy, IInv, CallInv, Known
<1>2. /\ calls' \in [Slot -> Call]
      /\ calls'[s].pc = "done"
      /\ calls'[s].ev = calls[s].ev
      /\ Name(s)' = a
      /\ \A t \in Slot \ {s} : calls'[t] = calls[t]
  BY <1>1, StepFacts DEF LeaveDeleteIdentity, Pc
<1>3. /\ wis' = wis \ {a}
      /\ UNCHANGED <<bots, locks, svids, alone, settled>>
  BY DEF LeaveDeleteIdentity, DeleteWorkloadIdentity
<1>4. Known(s)'
  BY <1>1, <1>2, <1>3 DEF Known
<1>5. s \in alone => Stage(s)'
  BY <1>1, <1>2, <1>3
     DEF Stage, Converged, IInv, AloneInv, LeaveDeleteIdentity
<1>6. EntitledInv'
  BY <1>3 DEF IInv, EntitledInv, Entitled
<1>7. QED
  BY <1>1, <1>2, <1>3, <1>4, <1>5, <1>6, GoesInv DEF IInv, TypeOK

LEMMA EndingInv ==
    ASSUME IInv, NEW s \in Slot, Complete(s) \/ GiveUp(s)
    PROVE  IInv'
<1>1. Busy(s)
  BY DEF Complete, GiveUp, Busy
<1>2. QED
  BY <1>1, EndInv DEF Complete, GiveUp

LEMMA SvidInv ==
    ASSUME IInv, NEW a \in Agent, IssueSVID(a) \/ Expire(a)
    PROVE  IInv'
<1>1. UNCHANGED <<wis, bots, locks, calls, alone, settled>>
  BY DEF IssueSVID, Expire
<1>2. TypeOK'
  BY <1>1 DEF IInv, TypeOK, IssueSVID, Expire
<1>3. CallInv' /\ AloneInv' /\ SettledInv' /\ EntitledInv'
  BY <1>1 DEF IInv, CallInv, Known, AloneInv, Busy, Sole, Stage, SettledInv,
     EntitledInv, Converged, Name, Subj
<1>4. OutstandingSvidsAreSevered'
  BY <1>1 DEF IInv, OutstandingSvidsAreSevered, IssueSVID, Expire, CanIssueSVID
<1>5. QED
  BY <1>2, <1>3, <1>4 DEF IInv

LEMMA StutterInv ==
    ASSUME IInv, UNCHANGED vars
    PROVE  IInv'
BY DEF vars, IInv, TypeOK, CallInv, Known, AloneInv, Busy, Sole, Stage,
   SettledInv, EntitledInv, Converged, Name, Subj, OutstandingSvidsAreSevered

-----------------------------------------------------------------------------
(* The inductive invariant holds of every behaviour.                        *)
THEOREM Invariance == Spec => []IInv
<1>1. IInv /\ [Next]_vars => IInv'
  <2> SUFFICES ASSUME IInv, [Next]_vars PROVE IInv'
    OBVIOUS
  <2>1. ASSUME NEW s \in Slot, NEW ev \in Feed, Submit(s, ev) PROVE IInv'
    BY <2>1, SubmitInv
  <2>2. ASSUME NEW s \in Slot, \/ GrantIdentity(s) \/ GrantBot(s)
                               \/ LeaveLock(s) \/ LeaveRemoveBot(s)
                               \/ LeaveDeleteIdentity(s)
        PROVE  IInv'
    BY <2>2, GrantIdentityInv, GrantBotInv, LeaveLockInv, LeaveRemoveBotInv,
       LeaveDeleteIdentityInv
  <2>3. ASSUME NEW s \in Slot, Retry(s) \/ Complete(s) \/ GiveUp(s) PROVE IInv'
    BY <2>3, RetryInv, EndingInv
  <2>4. ASSUME NEW s \in Slot, NEW t \in Slot, TimeOut(s, t) PROVE IInv'
    BY <2>4, TimeOutInv
  <2>5. ASSUME NEW a \in Agent, IssueSVID(a) \/ Expire(a) PROVE IInv'
    BY <2>5, SvidInv
  <2>6. CASE UNCHANGED vars
    BY <2>6, StutterInv
  <2>7. QED
    BY <2>1, <2>2, <2>3, <2>4, <2>5, <2>6 DEF Next
<1>2. QED
  BY <1>1, InitInv, PTL DEF Spec

(* Every variable keeps its type.                                           *)
THEOREM TypeCorrect == Spec => []TypeOK
<1>1. IInv => TypeOK
  BY DEF IInv
<1>2. QED
  BY <1>1, Invariance, PTL

(* A join, move or leave that nothing else on the agent overlaps leaves bot *)
(* and identity as its event says, whatever failed and was retried on the   *)
(* way (agent.go, ReconcileAgent).                                          *)
THEOREM Convergence == Spec => []AgentConverges
<1>1. IInv => AgentConverges
  BY DEF IInv, SettledInv, AgentConverges
<1>2. QED
  BY <1>1, Invariance, PTL

(* A decommission takes the credential away with its first call, and it     *)
(* stays away up to the end of the call (agent.go, leaveAgent).             *)
THEOREM SeversFirst == Spec => []LeaveSeversFirst
<1>1. IInv => LeaveSeversFirst
  <2> SUFFICES ASSUME IInv, NEW s \in alone,
                      calls[s].pc \in {"removeBot", "deleteIdentity", "done"},
                      calls[s].ev.type = "leaver"
               PROVE  /\ ~CanIssueSVID(bots, wis, Name(s))
                      /\ BotUser[Name(s)] \in locks
    BY DEF LeaveSeversFirst
  <2>1. s \in Slot /\ Stage(s) /\ Known(s)
    BY DEF IInv, TypeOK, AloneInv, CallInv
  <2>2. QED
    BY <2>1 DEF Stage, Known, Converged, CanIssueSVID
<1>2. QED
  BY <1>1, Invariance, PTL

(* An SVID that outlives its bot or its identity is severed by the cluster  *)
(* lock (workload.go, LockBot; agent.go, leaveAgent).                       *)
THEOREM SvidsAreSevered == Spec => []OutstandingSvidsAreSevered
<1>1. IInv => OutstandingSvidsAreSevered
  BY DEF IInv
<1>2. QED
  BY <1>1, Invariance, PTL

-----------------------------------------------------------------------------
\* Only five actions write to the access plane, each to the agent of its call.
LEMMA WritingSteps ==
    ASSUME IInv, NEW s \in Slot
    PROVE  /\ Name(s) \in Agent /\ calls[s].ev \in Feed
           /\ GrantIdentity(s) => /\ calls[s].ev.type \in {"joiner", "mover"}
                                  /\ Busy(s)
                                  /\ wis' = wis \cup {Name(s)}
                                  /\ UNCHANGED <<bots, locks>>
           /\ GrantBot(s) => /\ Accepts(calls[s].ev)
                             /\ calls[s].ev.type \in {"joiner", "mover"}
                             /\ Busy(s)
                             /\ bots' = [bots EXCEPT ![Name(s)] =
                                           [exists |-> TRUE,
                                            roles  |-> RolesForAgent(Subj(s)),
                                            locked |-> FALSE]]
                             /\ UNCHANGED <<wis, locks>>
           /\ LeaveLock(s) => /\ Accepts(calls[s].ev)
                              /\ calls[s].ev.type = "leaver"
                              /\ bots' = [bots EXCEPT ![Name(s)] =
                                            [exists |-> TRUE,
                                             roles  |-> bots[Name(s)].roles,
                                             locked |-> TRUE]]
                              /\ locks' = locks \cup {BotUser[Name(s)]}
                              /\ wis' = wis
           /\ LeaveRemoveBot(s) => /\ BotUser[Name(s)] \in locks
                                   /\ bots' = [bots EXCEPT ![Name(s)] = NoBot]
                                   /\ UNCHANGED <<wis, locks>>
           /\ LeaveDeleteIdentity(s) => /\ BotUser[Name(s)] \in locks
                                        /\ wis' = wis \ {Name(s)}
                                        /\ UNCHANGED <<bots, locks>>
<1> USE NameType DEF IInv, CallInv, Known, Busy
<1>1. Name(s) \in Agent /\ calls[s].ev \in Feed /\ Known(s)
  OBVIOUS
<1>2. ASSUME GrantIdentity(s)
      PROVE  /\ calls[s].ev.type \in {"joiner", "mover"} /\ Busy(s)
             /\ wis' = wis \cup {Name(s)} /\ UNCHANGED <<bots, locks>>
  BY <1>2 DEF GrantIdentity, UpsertWorkloadIdentity
<1>3. ASSUME GrantBot(s)
      PROVE  /\ Accepts(calls[s].ev)
             /\ calls[s].ev.type \in {"joiner", "mover"} /\ Busy(s)
             /\ bots' = [bots EXCEPT ![Name(s)] =
                    [exists |-> TRUE, roles |-> RolesForAgent(Subj(s)), locked |-> FALSE]]
             /\ UNCHANGED <<wis, locks>>
  BY <1>1, <1>3 DEF GrantBot, AddBot, Accepts
<1>4. ASSUME LeaveLock(s)
      PROVE  /\ Accepts(calls[s].ev) /\ calls[s].ev.type = "leaver"
             /\ bots' = [bots EXCEPT ![Name(s)] =
                    [exists |-> TRUE, roles |-> bots[Name(s)].roles, locked |-> TRUE]]
             /\ locks' = locks \cup {BotUser[Name(s)]} /\ wis' = wis
  BY <1>4 DEF LeaveLock, LockBot, CreateLock
<1>5. ASSUME LeaveRemoveBot(s)
      PROVE  /\ BotUser[Name(s)] \in locks
             /\ bots' = [bots EXCEPT ![Name(s)] = NoBot]
             /\ UNCHANGED <<wis, locks>>
  BY <1>1, <1>5 DEF LeaveRemoveBot, RemoveBot
<1>6. ASSUME LeaveDeleteIdentity(s)
      PROVE  /\ BotUser[Name(s)] \in locks
             /\ wis' = wis \ {Name(s)} /\ UNCHANGED <<bots, locks>>
  BY <1>1, <1>6 DEF LeaveDeleteIdentity, DeleteWorkloadIdentity
<1>7. QED
  BY <1>1, <1>2, <1>3, <1>4, <1>5, <1>6

LEMMA QuietSteps ==
    ASSUME [Next]_vars,
           \A s \in Slot : ~( \/ GrantIdentity(s) \/ GrantBot(s) \/ LeaveLock(s)
                              \/ LeaveRemoveBot(s) \/ LeaveDeleteIdentity(s))
    PROVE  UNCHANGED <<wis, bots, locks>>
BY DEF Next, vars, Submit, Complete, Retry, GiveUp, TimeOut, IssueSVID, Expire

(* An agent becomes able to mint an SVID only while one of its own joins or *)
(* moves is being reconciled; no step of a leave, however late or repeated, *)
(* gives a credential back (agent.go, joinAgent and leaveAgent).            *)
THEOREM MintingByGrant == Spec => MintingOnlyByGrant
<1> DEFINE A == \A a \in Agent :
                    CanIssueSVID(bots, wis, a)' /\ ~CanIssueSVID(bots, wis, a) =>
                        \E s \in Slot : /\ Busy(s) /\ Name(s) = a
                                        /\ calls[s].ev.type \in {"joiner", "mover"}
<1>1. IInv /\ [Next]_vars => [A]_vars
  <2> SUFFICES ASSUME IInv, [Next]_vars, NEW a \in Agent,
                      CanIssueSVID(bots, wis, a)', ~CanIssueSVID(bots, wis, a)
               PROVE  \E s \in Slot : /\ Busy(s) /\ Name(s) = a
                                      /\ calls[s].ev.type \in {"joiner", "mover"}
    OBVIOUS
  <2> bots \in [Agent -> Bot]
    BY DEF IInv, TypeOK
  <2>1. PICK s \in Slot : \/ GrantIdentity(s) \/ GrantBot(s) \/ LeaveLock(s)
                          \/ LeaveRemoveBot(s) \/ LeaveDeleteIdentity(s)
    BY QuietSteps DEF CanIssueSVID
  <2>2. CASE LeaveLock(s)
    BY <2>2, WritingSteps DEF CanIssueSVID
  <2>3. CASE LeaveRemoveBot(s)
    BY <2>3, WritingSteps DEF CanIssueSVID, NoBot
  <2>4. CASE LeaveDeleteIdentity(s)
    BY <2>4, WritingSteps DEF CanIssueSVID
  <2>5. CASE GrantIdentity(s)
    BY <2>5, WritingSteps DEF CanIssueSVID
  <2>6. CASE GrantBot(s)
    BY <2>6, WritingSteps DEF CanIssueSVID
  <2>7. QED
    BY <2>1, <2>2, <2>3, <2>4, <2>5, <2>6
<1>2. QED
  BY <1>1, Invariance, PTL DEF Spec, MintingOnlyByGrant

\* The access of an agent and what the promise calls severed, state by state.
Severed == {a \in Agent : BotUser[a] \in locks}

(* Agents are held to the promise made for people: every step of every      *)
(* interleaving is a grant of an entitlement, a severing, or no change of   *)
(* what any agent can use (agent.go; Agent.lean).                           *)
THEOREM Refinement == Spec => ImplementsOffboarding
<1>1. Init => Promise!Init
  BY DEF Init, Promise!Init, Access, CanIssueSVID, NoBot
<1>2. IInv /\ [Next]_vars => [Promise!Next]_<<Access, Severed>>
  <2> SUFFICES ASSUME IInv, [Next]_vars
               PROVE  Promise!Next \/ UNCHANGED <<Access, Severed>>
    OBVIOUS
  <2> bots \in [Agent -> Bot]
    BY DEF IInv, TypeOK
  <2>1. ASSUME NEW s \in Slot, GrantIdentity(s) \/ GrantBot(s)
        PROVE  Promise!Next \/ UNCHANGED <<Access, Severed>>
    <3> DEFINE a == Name(s)
    <3>1. a \in Agent /\ locks' = locks /\ Severed' = Severed
      BY <2>1, WritingSteps DEF Severed
    <3>2. \A b \in Agent \ {a} : bots'[b] = bots[b] /\ (b \in wis' <=> b \in wis)
      BY <2>1, WritingSteps
    <3>3. \A b \in Agent \ {a} : Access'[b] = Access[b]
      BY <3>1, <3>2 DEF Access, CanIssueSVID
    <3>4. CASE Access'[a] = Access[a]
      BY <3>1, <3>3, <3>4 DEF Access
    <3>5. CASE Access'[a] # Access[a]
      <4>1. a \notin Severed
        BY <3>1, <3>5 DEF Access, Severed
      <4>2. bots'[a].exists /\ ~bots'[a].locked => bots'[a].roles \in Entitled(a)
        <5>1. IInv'
          BY <2>1, GrantIdentityInv, GrantBotInv
        <5>2. QED
          BY <3>1, <5>1 DEF IInv, EntitledInv, Entitled
      <4>3. CASE bots'[a].exists /\ ~bots'[a].locked /\ a \in wis'
        <5>1. Access'[a] = bots'[a].roles
          BY <3>1, <4>1, <4>3 DEF Access, CanIssueSVID, Severed
        <5>2. Access' = [Access EXCEPT ![a] = bots'[a].roles]
          BY <3>1, <3>3, <5>1 DEF Access
        <5>3. Promise!Grant(a)
          BY <3>1, <4>1, <4>2, <4>3, <5>2 DEF Promise!Grant, Entitled, Severed
        <5>4. QED
          BY <3>1, <5>3 DEF Promise!Next
      <4>4. CASE ~(bots'[a].exists /\ ~bots'[a].locked /\ a \in wis')
        <5>1. Access[a] = {}
          BY <2>1, <3>1, <4>1, <4>4, WritingSteps DEF Access, CanIssueSVID, Severed
        <5>2. Access'[a] = {}
          BY <3>1, <4>4 DEF Access, CanIssueSVID
        <5>3. QED
          BY <3>5, <5>1, <5>2
      <4>5. QED
        BY <4>3, <4>4
    <3>6. QED
      BY <3>4, <3>5
  <2>2. ASSUME NEW s \in Slot, LeaveLock(s)
        PROVE  Promise!Next \/ UNCHANGED <<Access, Severed>>
    <3>0. PICK a \in Agent : a = Name(s)
      BY <2>2, WritingSteps
    <3>1. /\ a \in Agent /\ calls[s].ev \in Feed
          /\ Accepts(calls[s].ev) /\ calls[s].ev.type = "leaver"
          /\ locks' = locks \cup {BotUser[a]} /\ wis' = wis
          /\ \A b \in Agent \ {a} : bots'[b] = bots[b]
      BY <2>2, <3>0, WritingSteps
    <3>2. a \in {b \in Agent : \E ev \in Records(b) : ev.type = "leaver"}
      BY <3>0, <3>1 DEF Records, Name, Subj
    <3>3. Severed' = Severed \cup {a}
      BY <3>1, BotUserAssumption DEF Severed
    <3>4. Access' = [Access EXCEPT ![a] = {}]
      BY <3>1, BotUserAssumption DEF Access, CanIssueSVID
    <3>5. Promise!Sever(a)
      BY <3>2, <3>3, <3>4 DEF Promise!Sever, Severed
    <3>6. QED
      BY <3>1, <3>5 DEF Promise!Next
  <2>3. ASSUME NEW s \in Slot, LeaveRemoveBot(s) \/ LeaveDeleteIdentity(s)
        PROVE  UNCHANGED <<Access, Severed>>
    <3>1. /\ Name(s) \in Agent /\ BotUser[Name(s)] \in locks /\ locks' = locks
          /\ \A b \in Agent \ {Name(s)} : bots'[b] = bots[b] /\ (b \in wis' <=> b \in wis)
      BY <2>3, WritingSteps
    <3>2. QED
      BY <3>1 DEF Access, Severed, CanIssueSVID
  <2>4. CASE \A s \in Slot : ~( \/ GrantIdentity(s) \/ GrantBot(s) \/ LeaveLock(s)
                                \/ LeaveRemoveBot(s) \/ LeaveDeleteIdentity(s))
    <3>1. UNCHANGED <<wis, bots, locks>>
      BY <2>4, QuietSteps
    <3>2. QED
      BY <3>1 DEF Access, Severed, CanIssueSVID
  <2>5. QED
    BY <2>1, <2>2, <2>3, <2>4
<1>3. QED
  BY <1>1, <1>2, Invariance, PTL
     DEF Spec, ImplementsOffboarding, Promise!Spec, Severed

=============================================================================
