--------------------------- MODULE WorkflowsProofs --------------------------
(***************************************************************************)
(* What Workflows guarantees for every feed, policy, request and ticket,   *)
(* any number of workers, attempts and signals.  Needed besides the        *)
(* properties: what the records still to be emitted say of the run         *)
(* (JmlInv), that a user's roles on any worker are those of a record HR    *)
(* delivered (GrantInv), and that a saga past its lock left it on a worker *)
(* (LockInv).                                                              *)
(***************************************************************************)
EXTENDS Workflows, SequenceTheorems, TLAPS

Grants == {"provision", "update_roles"}

Pending(run) == {run.report[i] : i \in 1..Len(run.report)}

Sound(run, h) ==
    /\ run.pc = "reconcile" => run.ev.employee.email = h
    /\ run.pc \in {"emit", "done"} /\ run.ev.type = "leaver" /\ ~run.silent
          => {"lock", "deprovision"} \subseteq run.sent \cup Pending(run)
    /\ run.pc = "done" => run.report = <<>>
    /\ (run.sent \cup Pending(run)) \cap Grants \subseteq run.changed

JmlInv == \A h \in Human : Sound(jml[h], h)

Employs(ev) == ev.type # "leaver" /\ ev.employee.status # "terminated"

Granted(h) ==
    {RolesFor(ev.employee) : ev \in {e \in employed : e.employee.email = h}}

GrantInv ==
    /\ \A w \in Worker : \A h \in Human :
          clusters[w].users[h].exists =>
              clusters[w].users[h].roles \in {{}} \cup Granted(h)
    /\ \A h \in Human : jml[h].pc = "reconcile" /\ Employs(jml[h].ev) =>
          jml[h].ev \in employed

LockInv ==
    \A t \in TicketRef : lockout[t].pc \in {"update", "audit", "resolved"} =>
        \E w \in lockout[t].on :
            lockout[t].target \in clusters[w].locks \/ w \in crashed

IInv == /\ TypeOK /\ JmlInv /\ GrantInv /\ LockInv
        /\ FirstAnswerDecides /\ AutoApprovalFollowsHr

-----------------------------------------------------------------------------
\* A report is a sequence of at most two action kinds.
LEMMA ReportIsSeq ==
    ASSUME NEW r
    PROVE  r \in UNION {[1..n -> ActionKind] : n \in 0..2}
               <=> r \in Seq(ActionKind) /\ Len(r) <= 2
<1>1. ASSUME NEW n \in 0..2, r \in [1..n -> ActionKind]
      PROVE  r \in Seq(ActionKind) /\ Len(r) <= 2
  <2>1. r \in Seq(ActionKind)
    BY <1>1, SeqDef
  <2>2. DOMAIN r = 1..n /\ DOMAIN r = 1..Len(r) /\ Len(r) \in Nat
    BY <1>1, <2>1, LenProperties
  <2>3. QED
    BY <2>1, <2>2
<1>2. ASSUME r \in Seq(ActionKind), Len(r) <= 2
      PROVE  \E n \in 0..2 : r \in [1..n -> ActionKind]
  <2>1. Len(r) \in Nat /\ r \in [1..Len(r) -> ActionKind]
    BY <1>2, LenProperties, Zenon
  <2>2. Len(r) \in 0..2
    BY <1>2, <2>1
  <2>3. QED
    BY <2>1, <2>2
<1>3. QED
  BY <1>1, <1>2

\* The signals of a request are a sequence of at most MaxSignals answers.
LEMMA SignalsAreSeq ==
    ASSUME NEW r
    PROVE  r \in UNION {[1..n -> BOOLEAN] : n \in 0..MaxSignals}
               <=> r \in Seq(BOOLEAN) /\ Len(r) <= MaxSignals
<1>0. MaxSignals \in Nat
  BY WorkflowsAssumption
<1>1. ASSUME NEW n \in 0..MaxSignals, r \in [1..n -> BOOLEAN]
      PROVE  r \in Seq(BOOLEAN) /\ Len(r) <= MaxSignals
  <2>1. n \in Nat /\ r \in Seq(BOOLEAN)
    BY <1>0, <1>1, SeqDef
  <2>2. DOMAIN r = 1..n /\ DOMAIN r = 1..Len(r) /\ Len(r) \in Nat
    BY <1>1, <2>1, LenProperties
  <2>3. QED
    BY <1>0, <2>1, <2>2
<1>2. ASSUME r \in Seq(BOOLEAN), Len(r) <= MaxSignals
      PROVE  \E n \in 0..MaxSignals : r \in [1..n -> BOOLEAN]
  BY <1>0, <1>2, LenProperties
<1>3. QED
  BY <1>1, <1>2

LEMMA TailFacts ==
    ASSUME NEW r \in Seq(ActionKind), r # <<>>, Len(r) <= 2
    PROVE  /\ Tail(r) \in Seq(ActionKind) /\ Len(Tail(r)) <= 2
           /\ Head(r) \in ActionKind
           /\ {r[i] : i \in 1..Len(r)}
                 = {Head(r)} \cup {Tail(r)[i] : i \in 1..Len(Tail(r))}
<1>1. /\ Head(r) \in ActionKind /\ Head(r) = r[1]
      /\ Tail(r) \in Seq(ActionKind) /\ Len(Tail(r)) = Len(r) - 1
      /\ \A i \in 1..Len(Tail(r)) : Tail(r)[i] = r[i + 1]
      /\ Len(r) \in Nat \ {0}
  BY HeadTailProperties, EmptySeq
<1>2. \A i \in 1..Len(r) : i = 1 \/ (i - 1 \in 1..Len(Tail(r))
                                     /\ r[i] = Tail(r)[i - 1])
  BY <1>1
<1>3. \A i \in 1..Len(Tail(r)) : i + 1 \in 1..Len(r)
  BY <1>1
<1>4. QED
  BY <1>1, <1>2, <1>3

LEMMA EventFacts ==
    ASSUME NEW ev \in Feed
    PROVE  /\ ev.employee.email \in Human
           /\ RolesFor(ev.employee) \in SUBSET Role
           /\ ~(ev.employee.status # "terminated")
                 => RolesFor(ev.employee) = {}
BY WorkflowsAssumption, PolicyAssumption
   DEF Event, Employee, RolesFor

\* What one attempt, whole or not, does to the cluster it works on.
LEMMA StopFacts ==
    ASSUME NEW c \in Cluster, NEW ev \in Feed, NEW d \in Stops(c, ev)
    PROVE  /\ d \in Cluster
           /\ c.locks \subseteq d.locks
           /\ \A h \in Human :
                 d.users[h].exists =>
                    \/ d.users[h] = c.users[h]
                    \/ /\ h = ev.employee.email /\ ev.type # "leaver"
                       /\ d.users[h].roles = RolesFor(ev.employee)
           /\ \A h \in Human : Changes(c, d, h) \subseteq ActionKind
<1>1. ev.employee.email \in Human /\ RolesFor(ev.employee) \in SUBSET Role
  BY EventFacts
<1>2. NoUser \in User
  BY DEF NoUser, User
<1>3. \A h \in Human : Changes(c, d, h) \subseteq ActionKind
  BY DEF Changes
<1>4. CASE d = c
  BY <1>3, <1>4
<1>5. CASE d = Locked(c, ev.employee.email)
  BY <1>1, <1>3, <1>5 DEF Locked, CreateLock, Cluster, Principal
<1>6. CASE d = Reconciled(c, ev) /\ ev.type = "leaver"
  <2>1. d = [users |-> [c.users EXCEPT ![ev.employee.email] = NoUser],
             locks |-> c.locks \cup {ev.employee.email}]
    BY <1>6 DEF Reconciled, DeleteUser, CreateLock
  <2>2. \A h \in Human : h # ev.employee.email => d.users[h] = c.users[h]
    BY <2>1 DEF Cluster
  <2>3. ~d.users[ev.employee.email].exists
    BY <1>1, <2>1 DEF Cluster, NoUser
  <2>4. d \in Cluster
    BY <1>1, <1>2, <2>1 DEF Cluster, Principal
  <2>5. QED
    BY <1>3, <2>1, <2>2, <2>3, <2>4
<1>7. CASE d = Reconciled(c, ev) /\ ev.type # "leaver"
  <2> DEFINE new == [exists |-> TRUE, roles |-> RolesFor(ev.employee)]
  <2>1. d = [c EXCEPT !.users = [c.users EXCEPT ![ev.employee.email] = new]]
    BY <1>7 DEF Reconciled, UpsertUser
  <2>2. new \in User
    BY <1>1 DEF User
  <2>3. d \in Cluster /\ d.locks = c.locks
    BY <1>1, <2>1, <2>2 DEF Cluster
  <2>4. /\ d.users[ev.employee.email] = new
        /\ \A h \in Human : h # ev.employee.email => d.users[h] = c.users[h]
    BY <1>1, <2>1 DEF Cluster
  <2>5. QED
    BY <1>3, <1>7, <2>3, <2>4
<1>8. QED
  BY <1>4, <1>5, <1>6, <1>7 DEF Stops

LEMMA ReportFacts ==
    ASSUME NEW c \in Cluster, NEW ev \in Feed
    PROVE  /\ Report(c, ev) \in Seq(ActionKind)
           /\ Len(Report(c, ev)) <= 2
           /\ LET said == {Report(c, ev)[i] : i \in 1..Len(Report(c, ev))}
              IN  /\ ev.type = "leaver" => said = {"lock", "deprovision"}
                  /\ said \cap Grants \subseteq
                        Changes(c, Reconciled(c, ev), ev.employee.email)
<1> DEFINE h == ev.employee.email
           cur == c.users[h]
           said == {Report(c, ev)[i] : i \in 1..Len(Report(c, ev))}
<1>1. h \in Human /\ cur \in User
  BY EventFacts DEF Cluster
<1>2. CASE ev.type = "leaver"
  <2>1. Report(c, ev) = <<"lock", "deprovision">>
    BY <1>2 DEF Report
  <2>2. said = {"lock", "deprovision"}
    BY <2>1
  <2>3. QED
    BY <2>1, <2>2, <1>2 DEF ActionKind, Grants
<1>3. ASSUME NEW k \in ActionKind, Report(c, ev) = <<k>>,
             k \in Grants => k \in Changes(c, Reconciled(c, ev), h),
             ev.type # "leaver"
      PROVE  /\ Report(c, ev) \in Seq(ActionKind)
             /\ Len(Report(c, ev)) <= 2
             /\ said \cap Grants \subseteq Changes(c, Reconciled(c, ev), h)
  <2>1. said = {k}
    BY <1>3
  <2>2. QED
    BY <1>3, <2>1
<1>4. CASE ev.type # "leaver"
  <2>1. Reconciled(c, ev).users[h] =
            [exists |-> TRUE, roles |-> RolesFor(ev.employee)]
    BY <1>1, <1>4 DEF Reconciled, UpsertUser, Cluster
  <2>2. CASE cur.exists /\ cur.roles = RolesFor(ev.employee)
    BY <1>3, <1>4, <2>2 DEF Report, ActionKind, Grants
  <2>3. CASE cur.exists /\ cur.roles # RolesFor(ev.employee)
    <3>1. Report(c, ev) = <<"update_roles">>
      BY <1>4, <2>3 DEF Report
    <3>2. "update_roles" \in Changes(c, Reconciled(c, ev), h)
      BY <2>1, <2>3 DEF Changes, ActionKind
    <3>3. QED
      BY <1>3, <1>4, <3>1, <3>2 DEF ActionKind
  <2>4. CASE ~cur.exists
    <3>1. Report(c, ev) = <<"provision">>
      BY <1>4, <2>4 DEF Report
    <3>2. "provision" \in Changes(c, Reconciled(c, ev), h)
      BY <2>1, <2>4 DEF Changes, ActionKind
    <3>3. QED
      BY <1>3, <1>4, <3>1, <3>2 DEF ActionKind
  <2>5. QED
    BY <1>1, <2>2, <2>3, <2>4 DEF User
<1>5. QED
  BY <1>2, <1>4

-----------------------------------------------------------------------------
\* What a step needs of the parts of the state it leaves alone or writes.

Types1 == clusters \in [Worker -> Cluster] /\ crashed \subseteq Worker
Types2 == jml \in [Human -> JmlRun] /\ employed \subseteq Feed
Types3 == jit \in [AccessRequest -> JitRun]
Types4 == lockout \in [TicketRef -> LockoutRun] /\ solved \subseteq Known

LEMMA TypeSplit == TypeOK <=> Types1 /\ Types2 /\ Types3 /\ Types4
BY DEF TypeOK, Types1, Types2, Types3, Types4

(* The invariant holds at the start, and every action preserves it.         *)
LEMMA InitInv == Init => IInv
<1> SUFFICES ASSUME Init PROVE IInv
  OBVIOUS
<1>1. PICK e \in Feed : e = CHOOSE ev \in Feed : TRUE
  BY WorkflowsAssumption
<1>2. 1 \in 1..MaxAttempts
  BY WorkflowsAssumption
<1>3. <<>> \in UNION {[1..n -> ActionKind] : n \in 0..2}
  BY ReportIsSeq, EmptySeq
<1>4. <<>> \in UNION {[1..n -> BOOLEAN] : n \in 0..MaxSignals}
  <2>1. <<>> \in Seq(BOOLEAN) /\ Len(<<>>) <= MaxSignals
    BY EmptySeq, WorkflowsAssumption
  <2>2. QED
    BY <2>1, SignalsAreSeq
<1>5. EmptyCluster \in Cluster
        /\ \A h \in Human : ~EmptyCluster.users[h].exists
  BY DEF EmptyCluster, Cluster, NoUser, User
<1>6. Types1
  BY <1>5 DEF Init, Types1
<1>7. Types2
  BY <1>1, <1>2, <1>3 DEF Init, Types2, Begin, JmlRun
<1>8. Types3
  BY <1>2, <1>4 DEF Init, Types3, JitRun
<1>9. Types4
  BY <1>2 DEF Init, Types4, LockoutRun, Principal
<1>10. JmlInv
  <2> SUFFICES ASSUME NEW h \in Human
               PROVE  Sound(jml[h], h)
    BY DEF JmlInv
  <2>1. jml[h].pc = "idle" /\ jml[h].report = <<>> /\ jml[h].sent = {}
    BY DEF Init, Begin
  <2>2. Pending(jml[h]) = {}
    BY <2>1, EmptySeq DEF Pending
  <2>3. QED
    BY <2>1, <2>2 DEF Sound
<1>11. GrantInv
  BY <1>5 DEF Init, GrantInv, Begin
<1>12. LockInv /\ FirstAnswerDecides /\ AutoApprovalFollowsHr
  BY DEF Init, LockInv, FirstAnswerDecides, AutoApprovalFollowsHr
<1>13. QED
  BY <1>6, <1>7, <1>8, <1>9, <1>10, <1>11, <1>12, TypeSplit DEF IInv

\* More employment records can only justify more.
LEMMA StaysGranted ==
    ASSUME GrantInv, UNCHANGED clusters, employed \subseteq employed'
    PROVE  \A w \in Worker : \A h \in Human :
              clusters'[w].users[h].exists =>
                  clusters'[w].users[h].roles \in {{}} \cup Granted(h)'
BY DEF GrantInv, Granted

LEMMA StaysApproved ==
    ASSUME AutoApprovalFollowsHr, employed \subseteq employed',
           \A r \in AccessRequest :
               jit'[r].pc = "auto-approved" => jit[r].pc = "auto-approved"
    PROVE  AutoApprovalFollowsHr'
BY DEF AutoApprovalFollowsHr

\* A lock is only ever lost with its worker's process.
LEMMA StaysLocked ==
    ASSUME LockInv, UNCHANGED lockout, crashed \subseteq crashed',
           \A t \in TicketRef : lockout[t].on \subseteq Worker,
           \A w \in Worker : clusters[w].locks \subseteq clusters'[w].locks
                            \/ w \in crashed'
    PROVE  LockInv'
BY DEF LockInv

-----------------------------------------------------------------------------
\* JoinerMoverLeaverWorkflow.

\* A step that moves one lifecycle run and nothing else.
LEMMA JmlMoves ==
    ASSUME IInv, NEW h \in Human, NEW run \in JmlRun,
           jml' = [jml EXCEPT ![h] = run],
           UNCHANGED <<clusters, jit, lockout, employed, solved, crashed>>,
           run.ev = jml[h].ev,
           run.pc = "reconcile" => jml[h].pc = "reconcile",
           Sound(run, h)
    PROVE  IInv'
<1> USE DEF IInv
<1>1. Types1' /\ Types3' /\ Types4'
  BY TypeSplit DEF Types1, Types3, Types4
<1>2. /\ jml'[h] = run
      /\ \A k \in Human : k # h => jml'[k] = jml[k]
      /\ Types2'
  BY TypeSplit DEF Types2
<1>3. JmlInv'
  BY <1>2 DEF JmlInv
<1>4. GrantInv'
  BY <1>2, StaysGranted DEF GrantInv
<1>5. LockInv'
  BY DEF LockInv
<1>6. FirstAnswerDecides' /\ AutoApprovalFollowsHr'
  BY DEF FirstAnswerDecides, AutoApprovalFollowsHr
<1>7. QED
  BY <1>1, <1>2, <1>3, <1>4, <1>5, <1>6
     DEF TypeOK, Types1, Types2, Types3, Types4

LEMMA StartJmlInv ==
    ASSUME IInv, NEW ev \in Feed, StartJml(ev)
    PROVE  IInv'
<1> USE DEF IInv
<1> DEFINE h == ev.employee.email
<1>1. h \in Human /\ Begin(ev) \in JmlRun
  <2>1. 1 \in 1..MaxAttempts
    BY WorkflowsAssumption
  <2>2. <<>> \in UNION {[1..n -> ActionKind] : n \in 0..2}
    BY ReportIsSeq, EmptySeq
  <2>3. QED
    BY <2>1, <2>2, EventFacts DEF Begin, JmlRun
<1>2. Types1' /\ Types3' /\ Types4'
  BY TypeSplit DEF Types1, Types3, Types4, StartJml
<1>3. /\ jml'[h] = Begin(ev)
      /\ \A k \in Human : k # h => jml'[k] = jml[k]
      /\ Types2'
  BY <1>1, TypeSplit DEF Types2, StartJml
<1>4. /\ employed \subseteq employed'
      /\ Employs(ev) => ev \in employed'
      /\ UNCHANGED <<clusters, jit, lockout, crashed>>
  BY DEF StartJml, Employs
<1>5. /\ Begin(ev).pc = "reconcile" /\ Begin(ev).ev = ev
      /\ Begin(ev).sent = {} /\ Pending(Begin(ev)) = {}
  BY EmptySeq DEF Begin, Pending
<1>6. JmlInv'
  <2>1. Sound(Begin(ev), h)
    BY <1>5 DEF Sound
  <2>2. QED
    BY <1>3, <2>1 DEF JmlInv
<1>7. GrantInv'
  BY <1>3, <1>4, <1>5, StaysGranted DEF GrantInv
<1>8. LockInv' /\ FirstAnswerDecides'
  BY <1>4 DEF LockInv, FirstAnswerDecides
<1>9. AutoApprovalFollowsHr'
  BY <1>4, StaysApproved
<1>10. QED
  BY <1>2, <1>3, <1>6, <1>7, <1>8, <1>9
     DEF TypeOK, Types1, Types2, Types3, Types4

\* An attempt of ReconcileHuman, wherever it stops: the cluster follows the
\* event, the run remembers what changed.
LEMMA AttemptInv ==
    ASSUME IInv, NEW h \in Human, NEW w \in Worker,
           jml[h].pc = "reconcile",
           NEW c \in Stops(clusters[w], jml[h].ev),
           clusters' = [clusters EXCEPT ![w] = c],
           NEW run \in JmlRun,
           jml' = [jml EXCEPT ![h] = run],
           UNCHANGED <<jit, lockout, solved, employed, crashed>>,
           run.ev = jml[h].ev,
           Sound(run, h)
    PROVE  IInv'
<1> USE DEF IInv
<1>1. Types1 /\ Types2 /\ Types3 /\ Types4
  BY TypeSplit
<1>2. /\ clusters[w] \in Cluster /\ jml[h].ev \in Feed
      /\ jml[h].ev.employee.email = h
  BY <1>1 DEF Types1, Types2, JmlRun, JmlInv, Sound
<1>3. /\ c \in Cluster /\ clusters[w].locks \subseteq c.locks
      /\ \A k \in Human :
            c.users[k].exists =>
               \/ c.users[k] = clusters[w].users[k]
               \/ /\ k = h /\ jml[h].ev.type # "leaver"
                  /\ c.users[k].roles = RolesFor(jml[h].ev.employee)
  BY <1>2, StopFacts
<1>4. /\ clusters'[w] = c
      /\ \A v \in Worker : v # w => clusters'[v] = clusters[v]
      /\ Types1'
  BY <1>1, <1>3 DEF Types1
<1>5. /\ jml'[h] = run
      /\ \A k \in Human : k # h => jml'[k] = jml[k]
      /\ Types2'
  BY <1>1 DEF Types2
<1>6. Types3' /\ Types4'
  BY <1>1 DEF Types3, Types4
<1>7. JmlInv'
  BY <1>5 DEF JmlInv
<1>8. GrantInv'
  <2>1. jml[h].ev.type # "leaver" =>
            RolesFor(jml[h].ev.employee) \in {{}} \cup Granted(h)
    <3>1. CASE jml[h].ev.employee.status = "terminated"
      BY <1>2, <3>1, EventFacts
    <3>2. ASSUME jml[h].ev.employee.status # "terminated",
                 jml[h].ev.type # "leaver"
          PROVE  RolesFor(jml[h].ev.employee) \in Granted(h)
      <4>1. jml[h].ev \in employed
        BY <3>2 DEF GrantInv, Employs
      <4>2. QED
        BY <1>2, <4>1 DEF Granted
    <3>3. QED
      BY <3>1, <3>2
  <2>2. \A v \in Worker : \A k \in Human :
            clusters'[v].users[k].exists =>
                clusters'[v].users[k].roles \in {{}} \cup Granted(k)
    BY <1>3, <1>4, <2>1 DEF GrantInv
  <2>3. \A k \in Human : Granted(k)' = Granted(k)
    BY DEF Granted
  <2>4. \A k \in Human : jml'[k].pc = "reconcile" /\ Employs(jml'[k].ev) =>
            jml'[k].ev \in employed'
    BY <1>5 DEF GrantInv, Employs
  <2>5. QED
    BY <2>2, <2>3, <2>4 DEF GrantInv
<1>9. LockInv'
  <2>1. \A t \in TicketRef : lockout[t].on \subseteq Worker
    BY <1>1 DEF Types4, LockoutRun
  <2>2. \A v \in Worker : clusters[v].locks \subseteq clusters'[v].locks
    BY <1>3, <1>4
  <2>3. QED
    BY <2>1, <2>2, StaysLocked
<1>10. FirstAnswerDecides' /\ AutoApprovalFollowsHr'
  BY DEF FirstAnswerDecides, AutoApprovalFollowsHr
<1>11. QED
  BY <1>4, <1>5, <1>6, <1>7, <1>8, <1>9, <1>10
     DEF TypeOK, Types1, Types2, Types3, Types4

LEMMA ReconcileRefusedInv ==
    ASSUME IInv, NEW h \in Human, ReconcileRefused(h)
    PROVE  IInv'
<1> DEFINE run == [jml[h] EXCEPT !.pc = "failed"]
<1>1. jml[h] \in JmlRun /\ jml \in [Human -> JmlRun] /\ Sound(jml[h], h)
  BY DEF IInv, TypeOK, JmlInv
<1>2. run \in JmlRun /\ Sound(run, h)
  BY <1>1 DEF JmlRun, Sound, Pending
<1>3. run.ev = jml[h].ev /\ run.pc = "failed"
  BY <1>1 DEF JmlRun
<1>4. /\ jml' = [jml EXCEPT ![h] = run]
      /\ UNCHANGED <<clusters, jit, lockout, employed, solved, crashed>>
  BY <1>1 DEF ReconcileRefused
<1>5. QED
  BY <1>2, <1>3, <1>4, JmlMoves

LEMMA ReconcileDoneInv ==
    ASSUME IInv, NEW h \in Human, NEW w \in Worker, ReconcileDone(h, w)
    PROVE  IInv'
<1> DEFINE old == jml[h]
           c   == Reconciled(clusters[w], old.ev)
           r   == Report(clusters[w], old.ev)
           ch  == Changes(clusters[w], c, h)
           run == [old EXCEPT !.pc = "emit", !.attempt = 1, !.report = r,
                              !.changed = @ \cup ch]
<1>1. /\ old \in JmlRun /\ Sound(old, h) /\ old.ev \in Feed
      /\ clusters[w] \in Cluster
      /\ old.pc = "reconcile" /\ old.ev.employee.email = h
  BY DEF IInv, TypeOK, JmlInv, JmlRun, Sound, ReconcileDone
<1>2. c \in Stops(clusters[w], old.ev)
  BY DEF Stops
<1>3. ch \subseteq ActionKind
  BY <1>1, <1>2, StopFacts
<1>4. /\ r \in Seq(ActionKind) /\ Len(r) <= 2
      /\ old.ev.type = "leaver" =>
            {r[i] : i \in 1..Len(r)} = {"lock", "deprovision"}
      /\ {r[i] : i \in 1..Len(r)} \cap Grants \subseteq ch
  BY <1>1, ReportFacts
<1>5. r \in UNION {[1..n -> ActionKind] : n \in 0..2}
  BY <1>4, ReportIsSeq
<1>6. 1 \in 1..MaxAttempts
  BY WorkflowsAssumption
<1>7. /\ run \in JmlRun /\ run.pc = "emit" /\ run.ev = old.ev
      /\ run.report = r /\ run.sent = old.sent
      /\ run.changed = old.changed \cup ch
  BY <1>1, <1>3, <1>5, <1>6 DEF JmlRun
<1>8. Sound(run, h)
  BY <1>1, <1>4, <1>7 DEF Sound, Pending
<1>9. /\ clusters' = [clusters EXCEPT ![w] = c]
      /\ jml' = [jml EXCEPT ![h] = run]
      /\ UNCHANGED <<jit, lockout, solved, employed, crashed>>
  BY DEF ReconcileDone
<1>10. QED
  BY <1>1, <1>2, <1>7, <1>8, <1>9, AttemptInv

\* Another attempt leaves everything but the count as it is.
LEMMA NextAttempt ==
    ASSUME NEW h \in Human, NEW run \in JmlRun, run.attempt < MaxAttempts
    PROVE  LET new == [run EXCEPT !.attempt = @ + 1]
           IN  /\ new \in JmlRun /\ new.pc = run.pc /\ new.ev = run.ev
               /\ Sound(run, h) => Sound(new, h)
<1> DEFINE new == [run EXCEPT !.attempt = @ + 1]
<1>1. run.attempt + 1 \in 1..MaxAttempts
  BY WorkflowsAssumption DEF JmlRun
<1>2. /\ new \in JmlRun /\ new.pc = run.pc /\ new.ev = run.ev
      /\ new.report = run.report /\ new.changed = run.changed
      /\ new.sent = run.sent /\ new.silent = run.silent
  BY <1>1 DEF JmlRun
<1>3. Pending(new) = Pending(run)
  BY <1>2 DEF Pending
<1>4. QED
  BY <1>2, <1>3 DEF Sound

LEMMA ReconcileFailsInv ==
    ASSUME IInv, NEW h \in Human, NEW w \in Worker, ReconcileFails(h, w)
    PROVE  IInv'
<1> DEFINE old == jml[h]
<1>1. /\ old \in JmlRun /\ Sound(old, h) /\ old.ev \in Feed
      /\ clusters[w] \in Cluster /\ old.pc = "reconcile"
  BY DEF IInv, TypeOK, JmlInv, JmlRun, ReconcileFails
<1>2. PICK c \in Stops(clusters[w], old.ev) :
         LET run == [old EXCEPT !.changed = @ \cup Changes(clusters[w], c, h)]
         IN  /\ clusters' = [clusters EXCEPT ![w] = c]
             /\ jml' = [jml EXCEPT ![h] =
                    Again(run, [run EXCEPT !.pc = "failed"])]
  BY DEF ReconcileFails
<1> DEFINE ch  == Changes(clusters[w], c, h)
           run == [old EXCEPT !.changed = @ \cup ch]
           new == Again(run, [run EXCEPT !.pc = "failed"])
<1>3. ch \subseteq ActionKind
  BY <1>1, StopFacts
<1>4. /\ run \in JmlRun /\ run.pc = "reconcile" /\ run.ev = old.ev
      /\ run.report = old.report /\ run.sent = old.sent
      /\ run.changed = old.changed \cup ch
  BY <1>1, <1>3 DEF JmlRun
<1>5. Sound(run, h)
  <2>1. Pending(run) = Pending(old)
    BY <1>4 DEF Pending
  <2>2. QED
    BY <1>1, <1>4, <2>1 DEF Sound
<1>6. new \in JmlRun /\ new.ev = run.ev /\ Sound(new, h)
  <2>1. CASE run.attempt < MaxAttempts
    BY <1>4, <1>5, <2>1, NextAttempt DEF Again
  <2>2. CASE ~(run.attempt < MaxAttempts)
    <3>1. new = [run EXCEPT !.pc = "failed"]
      BY <2>2 DEF Again
    <3>2. /\ new \in JmlRun /\ new.pc = "failed" /\ new.ev = run.ev
          /\ new.report = run.report /\ new.sent = run.sent
          /\ new.changed = run.changed
      BY <1>4, <3>1 DEF JmlRun
    <3>3. Pending(new) = Pending(run)
      BY <3>2 DEF Pending
    <3>4. QED
      BY <1>5, <3>2, <3>3 DEF Sound
  <2>3. QED
    BY <2>1, <2>2
<1>7. /\ clusters' = [clusters EXCEPT ![w] = c]
      /\ jml' = [jml EXCEPT ![h] = new]
      /\ UNCHANGED <<jit, lockout, solved, employed, crashed>>
  BY <1>2 DEF ReconcileFails
<1>8. QED
  BY <1>1, <1>4, <1>5, <1>6, <1>7, AttemptInv

\* A record leaves the report, for the SIEM or given up.
LEMMA DropRecord ==
    ASSUME NEW h \in Human, NEW old \in JmlRun, Sound(old, h),
           old.pc = "emit", old.report # <<>>,
           NEW run \in JmlRun, run.pc = "emit", run.ev = old.ev,
           run.report = Tail(old.report), run.changed = old.changed,
           old.sent \subseteq run.sent,
           run.sent \subseteq old.sent \cup {Head(old.report)},
           old.silent => run.silent,
           run.silent \/ Head(old.report) \in run.sent
    PROVE  Sound(run, h)
<1>1. old.report \in Seq(ActionKind) /\ Len(old.report) <= 2
  BY ReportIsSeq DEF JmlRun
<1>2. Pending(old) = {Head(old.report)} \cup Pending(run)
  BY <1>1, TailFacts DEF Pending
<1>3. QED
  BY <1>2 DEF Sound

LEMMA EmitDoneInv ==
    ASSUME IInv, NEW h \in Human, EmitDone(h)
    PROVE  IInv'
<1> DEFINE old == jml[h]
           run == [old EXCEPT !.sent = @ \cup {Head(old.report)},
                              !.report = Tail(@), !.attempt = 1]
<1>1. /\ old \in JmlRun /\ Sound(old, h) /\ jml \in [Human -> JmlRun]
      /\ old.pc = "emit" /\ old.report # <<>>
  BY DEF IInv, TypeOK, JmlInv, EmitDone
<1>2. /\ Head(old.report) \in ActionKind
      /\ Tail(old.report) \in UNION {[1..n -> ActionKind] : n \in 0..2}
  BY <1>1, ReportIsSeq, TailFacts DEF JmlRun
<1>3. 1 \in 1..MaxAttempts
  BY WorkflowsAssumption
<1>4. /\ run \in JmlRun /\ run.pc = "emit" /\ run.ev = old.ev
      /\ run.report = Tail(old.report) /\ run.changed = old.changed
      /\ run.sent = old.sent \cup {Head(old.report)}
      /\ run.silent = old.silent
  BY <1>1, <1>2, <1>3 DEF JmlRun
<1>5. Sound(run, h)
  BY <1>1, <1>4, DropRecord
<1>6. /\ jml' = [jml EXCEPT ![h] = run]
      /\ UNCHANGED <<clusters, jit, lockout, employed, solved, crashed>>
  BY <1>1 DEF EmitDone
<1>7. QED
  BY <1>1, <1>4, <1>5, <1>6, JmlMoves

LEMMA EmitFailsInv ==
    ASSUME IInv, NEW h \in Human, EmitFails(h)
    PROVE  IInv'
<1> DEFINE old == jml[h]
<1>1. /\ old \in JmlRun /\ Sound(old, h) /\ jml \in [Human -> JmlRun]
      /\ old.pc = "emit" /\ old.report # <<>>
  BY DEF IInv, TypeOK, JmlInv, EmitFails
<1>2. PICK got \in SUBSET {Head(old.report)} :
         LET run == [old EXCEPT !.sent = @ \cup got]
         IN  jml' = [jml EXCEPT ![h] =
                 Again(run, [run EXCEPT !.report = Tail(@), !.attempt = 1,
                                        !.silent = TRUE])]
  BY DEF EmitFails
<1> DEFINE run == [old EXCEPT !.sent = @ \cup got]
           lost == [run EXCEPT !.report = Tail(@), !.attempt = 1,
                               !.silent = TRUE]
           new == Again(run, lost)
<1>3. /\ Head(old.report) \in ActionKind
      /\ Tail(old.report) \in UNION {[1..n -> ActionKind] : n \in 0..2}
      /\ Head(old.report) \in Pending(old)
  <2>1. old.report \in Seq(ActionKind) /\ Len(old.report) <= 2
    BY <1>1, ReportIsSeq DEF JmlRun
  <2>2. QED
    BY <1>1, <2>1, ReportIsSeq, TailFacts DEF Pending
<1>4. 1 \in 1..MaxAttempts
  BY WorkflowsAssumption
<1>5. /\ run \in JmlRun /\ run.pc = "emit" /\ run.ev = old.ev
      /\ run.report = old.report /\ run.changed = old.changed
      /\ run.sent = old.sent \cup got /\ run.silent = old.silent
  BY <1>1, <1>3 DEF JmlRun
<1>6. Sound(run, h)
  <2>1. Pending(run) = Pending(old)
    BY <1>5 DEF Pending
  <2>2. QED
    BY <1>1, <1>3, <1>5, <2>1 DEF Sound
<1>7. /\ lost \in JmlRun /\ lost.pc = "emit" /\ lost.ev = old.ev
      /\ lost.report = Tail(old.report) /\ lost.changed = old.changed
      /\ lost.sent = old.sent \cup got /\ lost.silent
  BY <1>3, <1>4, <1>5 DEF JmlRun
<1>8. Sound(lost, h)
  BY <1>1, <1>7, DropRecord
<1>9. new \in JmlRun /\ new.pc = "emit" /\ new.ev = old.ev /\ Sound(new, h)
  <2>1. CASE run.attempt < MaxAttempts
    BY <1>5, <1>6, <2>1, NextAttempt DEF Again
  <2>2. CASE ~(run.attempt < MaxAttempts)
    BY <1>7, <1>8, <2>2 DEF Again
  <2>3. QED
    BY <2>1, <2>2
<1>10. /\ jml' = [jml EXCEPT ![h] = new]
       /\ UNCHANGED <<clusters, jit, lockout, employed, solved, crashed>>
  BY <1>2 DEF EmitFails
<1>11. QED
  BY <1>9, <1>10, <1>1, JmlMoves

LEMMA NarrateInv ==
    ASSUME IInv, NEW h \in Human, Narrate(h)
    PROVE  IInv'
<1> DEFINE run == [jml[h] EXCEPT !.pc = "done"]
<1>1. /\ jml[h] \in JmlRun /\ jml \in [Human -> JmlRun] /\ Sound(jml[h], h)
      /\ jml[h].pc = "emit" /\ jml[h].report = <<>>
  BY DEF IInv, TypeOK, JmlInv, Narrate
<1>2. /\ run \in JmlRun /\ run.pc = "done" /\ run.ev = jml[h].ev
      /\ run.report = <<>> /\ run.sent = jml[h].sent
      /\ run.changed = jml[h].changed /\ run.silent = jml[h].silent
  BY <1>1 DEF JmlRun
<1>3. Sound(run, h)
  BY <1>1, <1>2 DEF Sound, Pending
<1>4. /\ jml' = [jml EXCEPT ![h] = run]
      /\ UNCHANGED <<clusters, jit, lockout, employed, solved, crashed>>
  BY <1>1 DEF Narrate
<1>5. QED
  BY <1>1, <1>2, <1>3, <1>4, JmlMoves

-----------------------------------------------------------------------------
\* AccessRequestWorkflow.

\* A step that moves one request's run and nothing else.
LEMMA JitMoves ==
    ASSUME IInv, NEW r \in AccessRequest, NEW run \in JitRun,
           jit' = [jit EXCEPT ![r] = run],
           UNCHANGED <<clusters, jml, lockout, solved, employed, crashed>>,
           run.pc \in {"human-approved", "denied"} =>
               (run.pc = "human-approved"
                   <=> run.signals # <<>> /\ Head(run.signals)),
           run.pc = "auto-approved" =>
               \E ev \in employed :
                   /\ ev.employee.email = r.user
                   /\ CanAutoApprove(RolesFor(ev.employee), r.requested)
    PROVE  IInv'
<1> USE DEF IInv
<1>1. /\ jit \in [AccessRequest -> JitRun]
      /\ jit'[r] = run
      /\ \A q \in AccessRequest : q # r => jit'[q] = jit[q]
  BY DEF TypeOK
<1>2. TypeOK'
  BY <1>1 DEF TypeOK
<1>3. JmlInv' /\ LockInv'
  BY DEF JmlInv, LockInv
<1>4. GrantInv'
  BY StaysGranted DEF GrantInv
<1>5. FirstAnswerDecides'
  BY <1>1 DEF FirstAnswerDecides
<1>6. AutoApprovalFollowsHr'
  BY <1>1 DEF AutoApprovalFollowsHr
<1>7. QED
  BY <1>2, <1>3, <1>4, <1>5, <1>6

LEMMA StartJitInv ==
    ASSUME IInv, NEW r \in AccessRequest, StartJit(r)
    PROVE  IInv'
<1> DEFINE run == [pc |-> "evaluating", attempt |-> 1, signals |-> <<>>]
<1>1. <<>> \in UNION {[1..n -> BOOLEAN] : n \in 0..MaxSignals}
  <2>1. <<>> \in Seq(BOOLEAN) /\ Len(<<>>) <= MaxSignals
    BY EmptySeq, WorkflowsAssumption
  <2>2. QED
    BY <2>1, SignalsAreSeq
<1>2. run \in JitRun /\ run.pc = "evaluating"
  BY <1>1, WorkflowsAssumption DEF JitRun
<1>3. QED
  BY <1>2, JitMoves DEF StartJit

LEMMA JitType ==
    ASSUME IInv, NEW r \in AccessRequest
    PROVE  jit[r] \in JitRun /\ jit \in [AccessRequest -> JitRun]
BY DEF IInv, TypeOK

LEMMA EvaluateDoneInv ==
    ASSUME IInv, NEW r \in AccessRequest, NEW w \in Worker, EvaluateDone(r, w)
    PROVE  IInv'
<1> DEFINE cur == clusters[w].users[r.user]
           pc  == IF cur.exists /\ CanAutoApprove(cur.roles, r.requested)
                  THEN "auto-approved" ELSE "awaiting-approval"
           run == [jit[r] EXCEPT !.pc = pc]
<1>1. run \in JitRun /\ run.pc = pc
  BY JitType DEF JitRun
<1>2. ASSUME cur.exists, CanAutoApprove(cur.roles, r.requested)
      PROVE  \E ev \in employed :
                /\ ev.employee.email = r.user
                /\ CanAutoApprove(RolesFor(ev.employee), r.requested)
  <2>1. r.user \in Human
    BY WorkflowsAssumption
  <2>2. cur.roles \in {{}} \cup Granted(r.user)
    BY <1>2, <2>1 DEF IInv, GrantInv
  <2>3. cur.roles # {}
    BY <1>2 DEF CanAutoApprove
  <2>4. QED
    BY <1>2, <2>2, <2>3 DEF Granted
<1>3. /\ jit' = [jit EXCEPT ![r] = run]
      /\ UNCHANGED <<clusters, jml, lockout, solved, employed, crashed>>
  BY JitType DEF EvaluateDone
<1>4. pc \notin {"human-approved", "denied"}
  OBVIOUS
<1>5. pc = "auto-approved" =>
          cur.exists /\ CanAutoApprove(cur.roles, r.requested)
  OBVIOUS
<1>6. QED
  BY <1>1, <1>2, <1>3, <1>4, <1>5, JitMoves

LEMMA EvaluateFailsInv ==
    ASSUME IInv, NEW r \in AccessRequest, EvaluateFails(r)
    PROVE  IInv'
<1> DEFINE run == Again(jit[r], [jit[r] EXCEPT !.pc = "failed"])
<1>1. run \in JitRun /\ run.pc \in {"evaluating", "failed"}
  <2>1. jit[r] \in JitRun /\ jit[r].pc = "evaluating"
    BY JitType DEF EvaluateFails
  <2>2. CASE jit[r].attempt < MaxAttempts
    BY <2>1, <2>2, WorkflowsAssumption DEF Again, JitRun
  <2>3. CASE ~(jit[r].attempt < MaxAttempts)
    BY <2>1, <2>3 DEF Again, JitRun
  <2>4. QED
    BY <2>2, <2>3
<1>2. QED
  BY <1>1, JitMoves DEF EvaluateFails

LEMMA SignalInv ==
    ASSUME IInv, NEW r \in AccessRequest, NEW approve \in BOOLEAN,
           Signal(r, approve)
    PROVE  IInv'
<1> DEFINE run == [jit[r] EXCEPT !.signals = Append(@, approve)]
<1>1. jit[r].signals \in Seq(BOOLEAN) /\ Len(jit[r].signals) < MaxSignals
  BY JitType, SignalsAreSeq DEF JitRun, Signal
<1>2. /\ Append(jit[r].signals, approve) \in Seq(BOOLEAN)
      /\ Len(Append(jit[r].signals, approve)) <= MaxSignals
  BY <1>1, AppendProperties, LenProperties, WorkflowsAssumption
<1>3. run \in JitRun /\ run.pc = jit[r].pc
  BY <1>2, JitType, SignalsAreSeq DEF JitRun
<1>4. run.pc \notin {"auto-approved", "human-approved", "denied"}
  BY <1>3 DEF Signal, Running
<1>5. QED
  BY <1>3, <1>4, JitMoves, JitType DEF Signal

LEMMA TakeSignalInv ==
    ASSUME IInv, NEW r \in AccessRequest, TakeSignal(r)
    PROVE  IInv'
<1> DEFINE pc  == IF Head(jit[r].signals) THEN "human-approved" ELSE "denied"
           run == [jit[r] EXCEPT !.pc = pc]
<1>1. run \in JitRun /\ run.pc = pc /\ run.signals = jit[r].signals
  BY JitType DEF JitRun
<1>2. /\ jit' = [jit EXCEPT ![r] = run] /\ jit[r].signals # <<>>
      /\ UNCHANGED <<clusters, jml, lockout, solved, employed, crashed>>
  BY JitType DEF TakeSignal
<1>3. pc \in {"human-approved", "denied"}
      /\ (pc = "human-approved" <=> Head(jit[r].signals))
  OBVIOUS
<1>4. QED
  BY <1>1, <1>2, <1>3, JitMoves

LEMMA TimerFiresInv ==
    ASSUME IInv, NEW r \in AccessRequest, TimerFires(r)
    PROVE  IInv'
<1> DEFINE run == [jit[r] EXCEPT !.pc = "denied"]
<1>1. run \in JitRun /\ run.pc = "denied" /\ run.signals = jit[r].signals
  BY JitType DEF JitRun
<1>2. QED
  BY <1>1, JitMoves, JitType DEF TimerFires

-----------------------------------------------------------------------------
\* LockoutWorkflow.

\* A step that moves one saga, and may solve tickets or add locks.
LEMMA LockoutMoves ==
    ASSUME IInv, NEW t \in TicketRef, NEW run \in LockoutRun,
           lockout' = [lockout EXCEPT ![t] = run],
           clusters' \in [Worker -> Cluster],
           \A w \in Worker : /\ clusters'[w].users = clusters[w].users
                             /\ clusters[w].locks \subseteq clusters'[w].locks,
           solved' \subseteq Known,
           UNCHANGED <<jml, jit, employed, crashed>>,
           run.pc \in {"update", "audit", "resolved"} =>
               \E w \in run.on :
                   run.target \in clusters'[w].locks \/ w \in crashed
    PROVE  IInv'
<1> USE DEF IInv
<1>1. /\ lockout'[t] = run
      /\ \A u \in TicketRef : u # t => lockout'[u] = lockout[u]
      /\ lockout' \in [TicketRef -> LockoutRun]
  BY DEF TypeOK
<1>2. TypeOK'
  BY <1>1 DEF TypeOK
<1>3. JmlInv' /\ FirstAnswerDecides' /\ AutoApprovalFollowsHr'
  BY DEF JmlInv, FirstAnswerDecides, AutoApprovalFollowsHr
<1>4. GrantInv'
  <2>1. \A h \in Human : Granted(h)' = Granted(h)
    BY DEF Granted
  <2>2. QED
    BY <2>1 DEF GrantInv
<1>5. LockInv'
  <2> SUFFICES ASSUME NEW u \in TicketRef,
                      lockout'[u].pc \in {"update", "audit", "resolved"}
               PROVE  \E w \in lockout'[u].on :
                         \/ lockout'[u].target \in clusters'[w].locks
                         \/ w \in crashed'
    BY DEF LockInv
  <2>1. CASE u = t
    BY <1>1, <2>1
  <2>2. CASE u # t
    <3>1. PICK w \in lockout[u].on :
             lockout[u].target \in clusters[w].locks \/ w \in crashed
      BY <1>1, <2>2 DEF LockInv
    <3>2. w \in Worker
      BY <3>1 DEF TypeOK, LockoutRun
    <3>3. QED
      BY <1>1, <2>2, <3>1, <3>2
  <2>3. QED
    BY <2>1, <2>2
<1>6. QED
  BY <1>2, <1>3, <1>4, <1>5

\* The same for the steps that touch no cluster.
LEMMA LockoutOnly ==
    ASSUME IInv, NEW t \in TicketRef, NEW run \in LockoutRun,
           lockout' = [lockout EXCEPT ![t] = run],
           solved' \subseteq Known,
           UNCHANGED <<clusters, jml, jit, employed, crashed>>,
           run.pc \in {"update", "audit", "resolved"} =>
               /\ lockout[t].pc \in {"update", "audit", "resolved"}
               /\ run.on = lockout[t].on /\ run.target = lockout[t].target
    PROVE  IInv'
<1>1. clusters \in [Worker -> Cluster] /\ LockInv
  BY DEF IInv, TypeOK
<1>2. run.pc \in {"update", "audit", "resolved"} =>
          \E w \in run.on :
              run.target \in clusters'[w].locks \/ w \in crashed
  BY <1>1 DEF LockInv
<1>3. QED
  BY <1>1, <1>2, LockoutMoves

LEMMA LockoutType ==
    ASSUME IInv, NEW t \in TicketRef
    PROVE  /\ lockout[t] \in LockoutRun /\ solved \subseteq Known
           /\ lockout \in [TicketRef -> LockoutRun] /\ 1 \in 1..MaxAttempts
BY WorkflowsAssumption DEF IInv, TypeOK

\* Another attempt of a saga's activity leaves all else as it is.
LEMMA NextLockoutAttempt ==
    ASSUME NEW run \in LockoutRun, NEW last \in LockoutRun
    PROVE  LET new == Again(run, last)
           IN  /\ new \in LockoutRun
               /\ \/ new = last
                  \/ /\ new.pc = run.pc /\ new.on = run.on
                     /\ new.target = run.target
<1>1. CASE run.attempt < MaxAttempts
  <2>1. run.attempt + 1 \in 1..MaxAttempts
    BY <1>1, WorkflowsAssumption DEF LockoutRun
  <2>2. QED
    BY <1>1, <2>1 DEF Again, LockoutRun
<1>2. CASE ~(run.attempt < MaxAttempts)
  BY <1>2 DEF Again
<1>3. QED
  BY <1>1, <1>2

LEMMA StartLockoutInv ==
    ASSUME IInv, NEW t \in TicketRef, StartLockout(t)
    PROVE  IInv'
<1> DEFINE run == [lockout[t] EXCEPT !.pc = "classify", !.attempt = 1,
                                     !.target = NoEmail, !.on = {}]
<1>1. run \in LockoutRun /\ run.pc = "classify"
  BY LockoutType DEF LockoutRun, Principal
<1>2. lockout' = [lockout EXCEPT ![t] = run]
  BY LockoutType DEF StartLockout
<1>3. QED
  BY <1>1, <1>2, LockoutType, LockoutOnly DEF StartLockout

LEMMA ClassifyDoneInv ==
    ASSUME IInv, NEW t \in TicketRef, ClassifyDone(t)
    PROVE  IInv'
<1> DEFINE old == lockout[t]
           run == IF Intent(t) = "lockout" /\ Target(t) # NoEmail
                  THEN [old EXCEPT !.pc = "lock", !.attempt = 1,
                                   !.target = Target(t)]
                  ELSE [old EXCEPT !.pc = "ignored"]
<1>1. Target(t) \in Principal
  BY WorkflowsAssumption DEF Target, Ticket, Principal
<1>2. run \in LockoutRun /\ run.pc \in {"lock", "ignored"}
  BY <1>1, LockoutType DEF LockoutRun
<1>3. QED
  BY <1>2, LockoutType, LockoutOnly DEF ClassifyDone

LEMMA ClassifyFailsInv ==
    ASSUME IInv, NEW t \in TicketRef, ClassifyFails(t)
    PROVE  IInv'
<1> DEFINE last == [lockout[t] EXCEPT !.pc = "failed"]
           run  == Again(lockout[t], last)
<1>1. last \in LockoutRun /\ last.pc = "failed"
  BY LockoutType DEF LockoutRun
<1>2. run \in LockoutRun /\ run.pc \in {"classify", "failed"}
  BY <1>1, LockoutType, NextLockoutAttempt DEF ClassifyFails
<1>3. QED
  BY <1>2, LockoutType, LockoutOnly DEF ClassifyFails

LEMMA LockedFacts ==
    ASSUME NEW c \in Cluster, NEW target \in Principal
    PROVE  /\ Locked(c, target) \in Cluster
           /\ Locked(c, target).users = c.users
           /\ Locked(c, target).locks = c.locks \cup {target}
BY DEF Locked, CreateLock, Cluster

LEMMA LockDoneInv ==
    ASSUME IInv, NEW t \in TicketRef, NEW w \in Worker, LockDone(t, w)
    PROVE  IInv'
<1> DEFINE old == lockout[t]
           run == [old EXCEPT !.pc = "update", !.attempt = 1, !.on = {w}]
           c   == Locked(clusters[w], old.target)
<1>1. clusters \in [Worker -> Cluster]
  BY DEF IInv, TypeOK
<1>2. run \in LockoutRun /\ run.on = {w} /\ run.target = old.target
  BY LockoutType DEF LockoutRun
<1>3. /\ c \in Cluster /\ c.users = clusters[w].users
      /\ c.locks = clusters[w].locks \cup {old.target}
  BY <1>1, LockoutType, LockedFacts DEF LockoutRun
<1>4. /\ clusters' \in [Worker -> Cluster] /\ clusters'[w] = c
      /\ \A v \in Worker : v # w => clusters'[v] = clusters[v]
  BY <1>1, <1>3 DEF LockDone
<1>5. lockout' = [lockout EXCEPT ![t] = run]
  BY LockoutType DEF LockDone
<1>6. \A v \in Worker : /\ clusters'[v].users = clusters[v].users
                        /\ clusters[v].locks \subseteq clusters'[v].locks
  BY <1>3, <1>4
<1>7. \E v \in run.on : run.target \in clusters'[v].locks
  BY <1>2, <1>3, <1>4
<1>8. QED
  BY <1>2, <1>4, <1>5, <1>6, <1>7, LockoutType, LockoutMoves DEF LockDone

LEMMA LockFailsInv ==
    ASSUME IInv, NEW t \in TicketRef, NEW w \in Worker, LockFails(t, w)
    PROVE  IInv'
<1> DEFINE old  == lockout[t]
           last == [old EXCEPT !.pc = "failed"]
           run  == Again(old, last)
<1>1. clusters \in [Worker -> Cluster]
  BY DEF IInv, TypeOK
<1>2. PICK c \in {clusters[w], Locked(clusters[w], old.target)} :
         clusters' = [clusters EXCEPT ![w] = c]
  BY DEF LockFails
<1>3. /\ c \in Cluster /\ c.users = clusters[w].users
      /\ clusters[w].locks \subseteq c.locks
  BY <1>1, LockoutType, LockedFacts DEF LockoutRun
<1>4. /\ clusters' \in [Worker -> Cluster] /\ clusters'[w] = c
      /\ \A v \in Worker : v # w => clusters'[v] = clusters[v]
  BY <1>1, <1>2, <1>3
<1>5. last \in LockoutRun /\ last.pc = "failed"
  BY LockoutType DEF LockoutRun
<1>6. run \in LockoutRun /\ run.pc \in {"lock", "failed"}
  BY <1>5, LockoutType, NextLockoutAttempt DEF LockFails
<1>7. \A v \in Worker : /\ clusters'[v].users = clusters[v].users
                        /\ clusters[v].locks \subseteq clusters'[v].locks
  BY <1>3, <1>4
<1>8. QED
  BY <1>4, <1>6, <1>7, LockoutType, LockoutMoves DEF LockFails

LEMMA UpdateDoneInv ==
    ASSUME IInv, NEW t \in TicketRef, UpdateDone(t)
    PROVE  IInv'
<1> DEFINE run == [lockout[t] EXCEPT !.pc = "audit", !.attempt = 1]
<1>1. /\ run \in LockoutRun
      /\ run.on = lockout[t].on /\ run.target = lockout[t].target
  BY LockoutType DEF LockoutRun
<1>2. lockout' = [lockout EXCEPT ![t] = run] /\ solved' \subseteq Known
  BY LockoutType DEF UpdateDone
<1>3. QED
  BY <1>1, <1>2, LockoutOnly DEF UpdateDone

LEMMA UpdateFailsInv ==
    ASSUME IInv, NEW t \in TicketRef, UpdateFails(t)
    PROVE  IInv'
<1> DEFINE last == [lockout[t] EXCEPT !.pc = "audit", !.attempt = 1]
           run  == Again(lockout[t], last)
<1>1. /\ last \in LockoutRun
      /\ last.on = lockout[t].on /\ last.target = lockout[t].target
  BY LockoutType DEF LockoutRun
<1>2. /\ run \in LockoutRun
      /\ run.on = lockout[t].on /\ run.target = lockout[t].target
  BY <1>1, LockoutType, NextLockoutAttempt
<1>3. lockout' = [lockout EXCEPT ![t] = run] /\ solved' \subseteq Known
  BY LockoutType DEF UpdateFails
<1>4. QED
  BY <1>2, <1>3, LockoutOnly DEF UpdateFails

LEMMA AuditForwardedInv ==
    ASSUME IInv, NEW t \in TicketRef, AuditForwarded(t)
    PROVE  IInv'
<1> DEFINE run == [lockout[t] EXCEPT !.pc = "resolved"]
<1>1. /\ run \in LockoutRun
      /\ run.on = lockout[t].on /\ run.target = lockout[t].target
  BY LockoutType DEF LockoutRun
<1>2. lockout' = [lockout EXCEPT ![t] = run] /\ solved' \subseteq Known
  BY LockoutType DEF AuditForwarded
<1>3. QED
  BY <1>1, <1>2, LockoutOnly DEF AuditForwarded

-----------------------------------------------------------------------------
LEMMA RestartInv ==
    ASSUME IInv, NEW w \in Worker, Restart(w)
    PROVE  IInv'
<1> USE DEF IInv
<1>1. /\ EmptyCluster \in Cluster
      /\ \A h \in Human : ~EmptyCluster.users[h].exists
  BY DEF EmptyCluster, Cluster, NoUser, User
<1>2. /\ clusters' \in [Worker -> Cluster] /\ clusters'[w] = EmptyCluster
      /\ \A v \in Worker : v # w => clusters'[v] = clusters[v]
  BY <1>1 DEF Restart, TypeOK
<1>3. /\ crashed' = crashed \cup {w}
      /\ UNCHANGED <<jml, jit, lockout, solved, employed>>
  BY DEF Restart
<1>4. TypeOK'
  BY <1>2, <1>3 DEF TypeOK
<1>5. JmlInv' /\ FirstAnswerDecides' /\ AutoApprovalFollowsHr'
  BY <1>3 DEF JmlInv, FirstAnswerDecides, AutoApprovalFollowsHr
<1>6. GrantInv'
  <2>1. \A h \in Human : Granted(h)' = Granted(h)
    BY <1>3 DEF Granted
  <2>2. QED
    BY <1>1, <1>2, <1>3, <2>1 DEF GrantInv
<1>7. LockInv'
  <2>1. \A t \in TicketRef : lockout[t].on \subseteq Worker
    BY DEF TypeOK, LockoutRun
  <2>2. \A v \in Worker : clusters[v].locks \subseteq clusters'[v].locks
                          \/ v \in crashed'
    BY <1>2, <1>3
  <2>3. QED
    BY <1>3, <2>1, <2>2, StaysLocked
<1>8. QED
  BY <1>4, <1>5, <1>6, <1>7

LEMMA StutterInv ==
    ASSUME IInv, UNCHANGED vars
    PROVE  IInv'
<1> USE DEF IInv, vars
<1>1. TypeOK'
  BY DEF TypeOK
<1>2. JmlInv' /\ FirstAnswerDecides' /\ AutoApprovalFollowsHr' /\ LockInv'
  BY DEF JmlInv, FirstAnswerDecides, AutoApprovalFollowsHr, LockInv
<1>3. GrantInv'
  BY StaysGranted DEF GrantInv
<1>4. QED
  BY <1>1, <1>2, <1>3

(* The inductive invariant holds of every behaviour.                        *)
THEOREM Invariance == Spec => []IInv
<1>1. Init => IInv
  BY InitInv
<1>2. IInv /\ [Next]_vars => IInv'
  <2> SUFFICES ASSUME IInv, [Next]_vars PROVE IInv'
    OBVIOUS
  <2>1. ASSUME NEW ev \in Feed, StartJml(ev) PROVE IInv'
    BY <2>1, StartJmlInv
  <2>2. ASSUME NEW h \in Human, JmlStep(h) PROVE IInv'
    BY <2>2, ReconcileRefusedInv, ReconcileDoneInv, ReconcileFailsInv,
       EmitDoneInv, EmitFailsInv, NarrateInv DEF JmlStep
  <2>3. ASSUME NEW r \in AccessRequest,
               \/ StartJit(r)
               \/ JitStep(r)
               \/ \E approve \in BOOLEAN : Signal(r, approve)
        PROVE  IInv'
    BY <2>3, StartJitInv, EvaluateDoneInv, EvaluateFailsInv, SignalInv,
       TakeSignalInv, TimerFiresInv DEF JitStep
  <2>4. ASSUME NEW t \in TicketRef, StartLockout(t) \/ LockoutStep(t)
        PROVE  IInv'
    BY <2>4, StartLockoutInv, ClassifyDoneInv, ClassifyFailsInv, LockDoneInv,
       LockFailsInv, UpdateDoneInv, UpdateFailsInv, AuditForwardedInv
       DEF LockoutStep
  <2>5. ASSUME NEW w \in Worker, Restart(w) PROVE IInv'
    BY <2>5, RestartInv
  <2>6. CASE UNCHANGED vars
    BY <2>6, StutterInv
  <2>7. QED
    BY <2>1, <2>2, <2>3, <2>4, <2>5, <2>6 DEF Next
<1>3. QED
  BY <1>1, <1>2, PTL DEF Spec

-----------------------------------------------------------------------------
(* The workflows' state keeps its types, the report of a run included,      *)
(* however many records, signals and attempts there are.                    *)
THEOREM TypeCorrect == Spec => []TypeOK
<1>1. IInv => TypeOK
  BY DEF IInv
<1>2. QED
  BY <1>1, Invariance, PTL

(* An offboarding reported done left both records in the SIEM, for any      *)
(* number of workers, restarts and attempts, unless the SIEM refused one.   *)
THEOREM OffboardingAudited == Spec => []OffboardingIsAudited
<1>1. IInv => OffboardingIsAudited
  <2> SUFFICES ASSUME IInv, NEW h \in Human,
                      jml[h].pc = "done", jml[h].ev.type = "leaver",
                      ~jml[h].silent
               PROVE  {"lock", "deprovision"} \subseteq jml[h].sent
    BY DEF OffboardingIsAudited
  <2>1. Sound(jml[h], h)
    BY DEF IInv, JmlInv
  <2>2. Pending(jml[h]) = {}
    BY <2>1, EmptySeq DEF Sound, Pending
  <2>3. QED
    BY <2>1, <2>2 DEF Sound
<1>2. QED
  BY <1>1, Invariance, PTL

(* A grant the SIEM hears of was made by that very run.                     *)
THEOREM GrantsMade == Spec => []GrantsReportedWereMade
<1>1. IInv => GrantsReportedWereMade
  BY DEF IInv, JmlInv, Sound, Grants, GrantsReportedWereMade
<1>2. QED
  BY <1>1, Invariance, PTL

(* The first answer decides, for any number of answers.                     *)
THEOREM FirstAnswer == Spec => []FirstAnswerDecides
<1>1. IInv => FirstAnswerDecides
  BY DEF IInv
<1>2. QED
  BY <1>1, Invariance, PTL

(* Auto-approval follows an HR record on any number of stale workers.       *)
THEOREM AutoApproval == Spec => []AutoApprovalFollowsHr
<1>1. IInv => AutoApprovalFollowsHr
  BY DEF IInv
<1>2. QED
  BY <1>1, Invariance, PTL

(* A resolved ticket's lock is in place while the worker's process lives.   *)
THEOREM ResolvedLocked == Spec => []ResolvedIsLocked
<1>1. IInv => ResolvedIsLocked
  BY DEF IInv, LockInv, ResolvedIsLocked
<1>2. QED
  BY <1>1, Invariance, PTL

=============================================================================
