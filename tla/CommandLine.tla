----------------------------- MODULE CommandLine ----------------------------
(***************************************************************************)
(* The command line pipeline (cmd/lifecycleguard) behind the connectors:   *)
(* vendor messages accumulate in a stream of HR events, in whatever order  *)
(* they arrive; the program reads the stream, reconciles it into a cluster *)
(* of its own, plants the failure modes of the demonstration, audits the   *)
(* result, has it reviewed if asked to, and writes the trace.  It may be   *)
(* run again and again; a run keeps nothing but the file.                  *)
(***************************************************************************)
EXTENDS Scenarios, Connectors, Copilot

CONSTANTS Inbox,         \* the vendor messages that arrive
          Answers,       \* what the language model may come back with
          MaxReceived    \* the length of the stream, in messages

ASSUME InboxAssumption == Inbox \subseteq Message
ASSUME AnswersAssumption == Answers \subseteq Answer
ASSUME ReceivedAssumption == MaxReceived \in Nat
\* What the built-in events and the planted failures name, that it-admin is no
\* role of an SRE without a title, and that dave is not the bot user of the agent.
ASSUME DemoAssumption ==
    /\ {"alice", "bob", "carol", "dave", "erin", "frank"} \subseteq Human
    /\ {"sess-7f3a", "sess-9c21", "sess-3e88"} \subseteq SessionId
    /\ {"usual", "unseen"} \subseteq Address
    /\ 1 \in Serial
    /\ "kyra" \in Agent
    /\ {"kyra-memory", "kyra-calendar"} \subseteq Capability
    /\ {"it-admin", "k8s-prod", "db-readonly"} \subseteq Role
    /\ {"Engineering", "SRE", "IT"} \subseteq Department
    /\ {"none", "Incident Commander", "Manager"} \subseteq Title
    /\ "it-admin" \notin DepartmentRoles["SRE"] \cup TitleRoles["none"]
    /\ BotUser["kyra"] # "dave"

VARIABLES
    received,    \* the messages so far, in the order they arrived
    program,     \* the run under way, or how the last one ended
    file         \* what trace.json holds: nothing or one trace

vars == <<received, program, file>>

-----------------------------------------------------------------------------
Stages == {"reconcile", "requests", "inject", "audit", "review", "write",
           "exited", "failed"}

\* read is how many messages the stream had, if the run was given one.
Nothing == [read |-> {}, events |-> <<>>, cluster |-> Empty, jit |-> {},
            findings |-> {}, review |-> {}]

Running == program.pc \notin {"exited", "failed"}

At(stage) == program.pc = stage

Goes(stage, trace) == program' = [pc |-> stage, done |-> 0, trace |-> trace]

Stream(n) == FlattenSeq([m \in 1..n |-> Canonical(received[m])])

DemoEvents == [n \in DOMAIN DemoHumans |-> DemoHumans[n].ev]

-----------------------------------------------------------------------------
Init ==
    /\ received = <<>>
    /\ program = [pc |-> "exited", done |-> 0, trace |-> Nothing]
    /\ file = {}

\* A message may repeat, or be overtaken by a later one.
Receive(m) ==
    /\ Len(received) < MaxReceived
    /\ received' = Append(received, m)
    /\ UNCHANGED <<program, file>>

\* loadEvents: without a path the built-in events, else the stream, if every
\* event of it is well formed.
StartDemo ==
    /\ ~Running
    /\ Goes("reconcile", [Nothing EXCEPT !.events = DemoEvents])
    /\ UNCHANGED <<received, file>>

Start ==
    LET n == Len(received) IN
    /\ ~Running
    /\ IF ParseStream(Stream(n)) = {}
       THEN Goes("failed", Nothing)
       ELSE \E events \in ParseStream(Stream(n)) :
               Goes("reconcile", [Nothing EXCEPT !.events = events, !.read = {n}])
    /\ UNCHANGED <<received, file>>

\* The main loop: done events are reconciled; the roster follows the record.
ReconcileNext ==
    /\ At("reconcile")
    /\ program.done < Len(program.trace.events)
    /\ LET ev == program.trace.events[program.done + 1] IN
       IF Validate(ev)
       THEN program' = [program EXCEPT !.done = @ + 1,
                            !.trace.cluster = ApplyHuman(@, ev)]
       ELSE program' = [program EXCEPT !.pc = "failed"]
    /\ UNCHANGED <<received, file>>

\* runAgentDemo, after the last event: the agent comes, moves and goes.
RunAgentDemo ==
    /\ At("reconcile")
    /\ program.done = Len(program.trace.events)
    /\ Goes("requests", [program.trace EXCEPT
               !.cluster = Play(@, DemoAgents)])
    /\ UNCHANGED <<received, file>>

Requests == {[user |-> "bob", requested |-> "db-readonly"],
             [user |-> "alice", requested |-> "it-admin"]}

AutoApproved(c, req) ==
    /\ c.users[req.user].exists
    /\ CanAutoApprove(c.users[req.user].roles, req.requested)

\* The just-in-time requests, on the cluster as reconciled: those approved.
Evaluate ==
    /\ At("requests")
    /\ Goes("inject", [program.trace EXCEPT
               !.jit = {req \in Requests : AutoApproved(program.trace.cluster, req)}])
    /\ UNCHANGED <<received, file>>

\* Mutant of Anomalies: the roster is told of the role alice was given.
AnomaliesEntitled(c) ==
    << Survives("dave", {"k8s-prod"}, {}, FALSE),
       HasSession("sess-7f3a", "dave", "unseen"),
       Survives("alice", c.users["alice"].roles \cup {"it-admin"},
                c.entitled["alice"] \cup {"it-admin"}, "alice" \in c.active) >>

\* dave's user, session and roster entry; alice gets a role on top of those she
\* has, and her roster entry stays.
Anomalies(c) ==
    << Survives("dave", {"k8s-prod"}, {}, FALSE),
       HasSession("sess-7f3a", "dave", "unseen"),
       Survives("alice", c.users["alice"].roles \cup {"it-admin"},
                c.entitled["alice"], "alice" \in c.active) >>

\* injectAnomalies, seedDeviceSessions, the inventory and the known addresses.
Inject ==
    LET c == program.trace.cluster
        d == Play(Play(c, Anomalies(c)), SeedDeviceSessions) IN
    /\ At("inject")
    /\ Goes("audit", [program.trace EXCEPT
               !.cluster = Do(Play(d, DemoDevices), Seen("dave", "usual"))])
    /\ UNCHANGED <<received, file>>

\* PostureMaps, Detect and the snapshot.
Audit ==
    /\ At("audit")
    /\ Goes("review", [program.trace EXCEPT !.findings = Detect(program.trace.cluster)])
    /\ UNCHANGED <<received, file>>

\* Without -review, without a key, or after an error the trace has no review.
SkipReview ==
    /\ At("review")
    /\ Goes("write", program.trace)
    /\ UNCHANGED <<received, file>>

\* runCopilot.
Review(answer) ==
    /\ At("review")
    /\ Goes("write", [program.trace EXCEPT !.review = Generate(answer, "2026-Q2")])
    /\ UNCHANGED <<received, file>>

\* writeTrace, if a path was given and the file could be opened.
WriteTrace ==
    /\ At("write")
    /\ Goes("exited", Nothing)
    /\ \/ file' = {program.trace}
       \/ UNCHANGED file
    /\ UNCHANGED received

\* Writing failed, after the old content was cut off.
WriteFails ==
    /\ At("write")
    /\ Goes("exited", Nothing)
    /\ file' = {}
    /\ UNCHANGED received

Next ==
    \/ \E m \in Inbox : Receive(m)
    \/ StartDemo
    \/ Start
    \/ ReconcileNext
    \/ RunAgentDemo
    \/ Evaluate
    \/ Inject
    \/ Audit
    \/ SkipReview
    \/ \E answer \in Answers : Review(answer)
    \/ WriteTrace
    \/ WriteFails

Spec == Init /\ [][Next]_vars

-----------------------------------------------------------------------------
AFinding ==
    [detector : {"offboarded-active-session", "offboarded-identity-survives",
                 "privilege-escalation", "new-geo-access",
                 "unmanaged-device", "noncompliant-device"},
     user : Human, what : SessionId \cup Human \cup Role]

AReview == [period : {"2026-Q2"}, recommendations : SUBSET Recommendation]

Trace == [read     : SUBSET (0..MaxReceived),
          events   : Seq(Event),
          cluster  : Cluster,
          jit      : SUBSET Requests,
          findings : SUBSET AFinding,
          review   : SUBSET AReview]

TypeOK ==
    /\ received \in Seq(Inbox)
    /\ program.pc \in Stages
    /\ program.done \in 0..Len(program.trace.events)
    /\ program.trace \in Trace
    /\ file \subseteq Trace

\* What a message says of people, whatever the connectors make of it: who is
\* gone, and whether it comes as news of that or as a property of the record.
Word(h, gone, news, dept, title) ==
    [who |-> h, gone |-> gone, news |-> gone /\ news,
     roles |-> IF gone THEN {} ELSE DepartmentRoles[dept] \cup TitleRoles[title]]

Words(m) ==
    LET Of(w) ==
            CASE m.from = "rippling poll" ->
                   <<Word(w.email, w.employment = "INACTIVE", TRUE, w.dept, w.title)>>
              [] m.from = "rippling webhook" ->
                   IF w.event = "payroll.closed" THEN <<>> ELSE
                   <<Word(w.data.email, "employee.terminated" = w.event
                                          \/ w.data.employment = "INACTIVE",
                          w.event = "employee.terminated", w.data.dept, w.data.title)>>
              [] m.from = "okta hook" ->
                   IF \/ m.challenge
                      \/ w.event = "user.session.start"
                      \/ w.targets = <<>>
                   THEN <<>> ELSE
                   <<Word(w.targets[1], w.event \in {"user.lifecycle.deactivate",
                                                     "user.lifecycle.suspend"},
                          TRUE, Unset, Unset)>>
    IN  FlattenSeq([n \in DOMAIN m.batch |-> Of(m.batch[n])])

Said(n) == FlattenSeq([m \in 1..n |-> Words(received[m])])

\* The last word on h in the first n messages, if there is one.
LastWord(h, n) ==
    LET said == Said(n) IN
    {said[i] : i \in {j \in DOMAIN said :
        /\ said[j].who = h
        /\ \A k \in (j + 1)..Len(said) : said[k].who # h}}

(* The last message about somebody decides, whatever came before, twice or  *)
(* out of order: the roles of its record and no others, no user and a lock  *)
(* when it is news of a departure.  So a poll, which reads the records as   *)
(* they are, makes up for every message that was lost or late.  The request *)
(* for just-in-time access is decided on the same roles.                    *)
LastWordDecides ==
    \A t \in file : \A n \in t.read :
        \A h \in Human \ {"alice", "dave"} : \A w \in LastWord(h, n) :
            /\ t.cluster.users[h].roles = w.roles
            /\ w.news => ~t.cluster.users[h].exists /\ h \in t.cluster.locks
            /\ \A req \in t.jit : req.user = h =>
                                      CanAutoApprove(w.roles, req.requested)

(* Nobody whom the sources call gone is overlooked: a trace shows the lock, *)
(* or the audit names the user that is left.  The two whom the              *)
(* demonstration itself declares active are not asked about.                *)
GoneIsSeveredOrReported ==
    \A t \in file : \A n \in t.read :
        \A h \in Human \ {"erin", "frank"} : \A w \in LastWord(h, n) :
            w.gone => \/ h \in t.cluster.locks
                      \/ Finding("offboarded-identity-survives", h, h) \in t.findings

\* What injectAnomalies and seedDeviceSessions plant, as the findings it should
\* give: somebody terminated who still has a user and a session, ...
PlantedLeaver == {Finding("offboarded-identity-survives", "dave", "dave"),
                  Finding("offboarded-active-session", "dave", "sess-7f3a")}

\* ... a role alice was given past HR, ...
PlantedRole == Finding("privilege-escalation", "alice", "it-admin")

\* ... and what else comes with dave's user and with the three sessions.
PlantedRest == {Finding("privilege-escalation", "dave", "k8s-prod"),
                Finding("new-geo-access", "dave", "sess-7f3a"),
                Finding("noncompliant-device", "erin", "sess-9c21"),
                Finding("unmanaged-device", "frank", "sess-3e88")}

\* One of the first n messages was news that h is gone, the last or not.
Departed(h, n) == \E i \in DOMAIN Said(n) : Said(n)[i].who = h /\ Said(n)[i].news

(* The audit finds what was planted, however the stream treated the people  *)
(* concerned, with two exceptions. Dave's user and session are passed over  *)
(* if, and only if, the stream ever severed him, since a lock hides both    *)
(* from Detect, although the program plants them "for the audit pass to     *)
(* catch"; and it-admin is no escalation of an alice whom her record grants *)
(* it. Whatever else it reports is about somebody whom the last message     *)
(* calls gone, or about alice if none spoke of her (main.go,                *)
(* injectAnomalies and seedDeviceSessions).                                 *)
FindingsAreDeserved ==
    \A t \in file :
        /\ PlantedRest \subseteq t.findings
        /\ \A f \in PlantedLeaver :
              f \in t.findings <=> ~\E n \in t.read : Departed("dave", n)
        /\ \/ PlantedRole \in t.findings
           \/ \E n \in t.read : \E w \in LastWord("alice", n) : "it-admin" \in w.roles
        /\ \A f \in t.findings \ (PlantedLeaver \cup PlantedRest \cup {PlantedRole}) :
              \E n \in t.read :
                  /\ \A w \in LastWord(f.user, n) : w.gone
                  /\ LastWord(f.user, n) = {} => f.user = "alice"

(* A run that fails has reconciled nothing: a malformed record is refused   *)
(* before the first event is acted on (hris.go, ParseStream: "validates     *)
(* each one"), and an accepted stream is reconciled to its end.             *)
NothingHalfReconciled ==
    /\ At("failed") => program.trace.cluster = Empty
    /\ \A t \in file : \A n \in t.read :
          t.events = Stream(n) /\ \A i \in DOMAIN t.events : Validate(t.events[i])

=============================================================================
