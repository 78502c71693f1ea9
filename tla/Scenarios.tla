------------------------------ MODULE Scenarios -----------------------------
(***************************************************************************)
(* The built-in scenarios of go/internal/scenario, each a script of the    *)
(* Runner's operations on an empty cluster.  People are named by the local *)
(* part of their address; "spiffe:router" is the SPIFFE id of the agent    *)
(* router, which the code uses as a user name.  Source addresses, serial   *)
(* numbers and titles keep only what the detectors and the policy tell     *)
(* apart.  The JIT requests of a seeder change nothing here.               *)
(***************************************************************************)
EXTENDS Runner, Sequences

DefaultHumans ==
    {"alice", "bob", "carol", "dave", "erin", "frank",
     "dana", "evan", "fiona", "gwen",
     "omar", "pia", "raj", "quinn", "sam", "tara",
     "mira", "leo", "spiffe:router",
     "amy", "ben", "cara"}

DefaultAgents == {"kyra", "helix", "summarizer", "scheduler", "router"}

DefaultSessionIds ==
    {"sess-7f3a", "sess-9c21", "sess-3e88", "s-dana", "s-evan", "s-quinn",
     "s-tara", "s-router", "s-amy", "s-ben", "s-cara"}

DefaultAddresses == {"usual", "unseen"}

-----------------------------------------------------------------------------
\* addHuman is applyHuman on an event whose status follows from its type.
Human_(type, h, dept, title) ==
    [op |-> "human", ev |-> NewHumanEvent(type, h, dept, title)]
Joins(h, dept, title) == Human_("joiner", h, dept, title)
Agent_(type, a, scope) == [op |-> "agent", ev |-> NewAgentEvent(type, a, scope)]
AddAgent(a, scope)     == Agent_("joiner", a, scope)
Survives(h, roles, entitled, is) ==
    [op |-> "survivor", user |-> h, roles |-> roles, entitled |-> entitled,
     active |-> is]
HasSession(id, h, ip) == [op |-> "session", id |-> id, user |-> h, ip |-> ip]
Active(h, is)         == [op |-> "active", user |-> h, active |-> is]
HasDevice(h, managed, compliant) ==
    [op |-> "device", user |-> h, managed |-> managed, compliant |-> compliant]
Seen(h, ip)           == [op |-> "known", user |-> h, ip |-> ip]

\* Seeded devices have distinct owners, so one serial number does for all.
Do(c, step) ==
    CASE step.op = "human"    -> ApplyHuman(c, step.ev)
      [] step.op = "agent"    -> ApplyAgent(c, step.ev)
      [] step.op = "survivor" -> Survivor(c, step.user, step.roles,
                                          step.entitled, step.active)
      [] step.op = "session"  -> SeedSession(c, step.id, step.user, step.ip)
      [] step.op = "active"   -> SetActive(c, step.user, step.active)
      [] step.op = "device"   -> Dev(c, 1, step.user, step.managed, step.compliant)
      [] step.op = "known"    -> BaselineIP(c, step.user, step.ip)

\* What a script makes of c, after each number of its steps.
Played(c, steps) ==
    LET after[n \in 0..Len(steps)] ==
            IF n = 0 THEN c ELSE Do(after[n - 1], steps[n])
    IN  after

Play(c, steps) == Played(c, steps)[Len(steps)]

DemoHumans == <<
    Joins("alice", "Engineering", "none"),
    Joins("bob", "SRE", "Incident Commander"),
    Joins("carol", "IT", "Manager"),
    Human_("mover", "alice", "SRE", "none"),
    Human_("leaver", "carol", "IT", "Manager") >>

DemoAgents == <<
    Agent_("joiner", "kyra", {"kyra-memory"}),
    Agent_("mover", "kyra", {"kyra-memory", "kyra-calendar"}),
    Agent_("leaver", "kyra", {}) >>

\* alice, an SRE by now, is given it-admin on top of what she holds.
InjectAnomalies == <<
    Survives("dave", {"k8s-prod"}, {}, FALSE),
    HasSession("sess-7f3a", "dave", "unseen"),
    Survives("alice", DepartmentRoles["SRE"] \cup {"it-admin"},
             DepartmentRoles["SRE"], TRUE) >>

SeedDeviceSessions == <<
    HasSession("sess-9c21", "erin", "usual"),
    HasSession("sess-3e88", "frank", "usual"),
    Active("erin", TRUE),
    Active("frank", TRUE) >>

DemoDevices == <<
    HasDevice("alice", TRUE, TRUE),
    HasDevice("bob", TRUE, TRUE),
    HasDevice("dave", TRUE, TRUE),
    HasDevice("erin", TRUE, FALSE),
    HasDevice("frank", FALSE, FALSE) >>

SeedBaseline ==
    DemoHumans \o DemoAgents \o InjectAnomalies \o SeedDeviceSessions
        \o DemoDevices \o <<Seen("dave", "usual")>>

SeedClean == <<
    Joins("dana", "Engineering", "none"),
    Joins("evan", "SRE", "none"),
    Joins("fiona", "Security", "none"),
    Joins("gwen", "Finance", "Manager"),
    AddAgent("helix", {"mcp-gateway"}),
    HasSession("s-dana", "dana", "usual"),
    HasSession("s-evan", "evan", "usual"),
    HasDevice("dana", TRUE, TRUE),
    HasDevice("evan", TRUE, TRUE),
    HasDevice("fiona", TRUE, TRUE),
    HasDevice("gwen", TRUE, TRUE) >>

SeedOffboardingCrisis == <<
    Joins("omar", "SRE", "none"),
    Joins("pia", "Finance", "Manager"),
    Joins("raj", "IT", "none"),
    Survives("quinn", {"db-readonly", "k8s-prod"}, {}, FALSE),
    HasSession("s-quinn", "quinn", "usual"),
    HasDevice("quinn", TRUE, TRUE),
    Survives("sam", {"finance-app"}, {}, FALSE),
    HasSession("s-tara", "tara", "usual"),
    Active("tara", FALSE),
    HasDevice("tara", TRUE, TRUE) >>

SeedRogueAgent == <<
    Joins("mira", "SRE", "none"),
    Joins("leo", "Engineering", "none"),
    AddAgent("summarizer", {"kyra-memory"}),
    AddAgent("scheduler", {"kyra-calendar"}),
    AddAgent("router", {"mcp-gateway"}),
    Survives("spiffe:router", {"k8s-staging", "it-admin", "k8s-prod"},
             {"k8s-staging"}, TRUE),
    Seen("spiffe:router", "usual"),
    HasSession("s-router", "spiffe:router", "unseen") >>

SeedBYODSprawl == <<
    Joins("amy", "Engineering", "none"),
    Joins("ben", "SRE", "none"),
    Joins("cara", "Finance", "Manager"),
    HasSession("s-amy", "amy", "usual"),
    HasSession("s-ben", "ben", "usual"),
    HasSession("s-cara", "cara", "usual"),
    HasDevice("amy", FALSE, FALSE),
    HasDevice("ben", TRUE, FALSE),
    HasDevice("cara", TRUE, TRUE) >>

Seeders(id) ==
    CASE id = "baseline"           -> SeedBaseline
      [] id = "clean"              -> SeedClean
      [] id = "offboarding-crisis" -> SeedOffboardingCrisis
      [] id = "rogue-agent"        -> SeedRogueAgent
      [] id = "byod-sprawl"        -> SeedBYODSprawl

\* loadLocked: the seeder runs on the state after reset.
SeedOf(id) == Play(Empty, Seeders(id))

=============================================================================
